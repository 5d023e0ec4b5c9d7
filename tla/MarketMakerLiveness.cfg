\* The escalation at work while the operator is quiet.
SPECIFICATION FairSpec
CONSTANTS
  Ids = {o1, o2}
  NoId = NoId
  Actors <- MCActors
  InvCap = 2
  MaxInventory = 1
  Configs <- Escalating
  Commands = {}
PROPERTIES
  LimitUnwinds
