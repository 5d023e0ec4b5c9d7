\* Answers lost and abandoned, order ids unknown; and REST views that lag.
SPECIFICATION Spec
CONSTANTS
  Ids = {o1}
  NoId = NoId
  Actors <- MCActors
  InvCap = 2
  MaxInventory = 1
  Configs <- Faulty
  Commands = {"pause", "resume"}
INVARIANTS
  NoClockWhileQuoting
  AtMostOneLatePlacement
PROPERTIES
  EscalationSticks
