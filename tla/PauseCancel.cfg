\* A pause that cancels the resting quotes, racing the cycle that places them.
SPECIFICATION Spec
CONSTANTS
  Ids = {o1}
  NoId = NoId
  Actors <- MCActors
  InvCap = 2
  MaxInventory = 1
  Configs <- Escalating
  Commands = {"pause", "resume", "flatten"}
INVARIANTS
  PauseCancelHolds
