\* One market, no faults of the environment: every interleaving of the two goroutines.
SPECIFICATION Spec
SYMMETRY OrderIds
CONSTANTS
  Ids = {o1, o2}
  NoId = NoId
  Actors <- MCActors
  InvCap = 2
  MaxInventory = 1
  Configs <- Faultless
  Commands = {"pause", "resume", "flatten"}
INVARIANTS
  TypeOK
  QuotesOffWithoutFaults
  OneFlattenWithoutFaults
  ForceOnlyAtLimitIfQuotable
  CleanExit
