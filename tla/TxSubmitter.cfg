\* Three calls from any markets of one process, one restart, every fault of the node.
SPECIFICATION FairSpec
CONSTANTS
  Calls = {c1, c2, c3}
  NoCall = NoCall
  InitialSeq = 2
  MaxRestarts = 1
INVARIANTS
  TypeOK
  Serialized
  HashedSlotsDistinct
  SlotsContiguous
  NeverRefused
PROPERTIES
  CallsReturn
  HashedCommits
  ImplementsAllocator
