\* The whole process: the terminal UI; the event stream of a run; the plans of a run.
SPECIFICATION Spec
CONSTANTS
  AtWork = {"tui", "events", "plan"}
  None = None
  Listing <- MCListing
  MaxText = 1
  Counts = {2, 3}
  MaxColumns = 2
  Rows = 1
  CommandLines <- MCCommandLines
  Profiles <- MCProfiles
  Sessions <- MCSessions
  MaxRevision = 2
  MaxSelected = 6
  MaxTasks = 3
  Frames <- MCFrames
  Capacity = 2
  Backoff <- MCBackoff
  MaxFrames = 3
  MaxSessions = 2
  NoPlan = NoPlan
  Settings <- MCSettings
  Mids = {7, 12, 18, 21}
  MinSize = 2
  MaxPerSide = 2
  MaxTotal = 3
  Balances <- MCBalances
  MaxFailures = 2
  MaxMissing = 1
  MaxStandalone = 1
INVARIANTS
  TypeOK
  SnapshotIsCurrent
  FundingIsCurrent
  OneSnapshotInFlight
  GridOnScreen
  DetailForRowAsked
  LossIsAnnounced
  JournalFollowsVenue
  SoundPlansAreAccepted
  BudgetsKept
  ReconcileIsExact
PROPERTIES
  StopsPromptly
