CONSTANTS
  Null = Null
  Unknown = Unknown
  NoWindow = NoWindow
  Raised = Raised
  Providers = {"openai", "zai"}
  WindowSlots = {"primary", "secondary"}
  WeekLen = 2
  DayLen = 4
  MaxLines = 3
  Slots <- MCSlots
  SlotOf <- MCSlotOf
  Scopes <- MCScopes
  Efforts <- MCEfforts
  Entries <- MCEntries
  Profiles <- MCProfiles
  Requests <- MCRequests
  CodexAnswers <- MCCodexAnswers
  ZaiAnswers <- MCZaiAnswers
  Overrides <- MCOverrides
SPECIFICATION FairSpec
INVARIANTS
    SelectedIsAllowed
    AcquisitionIsOrderly
    DecisionsCompare
PROPERTIES
    EveryCallIsReadyToDecide
CHECK_DEADLOCK FALSE
