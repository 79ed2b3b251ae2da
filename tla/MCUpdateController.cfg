SPECIFICATION Spec
CONSTANTS
  Tags = {t1}
  Boards = {t1}
  Associated <- MCAssociated
  Releases = {r1}
  ImageSize = 2
  MaxAttempts = 2
  QueueMax = 1
  IdMax = 2
  None = None
  Factory = Factory
  Corrupt = Corrupt
  EventMax = 2
  StallMax = 2
INVARIANTS TypeOK ArmedTracked SavedBeforeActing
PROPERTIES TrialNeverReplayed BudgetOnlyByOperator
