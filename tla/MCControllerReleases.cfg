SPECIFICATION Spec
CONSTANTS
  Tags = {t1}
  Boards = {t1}
  Associated <- MCAssociated
  Releases = {r1, r2}
  ImageSize = 1
  MaxAttempts = 1
  QueueMax = 1
  IdMax = 2
  None = None
  Factory = Factory
  Corrupt = Corrupt
  EventMax = 1
  StallMax = 1
CONSTRAINT NoFault
SYMMETRY ReleaseSymmetry
INVARIANTS StageStaysBorrowed
PROPERTIES KeepsPromise SuccessIsTrue
