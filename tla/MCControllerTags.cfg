SPECIFICATION CurrentSpec
CONSTANTS
  Tags = {t1, t2}
  Boards = {t1, t2}
  Associated <- MCAssociated
  Releases = {r1}
  ImageSize = 1
  MaxAttempts = 1
  QueueMax = 2
  IdMax = 3
  None = None
  Factory = Factory
  Corrupt = Corrupt
  EventMax = 1
  StallMax = 1
CONSTRAINT Up
SYMMETRY TagSymmetry
INVARIANTS SessionOwnsWorker SnapshotRestorable
