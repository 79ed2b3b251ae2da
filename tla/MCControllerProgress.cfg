SPECIFICATION ShippedSpec
CONSTANTS
  Tags = {t1}
  Boards = {t1}
  Associated <- MCAssociated
  Releases = {r1}
  ImageSize = 1
  MaxAttempts = 1
  QueueMax = 1
  IdMax = 2
  None = None
  Factory = Factory
  Corrupt = Corrupt
  EventMax = 1
  StallMax = 1
CONSTRAINT Enabled
PROPERTIES SessionEnds JobsSettle
