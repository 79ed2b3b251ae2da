SPECIFICATION Spec
CONSTANTS
  Tags = {t1, t2}
  Boards = {b1, b2}
  Releases = {r1}
  ImageSize = 1
  MaxAttempts = 2
  QueueMax = 2
  IdMax = 4
  None = None
  MaxNow = 1
SYMMETRY TargetSymmetry
INVARIANTS Restorable
PROPERTIES IdsNeverReused LiveNeverLost OutcomeFinal TrialNeverForgotten
