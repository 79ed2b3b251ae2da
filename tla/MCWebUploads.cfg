\* Two releases of two blocks, uploads of either kind one after the other.
SPECIFICATION Spec
CONSTANTS
  Releases = {r1, r2}
  Corrupt = Corrupt
  None = None
  Blocks = 2
SYMMETRY Symmetric
INVARIANTS StagedIsWhole NothingLeftOpen AnswerIsTrue
PROPERTIES LiveKeepsRelease
