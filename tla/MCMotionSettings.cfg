\* A tag, paired or not, and a spare slot, two requests, with every fault.
SPECIFICATION FairSpec
CONSTANTS
  Tags = {t1}
  Values = {v1, v2}
  NSlots = 2
  AskMax = 2
  None = None
INVARIANTS KnownIsInForce ForgottenIsGone PairedForGood
PROPERTIES PatchKeepsTheRest NoRequestLost RequestsServed
CHECK_DEADLOCK FALSE
