\* Two tags and room for one, two topics, three commands and three faults.
SPECIFICATION FairSpec
CONSTANTS
  Tags = {t1, t2}
  NSlots = 1
  Last = 1
  OpMax = 3
  FaultMax = 3
  None = None
INVARIANTS OrphansExplained
PROPERTIES EntitiesSettle
CHECK_DEADLOCK FALSE
