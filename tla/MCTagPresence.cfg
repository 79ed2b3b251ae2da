\* A short clock, two timeouts that it can count and one that it cannot, two
\* exchanges in the queue, two faults.
SPECIFICATION Spec
CONSTANTS
  Tags = {t1}
  Wrap = 6
  Scale = 2
  Limits = {1, 2, 4}
  Default = 2
  Moving = 1
  Burst = 1
  NSlots = 1
  QMax = 2
  Lag = 1
  FaultMax = 2
  None = None
PROPERTIES AbsenceIsTrue BrokerAgrees
