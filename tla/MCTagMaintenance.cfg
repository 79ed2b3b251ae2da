\* The proportions of the code, in units of a few seconds to a minute.
SPECIFICATION FairSpec
CONSTANTS
  Window = 6
  Idle = 3
  Cooldown = 3
  Pairing = 2
  Attempts = 3
  AuthTime = 1
  Observe = 3
  Gap = 1
  Feed = 6
  Watchdog = 3
PROPERTIES NeverCutShort WindowsApart ConfirmedOnlyHealthy TrialSettles ConnectionEnds
