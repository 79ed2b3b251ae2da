\* A clock of sixteen ticks and a backoff of one to four.
SPECIFICATION Spec
CONSTANTS
  Wrap = 16
  RetryMin = 1
  RetryMax = 4
INVARIANTS TriesSoon
