\* Two words: the order of the claims, and a claim that takes back the leases of
\* several jobs at once.
SPECIFICATION Spec
CONSTANTS
  Keys = {k1, k2}
  Workers = {w1, w2}
  Builders = {b1}
  MaxAttempts = 2
  Lease = 1
  RetryDelay <- MCRetryDelay
  MaxTime = 2
SYMMETRY MCSymmetry
INVARIANTS
  NoJobIsStranded
PROPERTIES
  KeepsQueue
