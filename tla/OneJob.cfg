\* One word, asked for by two builders and handled by two workers, with three
\* attempts, a lease longer than the first delay, and time for three leases.
SPECIFICATION Spec
CONSTANTS
  Keys = {k1}
  Workers = {w1, w2}
  Builders = {b1, b2}
  MaxAttempts = 3
  Lease = 2
  RetryDelay <- MCRetryDelay
  MaxTime = 6
INVARIANTS
  QueueInv
  OneOwner
  SucceededWithSpeech
