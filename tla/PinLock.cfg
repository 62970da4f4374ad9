\* Two requests at a time on two devices; two wrong PINs lock for three ticks.
SPECIFICATION Spec
CONSTANTS
  d1 = d1
  d2 = d2
  c1 = c1
  Requests = {r1, r2}
  Devices <- MCDevices
  ChildPins <- MCChildPins
  Parent = Parent
  Limit = 2
  LockTime = 3
  Lifetime = 1
  MaxDelay = 1
  MaxTime = 4
SYMMETRY MCSymmetry
INVARIANTS
  PinInv
  WrongPinsAreFew
  ParentModeIsEarned
PROPERTIES
  NoUnlockWhileLocked
