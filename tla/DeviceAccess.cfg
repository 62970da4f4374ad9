\* Two requests at a time on two devices and two children, with two sessions.
SPECIFICATION Spec
CONSTANTS
  Requests = {r1, r2}
  Devices = {1, 2}
  Children = {c1, c2}
  Codes = {k1, k2}
  Tokens = {t1, t2}
SYMMETRY MCSymmetry
INVARIANTS
  AccessInv
  OneLiveSession
  ActorIsEntitled
  NoRequestIsStuck
PROPERTY RunsAsIfAlone
