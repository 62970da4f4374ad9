\* Two cards in two sections, two commands.
SPECIFICATION Spec
CHECK_DEADLOCK FALSE
CONSTANTS
  a = a
  b = b
  s1 = s1
  s2 = s2
  Requests = {r1, r2}
  Commands = {k1, k2}
  Cards = {a, b}
  Sections = {s1, s2}
  SectionOf <- MCSectionOf
  MaxReviewCards = 1
SYMMETRY MCSymmetry
INVARIANTS
  HandedOutOnce
  SectionStaysNew
PROPERTIES
  HandsCardsOut
