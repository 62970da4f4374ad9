\* Two pages of one child, two words, two rounds, and one thing that goes wrong.
\* A completed session leaves nothing to do.
SPECIFICATION MCSpec
CONSTANTS
  Items <- MCItems
  Words <- MCWords
  PlayLists <- MCPlayLists
  MarkLists <- MCMarkLists
  Pages = {p1, p2}
  None = None
  MaxRounds = 2
  MaxDetours = 1
CHECK_DEADLOCK FALSE
INVARIANTS
  PageInv
  NoDeadEnd
  MarksMadeHere
PROPERTIES
  SessionEnds
