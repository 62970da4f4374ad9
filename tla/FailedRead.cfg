\* One page, and one time that the server fails to read the session for its answer.
SPECIFICATION Spec
CONSTANTS
  Items <- MCItems
  Words <- MCWords
  PlayLists <- MCPlayLists
  MarkLists <- MCMarkLists
  Pages = {p1}
  None = None
  MaxRounds = 2
  MaxDetours = 1
CHECK_DEADLOCK FALSE
INVARIANTS
  WithdrawnIsTrue
