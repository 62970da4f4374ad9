\* Three words, four commands: in the continuous mode two rounds, the second one
\* with any part of the first; item by item the first two words.
SPECIFICATION Spec
CONSTANTS
  Items = {1, 2, 3}
  CommandIds = {1, 2, 3, 4}
  PlayLists <- MCAscendingPlayLists
  MarkLists <- MCAscendingMarkLists
  TaskLists <- MCOneTaskList
  MaxSubmissions = 0
ACTION_CONSTRAINT FreshIdsInOrder
CHECK_DEADLOCK FALSE
INVARIANTS
  RoundHistory
