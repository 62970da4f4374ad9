\* Two words, six commands: a second round in either mode, all starts, both
\* endings, and a todo that can be rejected and submitted again.
SPECIFICATION Spec
CONSTANTS
  Items = {i1, i2}
  CommandIds = {1, 2, 3, 4, 5, 6}
  PlayLists <- MCPlayLists
  MarkLists <- MCMarkLists
  TaskLists <- MCTaskLists
  MaxSubmissions = 2
ACTION_CONSTRAINT FreshIdsInOrder
CHECK_DEADLOCK FALSE
INVARIANTS
  SessionInv
  MarksAreAccepted
  RoundHistory
  AnsweredAfterHeard
PROPERTIES
  ClosedSessionIsFrozen
  WorkNeedsANewCommand
  KeepsPromise
  CommandsFormALog
