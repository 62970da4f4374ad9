\* One board of guardians and one of children whose presses can outlive the wait for
\* them; two workers and two pages on one picture of at most two lines.
SPECIFICATION MCSpec
\* A todo that is done, a draft that is decided and a form that is left stay so.
CHECK_DEADLOCK FALSE
CONSTANTS
  Parents = {p1}
  Children = {c1}
  Requests = {r1, r2}
  Files = {f1, f2}
  None = None
  Clock = {0, 1}
  MaxEdits = 2
  MaxNumber = 2
  DateOf <- MCDateOf
  Workers = {f1, f2}
  Pages = {g1, g2}
  Confirms = {r1, r2}
  Texts = {a1, a2}
  Answers = {a1, a2}
  NoCard = NoCard
  MaxLines = 2
  MaxAttempts = 3
  MaxGeneration = 4
SYMMETRY MCSymmetry
INVARIANTS
  HomeworkInv
  DraftIsOneReading
  ConfirmedOnce
  MicrophoneIsReleased
PROPERTIES
  NoLostEdit
  JudgedAsSeen
