--------------------------- MODULE DictationSession ---------------------------
(***************************************************************************)
(* One dictation task, from the moment it is handed out to its reward:     *)
(* the child's devices start the session, report playback and submit       *)
(* marks, a guardian removes words or cancels the task, and the todo entry *)
(* that belongs to the task is submitted and reviewed.                     *)
(*                                                                         *)
(* Source: src/modules/dictation/session-service.ts, task-management.ts,   *)
(* src/modules/review/service.ts and src/modules/todos/service.ts.         *)
(*                                                                         *)
(* Each action is one database transaction.  Start, playback, marks,       *)
(* cancellation and removal all lock the task row before anything they     *)
(* decide on, and keep it to their commit, so they happen one at a time;   *)
(* submission and review lock the todo row, which cancellation and removal *)
(* lock too.  A transaction that throws leaves no trace: its action is     *)
(* disabled.                                                               *)
(*                                                                         *)
(* Several devices of the child may be open at once, requests can be       *)
(* delayed and repeated.  So a command that arrives can name any version   *)
(* and round that some device has been shown (up to the current ones), and *)
(* can carry any list; only a new command id makes it a new command.  An   *)
(* item stands for its learning card too: a task has one item per card.    *)
(***************************************************************************)
EXTENDS SessionMachine, FiniteSets, SequencesExt

CONSTANTS
  CommandIds,     \* bounds the commands that are accepted
  TaskLists,      \* the item lists the task can be handed out with
  MaxSubmissions  \* bounds the child's submissions of the todo

ASSUME TaskListsAssumption ==
  TaskLists \subseteq {s \in Seq(Items) : s # <<>> /\ IsInjective(s)}

ASSUME MaxSubmissionsAssumption == MaxSubmissions \in Nat

VARIABLES
  taskStatus,       \* learning_tasks.status
  taskItems,        \* the task's items in position order
  allowReplay,      \* learning_tasks.allow_manual_replay
  kind,             \* the kind each item was handed out as
  audio,            \* the items whose speech is an active media file
  sessionStatus,    \* dictation_sessions.status; "none" before the start
  version,          \* dictation_sessions.version
  firstCorrect,     \* dictation_session_items.first_correct
  finalCorrect,     \* dictation_session_items.final_correct
  replayCount,      \* dictation_session_items.replay_count
  rounds,           \* dictation_rounds, by round number
  playbackEvents,   \* dictation_playback_events
  answers,          \* dictation_answer_events of each item, in order
  commands,         \* dictation_commands, by command id
  completionEvent,  \* a dictation_completion_events row exists
  remembered,       \* the cards with a child_card_states row
  reviews,          \* review_events of each card in this task, in order
  todoStatus,       \* todo_tasks.status
  submissionNumber, \* todo_tasks.submission_number
  rewards           \* todo_rewards rows of the todo

taskVars    == <<taskStatus, taskItems, allowReplay, kind>>
sessionVars == <<sessionStatus, version, firstCorrect, finalCorrect,
                 replayCount, rounds, playbackEvents, answers, commands,
                 completionEvent>>
reviewVars  == <<remembered, reviews>>
todoVars    == <<todoStatus, submissionNumber, rewards>>
\* What is recorded of the child's work.
recordVars == <<machineVars, version, firstCorrect, finalCorrect, replayCount,
                rounds, playbackEvents, answers, commands, completionEvent,
                reviewVars>>
vars == <<machineVars, taskVars, audio, sessionVars, reviewVars, todoVars>>

Kinds == {"new", "due_review", "manual_review"}

NoCommands == [id \in {} |-> {}]

-----------------------------------------------------------------------------
(***************************************************************************)
(* The task as it is handed out: an item is new exactly when the child has *)
(* no memory state for its card.                                           *)
(***************************************************************************)

Init ==
  /\ mode \in Modes
  /\ NotCreated
  /\ taskStatus = "active"
  /\ taskItems \in TaskLists
  /\ allowReplay \in BOOLEAN
  /\ remembered \in SUBSET Items
  /\ kind \in {k \in [Items -> Kinds] :
                 \A i \in Items : k[i] = "new" <=> i \notin remembered}
  /\ audio = {}
  /\ sessionStatus = "none"
  /\ version = 0
  /\ firstCorrect = Unmarked
  /\ finalCorrect = [i \in Items |-> FALSE]
  /\ replayCount = [i \in Items |-> 0]
  /\ rounds = <<>>
  /\ playbackEvents = {}
  /\ answers = [i \in Items |-> <<>>]
  /\ commands = NoCommands
  /\ completionEvent = FALSE
  /\ reviews = [i \in Items |-> <<>>]
  /\ todoStatus = "open"
  /\ submissionNumber = 0
  /\ rewards = 0

-----------------------------------------------------------------------------
(***************************************************************************)
(* Start.  The worker makes the speech of an item available at any time,   *)
(* and media files can be withdrawn again.                                 *)
(***************************************************************************)

AudioChanges(i) ==
  /\ sessionStatus = "none"
  /\ audio' = IF i \in audio THEN audio \ {i} ELSE audio \cup {i}
  /\ UNCHANGED <<machineVars, taskVars, sessionVars, reviewVars, todoVars>>

\* The transaction returns the session that exists, if it is active, without
\* a change; otherwise it creates the one session of the task.
StartSession ==
  /\ taskStatus = "active"
  /\ sessionStatus = "none"
  /\ Range(taskItems) \subseteq audio
  /\ CreateSessionState(taskItems)
  /\ sessionStatus' = "active"
  /\ rounds' = <<[items |-> taskItems, done |-> FALSE]>>
  /\ UNCHANGED <<version, firstCorrect, finalCorrect, replayCount,
                 playbackEvents, answers, commands, completionEvent>>
  /\ UNCHANGED <<taskVars, audio, reviewVars, todoVars>>

-----------------------------------------------------------------------------
(***************************************************************************)
(* Commands.  cmd is the parsed request, id included: what is fingerprinted*)
(* and what identifies the request when it is repeated.                    *)
(***************************************************************************)

\* The stored result answers a repeated command, whatever happened since; the
\* same id with another request is a conflict.  Neither changes the session.
IsNewCommand(cmd) == cmd.id \notin DOMAIN commands

EnsureTaskActive == taskStatus = "active"

\* Fault: the version the device has seen is not compared.
FaultyEnsureMutableVersion(cmd) ==
  sessionStatus = "active" /\ roundNumber = cmd.round

EnsureMutableVersion(cmd) ==
  /\ sessionStatus = "active"
  /\ version = cmd.expectedVersion
  /\ roundNumber = cmd.round

\* Fault: a command is applied to whatever has become of the session.
LateMayRecord(cmd) == IsNewCommand(cmd)

\* Fault: a repeated command is applied again.
RepeatingMayRecord(cmd) == EnsureTaskActive /\ EnsureMutableVersion(cmd)

MayRecord(cmd) ==
  /\ IsNewCommand(cmd)
  /\ EnsureTaskActive
  /\ EnsureMutableVersion(cmd)

StoreCommand(cmd, resultingVersion) ==
  commands' = [id \in DOMAIN commands \cup {cmd.id} |->
                 IF id = cmd.id
                   THEN [fingerprint |-> cmd, version |-> resultingVersion]
                   ELSE commands[id]]

\* Fault: only a replay is counted.
FaultyCountPlayback(list) ==
  replayCount' = [i \in Items |->
    IF i \in Range(list) /\ i \in Range(played) THEN replayCount[i] + 1
                                                ELSE replayCount[i]]

CountPlayback(list) ==
  replayCount' = [i \in Items |->
    IF i \in Range(list) THEN replayCount[i] + 1 ELSE replayCount[i]]

RecordPlayback(cmd) ==
  /\ MayRecord(cmd)
  /\ mode = "continuous_batch" /\ ReplaysCurrent(cmd.list) => allowReplay
  /\ ReducePlayback(cmd.round, cmd.list, cmd.finished)
  /\ playbackEvents' = playbackEvents \cup
       {[command |-> cmd.id, round |-> cmd.round, item |-> i] :
          i \in Range(cmd.list)}
  /\ CountPlayback(cmd.list)
  /\ version' = version + 1
  /\ StoreCommand(cmd, version + 1)
  /\ UNCHANGED <<sessionStatus, firstCorrect, finalCorrect, rounds, answers,
                 completionEvent>>
  /\ UNCHANGED <<taskVars, audio, reviewVars, todoVars>>

-----------------------------------------------------------------------------
(***************************************************************************)
(* Marks, and what they tell the review service.                           *)
(***************************************************************************)

\* Fault: whatever follows a first result counts as its correction.
FaultyRoleOf(i, result) ==
  IF firstCorrect[i] = "unmarked" THEN "first_pass" ELSE "same_session_relearning"

RoleOf(i, result) ==
  IF firstCorrect[i] = "unmarked" THEN "first_pass"
  ELSE IF result = "correct" /\ ~finalCorrect[i] THEN "same_session_relearning"
  ELSE "continued_error"

FirstEvents == {"new_first", "scheduled_first", "manual_first"}

FirstEventType(i) ==
  CASE kind[i] = "new"           -> "new_first"
    [] kind[i] = "manual_review" -> "manual_first"
    [] kind[i] = "due_review"    -> "scheduled_first"

\* A first result of a new card needs a card without a memory state, any
\* other first result needs one that has it.
AcceptsFirstResult(i) == kind[i] = "new" <=> i \notin remembered

\* A correction needs a wrong first result that no correction used before.
AcceptsRelearning(i) ==
  /\ i \in remembered
  /\ \E k \in DOMAIN reviews[i] : /\ reviews[i][k].type \in FirstEvents
                                  /\ reviews[i][k].result = "wrong"
  /\ \A k \in DOMAIN reviews[i] :
       reviews[i][k].type # "same_session_relearning"

\* The answer row is refused for an item that was never played.
AcceptsAnswer(i, result) ==
  /\ replayCount[i] >= 1
  /\ RoleOf(i, result) = "first_pass" => AcceptsFirstResult(i)
  /\ RoleOf(i, result) = "same_session_relearning" => AcceptsRelearning(i)

\* The review event that an answer writes; a continued error writes none.
ReviewOf(i, result) ==
  CASE RoleOf(i, result) = "first_pass" ->
         <<[type |-> FirstEventType(i), result |-> result]>>
    [] RoleOf(i, result) = "same_session_relearning" ->
         <<[type |-> "same_session_relearning", result |-> result]>>
    [] RoleOf(i, result) = "continued_error" -> <<>>

RecordAnswers(cmd) ==
  LET S == Range(MarkedItems(cmd.marks))
      R(i) == ResultOf(cmd.marks, i)
  IN
  /\ \A i \in S : AcceptsAnswer(i, R(i))
  /\ answers' = [i \in Items |->
       IF i \in S
         THEN Append(answers[i], [role |-> RoleOf(i, R(i)), result |-> R(i),
                                  round |-> cmd.round])
         ELSE answers[i]]
  /\ reviews' = [i \in Items |->
       IF i \in S THEN reviews[i] \o ReviewOf(i, R(i)) ELSE reviews[i]]
  /\ remembered' = remembered \cup S
  /\ firstCorrect' = [i \in Items |->
       IF i \in S /\ firstCorrect[i] = "unmarked" THEN R(i) ELSE firstCorrect[i]]
  /\ finalCorrect' = [i \in Items |->
       IF i \in S THEN R(i) = "correct" ELSE finalCorrect[i]]

\* Fault: the round that ends stays open.
FaultyRecordRounds ==
  rounds' = IF phase' # "completed" /\ roundNumber' # roundNumber
              THEN Append(rounds, [items |-> round', done |-> FALSE])
              ELSE rounds

\* The round that ends is closed, and the one that follows is opened.
RecordRounds ==
  LET closed == [rounds EXCEPT ![roundNumber].done = TRUE]
  IN  rounds' = IF phase' = "completed" THEN closed
                ELSE IF roundNumber' # roundNumber
                     THEN Append(closed, [items |-> round', done |-> FALSE])
                     ELSE rounds

\* The last right answer completes the session and, with it, the task.
RecordCompletion ==
  \/ /\ phase' = "completed"
     /\ ~completionEvent
     /\ completionEvent' = TRUE
     /\ sessionStatus' = "completed"
     /\ taskStatus' = IF taskStatus = "active" THEN "completed" ELSE taskStatus
  \/ /\ phase' # "completed"
     /\ UNCHANGED <<completionEvent, sessionStatus, taskStatus>>

SubmitBatchMarks(cmd) ==
  /\ MayRecord(cmd)
  /\ ReduceMarks(cmd.round, cmd.marks)
  /\ RecordAnswers(cmd)
  /\ RecordRounds
  /\ RecordCompletion
  /\ version' = version + 1
  /\ StoreCommand(cmd, version + 1)
  /\ UNCHANGED <<taskItems, allowReplay, kind, audio, replayCount,
                 playbackEvents, todoVars>>

-----------------------------------------------------------------------------
(***************************************************************************)
(* The guardian's management of the task.                                  *)
(***************************************************************************)

EnsureNoReward == todoStatus # "approved" /\ rewards = 0

\* Also a completed task can be withdrawn as long as it is not rewarded: its
\* session stays completed.
CancelTask ==
  /\ taskStatus # "cancelled"
  /\ EnsureNoReward
  /\ sessionStatus' = IF sessionStatus = "active" THEN "cancelled"
                                                  ELSE sessionStatus
  /\ taskStatus' = "cancelled"
  /\ todoStatus' = "cancelled"
  /\ UNCHANGED <<machineVars, taskItems, allowReplay, kind, audio, version,
                 firstCorrect, finalCorrect, replayCount, rounds,
                 playbackEvents, answers, commands, completionEvent,
                 reviewVars, submissionNumber, rewards>>

\* The remaining items move up; a task without items is cancelled.
RemoveUnstartedTaskItem(i) ==
  /\ taskStatus = "active"
  /\ EnsureNoReward
  /\ sessionStatus = "none"
  /\ \E k \in DOMAIN taskItems : /\ taskItems[k] = i
                                 /\ taskItems' = RemoveAt(taskItems, k)
  /\ \/ /\ taskItems' = <<>>
        /\ taskStatus' = "cancelled"
        /\ todoStatus' = "cancelled"
     \/ /\ taskItems' # <<>>
        /\ UNCHANGED <<taskStatus, todoStatus>>
  /\ UNCHANGED <<machineVars, allowReplay, kind, audio, sessionVars,
                 reviewVars, submissionNumber, rewards>>

-----------------------------------------------------------------------------
(***************************************************************************)
(* The todo entry of the task.  number is the submission the caller saw.   *)
(***************************************************************************)

SubmitTodo(number) ==
  /\ submissionNumber = number
  /\ number < MaxSubmissions
  /\ todoStatus \in {"open", "rejected"}
  /\ taskStatus = "completed"
  /\ todoStatus' = "submitted"
  /\ submissionNumber' = number + 1
  /\ UNCHANGED <<machineVars, taskVars, audio, sessionVars, reviewVars, rewards>>

ReviewTodo(number, decision) ==
  /\ submissionNumber = number
  /\ todoStatus = "submitted"
  /\ todoStatus' = decision
  /\ rewards' = IF decision = "approved" THEN rewards + 1 ELSE rewards
  /\ UNCHANGED <<machineVars, taskVars, audio, sessionVars, reviewVars,
                 submissionNumber>>

-----------------------------------------------------------------------------
PlaybackCommands ==
  [id : CommandIds, expectedVersion : 0..version, round : 1..roundNumber,
   list : PlayLists, finished : BOOLEAN]

GradingCommands ==
  [id : CommandIds, expectedVersion : 0..version, round : 1..roundNumber,
   marks : MarkLists]

Next ==
  \/ \E i \in Items : AudioChanges(i)
  \/ StartSession
  \/ \E cmd \in PlaybackCommands : RecordPlayback(cmd)
  \/ \E cmd \in GradingCommands : SubmitBatchMarks(cmd)
  \/ CancelTask
  \/ \E i \in Items : RemoveUnstartedTaskItem(i)
  \/ \E number \in 0..MaxSubmissions : SubmitTodo(number)
  \/ \E number \in 0..MaxSubmissions, decision \in {"approved", "rejected"} :
       ReviewTodo(number, decision)

Spec == Init /\ [][Next]_vars

-----------------------------------------------------------------------------
(***************************************************************************)
(* Invariants.                                                             *)
(***************************************************************************)

PlaybackCommand ==
  [id : CommandIds, expectedVersion : Nat, round : Nat, list : PlayLists,
   finished : BOOLEAN]

GradingCommand ==
  [id : CommandIds, expectedVersion : Nat, round : Nat, marks : MarkLists]

Answer ==
  [role : {"first_pass", "continued_error", "same_session_relearning"},
   result : Results, round : Nat]

Review ==
  [type : FirstEvents \cup {"same_session_relearning"}, result : Results]

\* Every column holds a value its table allows.
TypeOK ==
  /\ MachineTypeOK
  /\ taskStatus \in {"active", "completed", "cancelled"}
  /\ taskItems \in Seq(Items)
  /\ allowReplay \in BOOLEAN
  /\ kind \in [Items -> Kinds]
  /\ audio \subseteq Items
  /\ sessionStatus \in {"none", "active", "completed", "cancelled"}
  /\ version \in Nat
  /\ firstCorrect \in [Items -> Results \cup {"unmarked"}]
  /\ finalCorrect \in [Items -> BOOLEAN]
  /\ replayCount \in [Items -> Nat]
  /\ rounds \in Seq([items : Seq(Items), done : BOOLEAN])
  /\ playbackEvents \subseteq [command : CommandIds, round : Nat, item : Items]
  /\ answers \in [Items -> Seq(Answer)]
  /\ DOMAIN commands \subseteq CommandIds
  /\ \A id \in DOMAIN commands :
       commands[id] \in [fingerprint : PlaybackCommand \cup GradingCommand,
                         version : Nat]
  /\ completionEvent \in BOOLEAN
  /\ remembered \subseteq Items
  /\ reviews \in [Items -> Seq(Review)]
  /\ todoStatus \in {"open", "submitted", "rejected", "approved", "cancelled"}
  /\ submissionNumber \in 0..MaxSubmissions
  /\ rewards \in Nat

\* The lifecycle columns agree: a session is completed exactly when its machine
\* is and the completion event is written, a closed session never leaves its
\* task active, and only a completed session makes the task completed.
StatusAgreement ==
  /\ (sessionStatus = "none") = (phase = "none")
  /\ (sessionStatus = "completed") = (phase = "completed")
  /\ (sessionStatus = "completed") = completionEvent
  /\ taskStatus = "active" => sessionStatus \in {"none", "active"}
  /\ taskStatus = "completed" => sessionStatus = "completed"
  /\ sessionStatus = "active" => taskStatus = "active"

\* The marks are kept twice, in the session row for the machine and in the item
\* rows for the review service and the reports; both tell the same.
RowsAgreeWithMarks ==
  \A i \in Items : /\ firstCorrect[i] = first[i]
                   /\ finalCorrect[i] = (latest[i] = "correct")

\* The review history of an item is its first result, and one correction exactly
\* when that first result was wrong and the item has since become right.
ReviewsFollowMarks ==
  \A i \in Items :
    /\ first[i] = "unmarked" => reviews[i] = <<>>
    /\ first[i] # "unmarked" =>
         /\ Len(reviews[i]) =
              IF first[i] = "wrong" /\ latest[i] = "correct" THEN 2 ELSE 1
         /\ reviews[i][1] = [type |-> FirstEventType(i), result |-> first[i]]
         /\ Len(reviews[i]) = 2 =>
              reviews[i][2] = [type |-> "same_session_relearning", result |-> "correct"]

\* While grading is open no mark the child can give is refused by the review
\* service or by the answer table: the kind the item was handed out as still
\* fits the card's memory state, a correction finds its unused wrong first
\* result, and the item was played.  Otherwise the session could not go on.
MarksAreAccepted ==
  sessionStatus = "active" /\ phase = "grading" =>
    \A i \in Due, result \in Results :
      (mode = "item_by_item" => i = round[Len(marked) + 1]) =>
        AcceptsAnswer(i, result)

\* What the rows say of an item fits what the session knows of it: a played item
\* is counted as played, a card with a first result is remembered, and a card
\* without one is still as new, or as known, as when the task was handed out.
ItemRowsFit ==
  \A i \in Items : /\ i \in Range(played) => replayCount[i] >= 1
                   /\ first[i] # "unmarked" => i \in remembered
                   /\ first[i] = "unmarked" => AcceptsFirstResult(i)

AnswersIn(i, r) == {k \in DOMAIN answers[i] : answers[i][k].round = r}

\* What a round asked and marked, and the part of it that was answered wrong.
Answered(r) ==
  {i \in Range(rounds[r].items) : r = roundNumber => i \in Range(marked)}

WrongIn(r) ==
  {i \in Range(rounds[r].items) :
     \E k \in AnswersIn(i, r) : answers[i][k].result = "wrong"}

\* next asks nothing twice, and asks what it takes from list in the list's order.
InOrderOf(next, list) ==
  /\ IsInjective(next)
  /\ \A j, k \in DOMAIN next :
       j < k => \E p, q \in DOMAIN list :
                  p < q /\ next[j] = list[p] /\ next[k] = list[q]

\* The tables of rounds and answers tell one story: an item has one answer in
\* each round that asked and marked it and none elsewhere; the next round asks
\* exactly the items answered wrong, in the same order; every round but the
\* current one is closed, and the current one is closed by completion only.
RoundHistory ==
  /\ Len(rounds) = roundNumber
  /\ \A r \in DOMAIN rounds :
       /\ rounds[r].done = (r < roundNumber \/ phase = "completed")
       /\ r = roundNumber => rounds[r].items = round
       /\ \A i \in Items :
            Cardinality(AnswersIn(i, r)) = IF i \in Answered(r) THEN 1 ELSE 0
       /\ r > 1 => /\ Range(rounds[r].items) = WrongIn(r - 1)
                   /\ InOrderOf(rounds[r].items, rounds[r - 1].items)

\* An answer counts only for an item that was played in the same round.
AnsweredAfterHeard ==
  \A i \in Items : \A k \in DOMAIN answers[i] :
    \E e \in playbackEvents : e.item = i /\ e.round = answers[i][k].round

\* A reward stands for a finished dictation: it exists once, for an approved
\* todo of a completed task, and no task is both rewarded and withdrawn.
RewardAgreement ==
  /\ rewards = IF todoStatus = "approved" THEN 1 ELSE 0
  /\ todoStatus \in {"submitted", "rejected", "approved"} => taskStatus = "completed"
  /\ (todoStatus = "cancelled") = (taskStatus = "cancelled")

\* The accepted commands are numbered by the versions they led to, without a gap
\* and without two of one number, and each expected the version before its own.
CommandsNumbered ==
  /\ \A id \in DOMAIN commands :
       /\ commands[id].version \in 1..version
       /\ commands[id].fingerprint.id = id
       /\ commands[id].fingerprint.expectedVersion = commands[id].version - 1
  /\ \A a, b \in DOMAIN commands :
       commands[a].version = commands[b].version => a = b
  /\ \A n \in 1..version : \E id \in DOMAIN commands : commands[id].version = n
  /\ sessionStatus = "none" => version = 0

\* The inductive invariant of the proofs: every action keeps it, whatever the
\* items, the lists and the number of commands.
SessionInv ==
  /\ TypeOK
  /\ MachineInv
  /\ StatusAgreement
  /\ RowsAgreeWithMarks
  /\ ReviewsFollowMarks
  /\ ItemRowsFit
  /\ RewardAgreement

-----------------------------------------------------------------------------
(***************************************************************************)
(* Action properties.                                                      *)
(***************************************************************************)

\* Once the session is closed, by completion or cancellation, a command that
\* arrives late changes nothing that was recorded.
ClosedSessionIsFrozen ==
  [][(sessionStatus \in {"completed", "cancelled"}) => UNCHANGED recordVars]_vars

\* After the start whatever is recorded is recorded under exactly one new
\* command, which moves the version on by one: a repeated command records
\* nothing twice, and no management step touches the child's work.
WorkNeedsANewCommand ==
  [][recordVars' # recordVars /\ sessionStatus # "none" =>
       /\ version' = version + 1
       /\ \E id \in CommandIds \ DOMAIN commands :
            /\ DOMAIN commands' = DOMAIN commands \cup {id}
            /\ commands'[id].version = version']_vars

-----------------------------------------------------------------------------
(***************************************************************************)
(* The abstract specifications this one implements.                        *)
(***************************************************************************)

Promise == INSTANCE LearningPromise WITH
  Words       <- Items,
  status      <- sessionStatus,
  asked       <- Range(itemIds),
  firstResult <- first,
  known       <- {i \in Range(itemIds) : latest[i] = "correct"}

\* Behind rounds, modes and both ways of playing, the session keeps the plain
\* promise of LearningPromise.
KeepsPromise == Promise!Spec

\* The command that moved the version from n - 1 to n.
CommandAt(n) ==
  commands[CHOOSE id \in DOMAIN commands : commands[id].version = n].fingerprint

AcceptedCommands == [n \in 1..version |-> CommandAt(n)]

Log == INSTANCE CommandLog WITH
  Commands <- PlaybackCommand \cup GradingCommand,
  status   <- CASE sessionStatus = "none"   -> "none"
                [] sessionStatus = "active" -> "open"
                [] OTHER                    -> "closed",
  log      <- AcceptedCommands

\* The table of commands, read in the order of the versions, is a log that every
\* device can rely on.
CommandsFormALog == Log!Spec

=============================================================================
