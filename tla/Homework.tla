------------------------------- MODULE Homework -------------------------------
(***************************************************************************)
(* A todo that guardians wrote by hand: they edit, withdraw and judge it   *)
(* on their boards while the child submits evidence for it, with answers   *)
(* that are lost, presses that are repeated, a server that crashes and a   *)
(* disk that fails.                                                        *)
(*                                                                         *)
(* Source: src/modules/todos/service.ts, http.ts and attachments.ts, and   *)
(* src/components/todos/todo-board.tsx.  A transaction of the service      *)
(* locks the row of the todo first and ends in one step.  A board asks     *)
(* for one thing at a time, and may give up waiting while the server goes  *)
(* on.  The texts of a todo are counted, so that one names the edit it is  *)
(* from; all the code looks at is the date in it.  The clock is any time   *)
(* at all whenever it is read.                                             *)
(***************************************************************************)
EXTENDS Naturals, FiniteSets

CONSTANTS
  Parents, Children, \* the boards of either
  Requests,          \* those the server handles at the same time
  Files,             \* attachments there can be
  None,
  Clock,             \* what Date.now may say
  MaxEdits,          \* bound: of the edits of one todo
  MaxNumber,         \* bound: of its submissions
  DateOf             \* the date that each text says

Boards == Parents \cup Children

ASSUME HomeworkAssumption ==
  /\ Parents \cap Children = {}
  /\ None \notin Boards \cup Requests \cup Files
  /\ Clock \subseteq Nat /\ MaxEdits \in Nat /\ MaxNumber \in Nat
  /\ DOMAIN DateOf = 0..MaxEdits

VARIABLES
  todo,        \* the row of todo_tasks
  submissions, \* todo_submissions
  reviews,     \* todo_reviews
  rewards,     \* todo_rewards: the submissions that earned one
  files,       \* the attachments on the disk
  view,        \* the todo as each board shows it
  editing,     \* what the edit form of a guardian was opened on
  awaits,      \* the request whose answer each board awaits
  req,         \* the requests on the server
  unheard,     \* history: attachments removed though their submission is committed
  orphans      \* history: attachments that a crash, a write that broke off or a
               \* failed removal left behind

rowVars == <<todo, submissions, reviews, rewards>>
boardVars == <<view, editing, awaits>>
homeworkVars == <<rowVars, files, boardVars, req, unheard, orphans>>

Todo == [status : {"open", "submitted", "approved", "rejected", "cancelled"},
         number : Nat, text : 0..MaxEdits, updatedAt : Nat]

Quiet == [step |-> "none"]

\* What a board needs of the row: only an open one can be edited.
Shown ==
  [status |-> todo.status, number |-> todo.number, date |-> DateOf[todo.text],
   form |-> IF todo.status = "open" THEN [at |-> todo.updatedAt, seen |-> todo.text]
                                    ELSE None]

HomeworkInit ==
  /\ todo = [status |-> "open", number |-> 0, text |-> 0, updatedAt |-> 0]
  /\ submissions = {} /\ reviews = {} /\ rewards = {} /\ files = {}
  /\ view = [b \in Boards |-> Shown]
  /\ editing = [p \in Parents |-> None]
  /\ awaits = [b \in Boards |-> None]
  /\ req = [r \in Requests |-> Quiet]
  /\ unheard = {} /\ orphans = {}

-----------------------------------------------------------------------------
(***************************************************************************)
(* The boards.                                                             *)
(***************************************************************************)

\* The form disappears with the open row, which does not come back.
Show(b, closes) ==
  /\ view' = [view EXCEPT ![b] = Shown]
  /\ editing' = [p \in Parents |->
                   IF p = b /\ (closes \/ todo.status # "open") THEN None ELSE editing[p]]

\* Every five seconds, and when an answer comes.  An answer is dropped when a newer
\* refresh began, so the last one to be read is the one that stays.
Refresh(b) ==
  /\ Show(b, FALSE)
  /\ UNCHANGED <<rowVars, files, awaits, req, unheard, orphans>>

Send(b, r, record) ==
  /\ awaits[b] = None
  /\ req[r] = Quiet
  /\ req' = [req EXCEPT ![r] = record]
  /\ awaits' = [awaits EXCEPT ![b] = r]
  /\ UNCHANGED <<rowVars, files, view, editing, unheard, orphans>>

\* The form keeps the updatedAt of the row it was opened on, while the row below it
\* is refreshed.
OpenEdit(p) ==
  /\ awaits[p] = None
  /\ view[p].form # None
  /\ editing' = [editing EXCEPT ![p] = view[p].form]
  /\ UNCHANGED <<rowVars, files, view, awaits, req, unheard, orphans>>

CloseEdit(p) ==
  /\ editing[p] # None
  /\ editing' = [editing EXCEPT ![p] = None]
  /\ UNCHANGED <<rowVars, files, view, awaits, req, unheard, orphans>>

PressSave(p, r) ==
  /\ editing[p] # None
  /\ Send(p, r, [step |-> "update", form |-> editing[p]])

PressCancel(p, r) ==
  /\ view[p].status \in {"open", "submitted", "rejected"}
  /\ Send(p, r, [step |-> "cancel"])

PressReview(p, r, decision) ==
  /\ view[p].status = "submitted"
  /\ Send(p, r, [step |-> "review", number |-> view[p].number, decision |-> decision])

\* With a file or without.
PressSubmit(c, r, withFile) ==
  /\ view[c].status \in {"open", "rejected"}
  /\ view[c].number < MaxNumber
  /\ Send(c, r, [step |-> "submit", number |-> view[c].number,
                 date |-> view[c].date, withFile |-> withFile])

\* A confirmed answer refreshes the board and closes the form; a refusal is shown.
Hear(b) ==
  /\ awaits[b] # None
  /\ req[awaits[b]].step \in {"ok", "refused"}
  /\ IF req[awaits[b]].step = "ok"
       THEN Show(b, TRUE)
       ELSE UNCHANGED <<view, editing>>
  /\ req' = [req EXCEPT ![awaits[b]] = Quiet]
  /\ awaits' = [awaits EXCEPT ![b] = None]
  /\ UNCHANGED <<rowVars, files, unheard, orphans>>

\* The connection breaks before the answer, or before the refresh that follows it.
GiveUp(b) ==
  /\ awaits[b] # None
  /\ req' = [req EXCEPT ![awaits[b]] = IF @.step \in {"ok", "refused"} THEN Quiet ELSE @]
  /\ awaits' = [awaits EXCEPT ![b] = None]
  /\ UNCHANGED <<rowVars, files, view, editing, unheard, orphans>>

-----------------------------------------------------------------------------
(***************************************************************************)
(* The transactions of a guardian.                                         *)
(***************************************************************************)

\* An answer nobody waits for is gone.
Answer(r, step) ==
  req' = [req EXCEPT ![r] = IF \E b \in Boards : awaits[b] = r THEN [step |-> step]
                                                              ELSE Quiet]

Refuse(r) ==
  /\ Answer(r, "refused")
  /\ UNCHANGED <<rowVars, files, boardVars, unheard, orphans>>

\* Fault: the time of the edit is what the clock says.
FaultyEdited(at, now) == now

\* An edit moves updatedAt even when the clock does not.
Edited(at, now) == IF now > at THEN now ELSE at + 1

UpdateManual(r, now) ==
  /\ req[r].step = "update"
  /\ IF todo.status # "open" \/ todo.updatedAt # req[r].form.at
       THEN Refuse(r)
       ELSE /\ todo.text < MaxEdits
            /\ todo' = [todo EXCEPT !.text = @ + 1, !.updatedAt = Edited(@, now)]
            /\ Answer(r, "ok")
            /\ UNCHANGED <<submissions, reviews, rewards, files, boardVars, unheard, orphans>>

\* Withdrawing twice is no error.  Only edits of an open todo look at updatedAt: it
\* is left alone from here on.
CancelManual(r) ==
  /\ req[r].step = "cancel"
  /\ IF todo.status = "approved" \/ (todo.status # "cancelled" /\ rewards # {})
       THEN Refuse(r)
       ELSE /\ todo' = [todo EXCEPT !.status = "cancelled"]
            /\ Answer(r, "ok")
            /\ UNCHANGED <<submissions, reviews, rewards, files, boardVars, unheard, orphans>>

\* Fault: what was submitted last is judged, whatever the guardian was shown.
FaultyJudged(number) == todo.number

Judged(number) == number

\* The same decision again changes nothing; the tables refuse a second review of a
\* submission and a second reward.
Review(r) ==
  LET number == Judged(req[r].number)
      decision == req[r].decision
  IN  /\ req[r].step = "review"
      /\ IF todo.number # number \/ todo.status \notin {"submitted", decision}
           THEN Refuse(r)
         ELSE IF todo.status = decision
           THEN /\ Answer(r, "ok")
                /\ UNCHANGED <<rowVars, files, boardVars, unheard, orphans>>
         ELSE /\ \A v \in reviews : v.number # number
              /\ decision = "approved" => rewards = {}
              /\ reviews' = reviews \cup {[number |-> number, decision |-> decision]}
              /\ rewards' = IF decision = "approved" THEN rewards \cup {number} ELSE rewards
              /\ todo' = [todo EXCEPT !.status = decision]
              /\ Answer(r, "ok")
              /\ UNCHANGED <<submissions, files, boardVars, unheard, orphans>>

-----------------------------------------------------------------------------
(***************************************************************************)
(* The submission of a child: the todo is looked for on its day before the *)
(* file is written, and again in the transaction, which may refuse it.     *)
(***************************************************************************)

Authorize(r) ==
  /\ req[r].step = "submit"
  /\ IF todo.status = "cancelled" \/ DateOf[todo.text] # req[r].date
       THEN Refuse(r)
       ELSE /\ req' = [req EXCEPT ![r] =
                 [step |-> IF req[r].withFile THEN "saving" ELSE "submitting",
                  number |-> req[r].number, file |-> None]]
            /\ UNCHANGED <<rowVars, files, boardVars, unheard, orphans>>

Held == {req[r].file : r \in {s \in Requests : req[s].step \in {"submitting", "removing"}}}

Linked == {s.file : s \in submissions} \ {None}

\* Ids are random.
NewIds == Files \ (files \cup unheard \cup Linked \cup Held)

SaveAttachment(r, f) ==
  /\ req[r].step = "saving"
  /\ f \in NewIds
  /\ files' = files \cup {f}
  /\ req' = [req EXCEPT ![r] = [step |-> "submitting", number |-> req[r].number, file |-> f]]
  /\ UNCHANGED <<rowVars, boardVars, unheard, orphans>>

\* A file of another type, or a write that breaks off: the request is refused before
\* the part of the handler that gives files back, and what was written stays.
FailToSave(r) ==
  /\ req[r].step = "saving"
  /\ \E left \in {{}} \cup {{f} : f \in NewIds} :
       /\ files' = files \cup left
       /\ orphans' = orphans \cup left
  /\ Answer(r, "refused")
  /\ UNCHANGED <<rowVars, boardVars, unheard>>

Accepts(number) == todo.number = number /\ todo.status \in {"open", "rejected"}

Insert(r) ==
  /\ submissions' = submissions \cup {[number |-> req[r].number + 1, file |-> req[r].file]}
  /\ todo' = [todo EXCEPT !.status = "submitted", !.number = req[r].number + 1]
  /\ UNCHANGED <<reviews, rewards, files, boardVars, orphans>>

\* Fault: the file of a refused submission is kept.
FaultyGivenBack(r) == Answer(r, "refused")

GivenBack(r) ==
  IF req[r].file = None
    THEN Answer(r, "refused")
    ELSE req' = [req EXCEPT ![r] = [step |-> "removing", file |-> req[r].file]]

\* The commit, heard or not; or no commit.
Submit(r) ==
  /\ req[r].step = "submitting"
  /\ \/ /\ Accepts(req[r].number)
        /\ Insert(r)
        /\ Answer(r, "ok")
        /\ UNCHANGED unheard
     \/ /\ Accepts(req[r].number)
        /\ Insert(r)
        /\ GivenBack(r)
        /\ unheard' = unheard \cup ({req[r].file} \ {None})
     \/ /\ GivenBack(r)
        /\ UNCHANGED <<rowVars, files, boardVars, unheard, orphans>>

RemoveAttachment(r) ==
  /\ req[r].step = "removing"
  /\ files' = files \ {req[r].file}
  /\ Answer(r, "refused")
  /\ UNCHANGED <<rowVars, boardVars, unheard, orphans>>

\* That a file could not be removed is passed over.
FailToRemove(r) ==
  /\ req[r].step = "removing"
  /\ orphans' = orphans \cup ({req[r].file} \ Linked)
  /\ Answer(r, "refused")
  /\ UNCHANGED <<rowVars, files, boardVars, unheard>>

\* The server stops: its requests end where they are, and no pass looks for the files
\* they leave in this directory.
Crash ==
  /\ orphans' = orphans \cup (Held \cap (files \ Linked))
  /\ req' = [r \in Requests |-> Quiet]
  /\ awaits' = [b \in Boards |-> None]
  /\ UNCHANGED <<rowVars, files, view, editing, unheard>>

-----------------------------------------------------------------------------

Press(b, r) ==
  \/ b \in Parents /\ PressSave(b, r)
  \/ b \in Parents /\ PressCancel(b, r)
  \/ b \in Parents /\ \E v \in {"approved", "rejected"} : PressReview(b, r, v)
  \/ b \in Children /\ \E withFile \in BOOLEAN : PressSubmit(b, r, withFile)

Handle(r) ==
  \/ \E now \in Clock : UpdateManual(r, now)
  \/ CancelManual(r) \/ Review(r)
  \/ Authorize(r) \/ \E f \in Files : SaveAttachment(r, f)
  \/ FailToSave(r) \/ Submit(r)
  \/ RemoveAttachment(r) \/ FailToRemove(r)

HomeworkNext ==
  \/ \E b \in Boards : Refresh(b) \/ Hear(b) \/ GiveUp(b)
  \/ \E p \in Parents : OpenEdit(p) \/ CloseEdit(p)
  \/ \E b \in Boards, r \in Requests : Press(b, r)
  \/ \E r \in Requests : Handle(r)
  \/ Crash

HomeworkSpec == HomeworkInit /\ [][HomeworkNext]_homeworkVars

-----------------------------------------------------------------------------
(***************************************************************************)
(* Properties.                                                             *)
(***************************************************************************)

\* What the tables allow.
RowsOK ==
  /\ todo \in Todo
  /\ submissions \subseteq [number : 1..todo.number, file : Files \cup {None}]
  /\ reviews \subseteq [number : 1..todo.number, decision : {"approved", "rejected"}]
  /\ files \subseteq Files /\ unheard \subseteq Files /\ orphans \subseteq Files

Decided(n, d) == [number |-> n, decision |-> d] \in reviews

\* The status is the one that the submissions and the reviews tell: each number was
\* submitted once and judged at most once, all but the last were rejected, and the
\* one reward is that of an approved submission.
StatusFits ==
  /\ \A n \in 1..todo.number : Cardinality({s \in submissions : s.number = n}) = 1
  /\ \A n \in 1..todo.number : ~(Decided(n, "approved") /\ Decided(n, "rejected"))
  /\ \A n \in 1..todo.number : n < todo.number => Decided(n, "rejected")
  /\ todo.status = "open" => todo.number = 0
  /\ todo.status = "submitted" =>
       todo.number > 0 /\ \A v \in reviews : v.number # todo.number
  /\ todo.status \in {"approved", "rejected"} => Decided(todo.number, todo.status)
  /\ rewards = {n \in 1..todo.number : Decided(n, "approved")}
  /\ rewards # {} => todo.status = "approved"

\* The evidence of a submission is on the disk, unless the answer to its commit was
\* lost; a file without a submission is in the hands of a request, or is left from a
\* crash, from a write that broke off or from a removal that failed.
FilesFit ==
  /\ Linked \subseteq files \cup unheard
  /\ files \subseteq Linked \cup Held \cup orphans
  /\ \A s1, s2 \in submissions : s1.file = s2.file => s1 = s2 \/ s1.file = None

\* The rows have their types, and StatusFits and FilesFit hold.
HomeworkInv == RowsOK /\ StatusFits /\ FilesFit

\* An edit replaces only the text its guardian saw when the form was opened, however
\* the clock runs: the edit of another guardian is never lost.
NoLostEdit ==
  [][\A r \in Requests :
       req[r].step = "update" /\ todo'.text # todo.text /\ req'[r] # req[r]
         => req[r].form.seen = todo.text]_homeworkVars

\* A review is of the submission that the guardian was shown, and so of its evidence,
\* though the child may have submitted again since.
JudgedAsSeen ==
  [][\A v \in reviews' \ reviews :
       \E r \in Requests : /\ req[r].step = "review" /\ req'[r] # req[r]
                           /\ req[r].number = v.number
                           /\ req[r].decision = v.decision]_homeworkVars
=============================================================================
