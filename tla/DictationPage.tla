----------------------------- MODULE DictationPage -----------------------------
(***************************************************************************)
(* The pages on which a child plays and marks one session, the network     *)
(* between them and the server, and what the server answers.               *)
(*                                                                         *)
(* Source: src/components/dictation/dictation-experience.tsx (the command  *)
(* in flight, repeating it, what an answer does to the page),              *)
(* batch-grader.tsx and src/modules/dictation/client-resume.ts (marks kept *)
(* on the device), the routes under src/app/api/child/dictation and        *)
(* src/modules/dictation/child-view-service.ts (what a page is shown).     *)
(*                                                                         *)
(* The session itself is the reducer of SessionMachine behind the checks   *)
(* of session-service.ts; its tables are in DictationSession.  A page may  *)
(* be closed or loaded again at any time, an answer may be lost or come    *)
(* when nobody waits for it any more, and another page of the child, or a  *)
(* guardian, may act on the session meanwhile.                             *)
(***************************************************************************)
EXTENDS SessionMachine, AudioPlayback, FiniteSets

CONSTANTS
  Words,      \* the list of the session
  MaxRounds,  \* bound: mistakes are made in the rounds before this one
  MaxDetours  \* bound: how often something goes wrong or another way

VARIABLES
  \* the server
  replayAllowed,  \* allowManualReplay of the task
  version,        \* dictation_sessions.version
  stored,         \* dictation_commands: recorded commands and their snapshots
  withdrawn,      \* a guardian cancelled the task
  media,          \* the audio files now active, and whether there are any
  \* the network: requests sent and not answered yet
  requests,
  \* each page, beside its player (None: no view, no command, no marks)
  view,           \* session: the snapshot shown
  retry,          \* retryCommand: the command that is not known to be saved
  pending,        \* an answer is awaited
  retryLocked,    \* the network failed: the command can only be sent again
  revoked,        \* the page says that the task was withdrawn
  grader,         \* the marks selected: the version of the view they were made on
  draft,          \* the marks kept on its device (one page on each), with round and version
  detours

sessionVars == <<machineVars, replayAllowed, version, withdrawn, media>>
serverVars == <<sessionVars, stored>>
commandVars == <<retry, pending, retryLocked, revoked>>
markVars == <<grader, draft>>

pageVars == <<view, commandVars, playerVars, markVars>>
vars == <<serverVars, requests, pageVars, detours>>

ASSUME PageAssumption ==
  /\ Words \in Seq(Items) /\ IsInjective(Words) /\ Words # <<>>
  /\ IsFiniteSet(Pages)
  /\ MaxRounds \in Nat /\ MaxDetours \in Nat

Playback == [type : {"playback"}, id : Pages \X Nat, version : Nat, round : Nat,
             list : Seq(Items), finished : BOOLEAN]
Grading  == [type : {"grading"}, id : Pages \X Nat, version : Nat, round : Nat,
             marks : Seq(Mark)]

\* A view, as far as it matters here: the session it shows, and how its audio is
\* played and addressed.
View == [version : Nat, phase : {"listening", "grading", "completed"},
         roundNumber : Nat, round : Seq(Items), played : Seq(Items),
         marked : Seq(Items), single : BOOLEAN, files : Nat]

ASSUME NoneAssumption == None \notin View \cup Playback \cup Grading

Init ==
  /\ mode \in Modes
  /\ itemIds = Words /\ round = Words
  /\ phase = "listening" /\ roundNumber = 1
  /\ played = <<>> /\ marked = <<>>
  /\ first = Unmarked /\ latest = Unmarked
  /\ replayAllowed \in BOOLEAN
  /\ version = 0
  /\ stored = <<>>
  /\ withdrawn = FALSE
  /\ media = [files |-> 1, active |-> TRUE]
  /\ requests = {}
  /\ view = [p \in Pages |-> None]
  /\ retry = [p \in Pages |-> None]
  /\ pending = [p \in Pages |-> FALSE]
  /\ retryLocked = [p \in Pages |-> FALSE]
  /\ revoked = [p \in Pages |-> FALSE]
  /\ run = [p \in Pages |-> None]
  /\ paused = [p \in Pages |-> FALSE]
  /\ readiness = [p \in Pages |-> "preloading"]
  /\ activeIndex = [p \in Pages |-> 0]
  /\ grader = [p \in Pages |-> None]
  /\ draft = [p \in Pages |-> None]
  /\ detours = 0

\* The commands that are on their way or can be sent again.
Referenced ==
  {r.cmd : r \in requests} \cup {retry[p] : p \in {q \in Pages : retry[q] # None}}

\* dictation_commands keeps every command.  Of a command that nobody can send
\* any more the model forgets the entry, which no lookup can find again.
Store(entries) ==
  stored' = [cmd \in DOMAIN entries \cap Referenced' |-> entries[cmd]]

\* Something goes wrong, or the child takes another way than straight on.
Detour == detours < MaxDetours /\ detours' = detours + 1

-----------------------------------------------------------------------------
(***************************************************************************)
(* What a page is shown.                                                   *)
(***************************************************************************)

Snapshot ==
  [version |-> version, phase |-> phase, roundNumber |-> roundNumber,
   round |-> round, played |-> played, marked |-> marked]

Shown(snapshot) ==
  [version |-> snapshot.version, phase |-> snapshot.phase,
   roundNumber |-> snapshot.roundNumber, round |-> snapshot.round,
   played |-> snapshot.played, marked |-> snapshot.marked,
   single |-> mode = "item_by_item",
   files |-> IF snapshot.phase = "listening" THEN media.files ELSE 0]

\* getSession finds the session of a task that was not withdrawn.  Once the
\* session is completed every answer shows that.
IsFound == ~withdrawn
Current(snapshot) == IF phase = "completed" THEN Snapshot ELSE snapshot
HasAudio(snapshot) == Current(snapshot).phase = "listening" => media.active

\* A new view takes the place of the old one: the player is kept for the same
\* round and files, the marks are those the device kept for this very view.
Recovered(p, v) ==
  /\ draft[p] # None
  /\ draft[p].round = v.roundNumber
  /\ draft[p].version = v.version

\* Fault: marks are recovered by the items they name alone.
FaultyShowMarks(p, v) ==
  /\ grader' = [grader EXCEPT ![p] =
       IF v.phase = "grading" /\ draft[p] # None THEN draft[p].version ELSE None]
  /\ draft' = [draft EXCEPT ![p] = IF v.phase = "grading" THEN @ ELSE None]

ShowMarks(p, v) ==
  /\ grader' = [grader EXCEPT ![p] =
       IF v.phase = "grading" /\ Recovered(p, v) THEN draft[p].version ELSE None]
  /\ draft' = [draft EXCEPT ![p] =
       IF v.phase = "grading" /\ Recovered(p, v) THEN @ ELSE None]

KeepsPlayer(p, v) ==
  /\ view[p] # None
  /\ view[p].phase = "listening" /\ v.phase = "listening"
  /\ view[p].roundNumber = v.roundNumber

\* The answer reaches the loop that waits for it, unless the page has no place
\* for its player any more.
ShowPlayer(p, v, accepted) ==
  IF ~KeepsPlayer(p, v)
    THEN MountPlayer(p, IF v.phase = "listening" THEN Len(v.played) + 1 ELSE 0)
  ELSE IF view[p].files # v.files
    THEN MountPlayer(p, activeIndex[p])
  ELSE IF run[p] # None
    THEN Saved(p, accepted)
    ELSE UNCHANGED playerVars

Show(p, v, accepted) ==
  /\ view' = [view EXCEPT ![p] = v]
  /\ ShowPlayer(p, v, accepted)
  /\ ShowMarks(p, v)

\* The page is opened, or loaded again.  Without audio it does not open.
Open(p) ==
  /\ view[p] = None
  /\ IsFound /\ HasAudio(Snapshot)
  /\ Show(p, Shown(Snapshot), FALSE)
  /\ UNCHANGED <<serverVars, requests, commandVars, detours>>

Abandoned(p) == {IF r.page = p THEN [r EXCEPT !.awaited = FALSE] ELSE r : r \in requests}

\* Everything but the marks on the device is forgotten.  What was sent is under
\* way all the same.
Unload(p) ==
  /\ view' = [view EXCEPT ![p] = None]
  /\ retry' = [retry EXCEPT ![p] = None]
  /\ pending' = [pending EXCEPT ![p] = FALSE]
  /\ retryLocked' = [retryLocked EXCEPT ![p] = FALSE]
  /\ revoked' = [revoked EXCEPT ![p] = FALSE]
  /\ grader' = [grader EXCEPT ![p] = None]
  /\ requests' = Abandoned(p)
  /\ Store(stored)
  /\ DisposePlayer(p)
  /\ UNCHANGED <<sessionVars, draft>>

\* The page is closed, crashes or is loaded again, whatever it is doing.
Reload(p) ==
  /\ view[p] # None
  /\ Detour
  /\ Unload(p)

\* The child goes back to the list of tasks when the page has no way on: the
\* task is said to be withdrawn, or its audio files are no longer there.  With
\* a command not known to be saved the page asks to save it first.
GoBack(p) ==
  /\ view[p] # None
  /\ \/ revoked[p]
     \/ /\ ~pending[p] /\ retry[p] = None
        /\ PlayerState(p) = "failed" /\ view[p].files # media.files
  /\ Unload(p)
  /\ UNCHANGED detours

\* Every few seconds the page asks for the session, and heeds one answer only:
\* that it is not found, which the route also says when it fails to read it.
Poll(p) ==
  /\ view[p] # None
  /\ view[p].phase # "completed"
  /\ ~revoked[p]
  /\ \/ ~IsFound /\ UNCHANGED detours
     \/ Detour
  /\ revoked' = [revoked EXCEPT ![p] = TRUE]
  /\ DisposePlayer(p)
  /\ grader' = [grader EXCEPT ![p] = None]
  /\ UNCHANGED <<serverVars, requests, view, retry, pending, retryLocked, draft>>

-----------------------------------------------------------------------------
(***************************************************************************)
(* Sending a command.                                                      *)
(***************************************************************************)

\* Ids are only compared.  The id of a new command is one that no other command
\* bears.
NewId(p) ==
  LET ids == {cmd.id : cmd \in {c \in Referenced : c.id[1] = p}}
  IN <<p, CHOOSE n \in 1..(Cardinality(ids) + 1) : <<p, n>> \notin ids>>

\* What became of a request at the server, with the snapshot of a command that
\* was recorded.
Result(kind) == [kind |-> kind, snapshot |-> None]

\* A command that is not known to be saved gives way to no other.
Send(p, cmd) ==
  /\ retry[p] \in {None, cmd}
  /\ retry' = [retry EXCEPT ![p] = cmd]
  /\ pending' = [pending EXCEPT ![p] = TRUE]
  /\ requests' = requests \cup
       {[page |-> p, cmd |-> cmd, awaited |-> TRUE, result |-> Result("none")]}
  /\ UNCHANGED <<retryLocked, revoked>>

\* The buttons of the page work: nothing is awaited or to be sent again.
MayAct(p) == view[p] # None /\ ~revoked[p] /\ ~pending[p] /\ ~retryLocked[p]

\* The word heard is reported with the version the loop counts.
ReportPlayback(p) ==
  /\ HearToEnd(p)
  /\ Send(p, [type |-> "playback", id |-> NewId(p), version |-> run[p].version,
              round |-> view[p].roundNumber,
              list |-> <<view[p].round[run[p].index]>>, finished |-> Finished(run[p])])
  /\ UNCHANGED <<serverVars, view, markVars, detours>>

\* The words the grader shows: all of the round, or the next one alone.
Asked(v) == IF v.single THEN <<v.round[Len(v.marked) + 1]>> ELSE v.round

\* Marks are selected word by word and kept on the device at once.
SelectMarks(p) ==
  /\ MayAct(p)
  /\ view[p].phase = "grading"
  /\ grader[p] = None
  /\ grader' = [grader EXCEPT ![p] = view[p].version]
  /\ draft' = [draft EXCEPT ![p] =
       [round |-> view[p].roundNumber, version |-> view[p].version]]
  /\ UNCHANGED <<serverVars, requests, view, commandVars, playerVars, detours>>

SubmitMarks(p, results) ==
  /\ MayAct(p)
  /\ grader[p] # None
  /\ Send(p, [type |-> "grading", id |-> NewId(p), version |-> view[p].version,
              round |-> view[p].roundNumber,
              marks |-> [k \in DOMAIN Asked(view[p]) |->
                           [item |-> Asked(view[p])[k], result |-> results[k]]]])
  /\ UNCHANGED <<serverVars, view, playerVars, markVars>>

\* Every word right; or not, as long as another round is within the bound.
SubmitAllRight(p) ==
  /\ view[p] # None /\ view[p].phase = "grading"
  /\ SubmitMarks(p, [k \in 1..Len(view[p].round) |-> "correct"])
  /\ UNCHANGED detours

SubmitWithMistakes(p) ==
  /\ view[p] # None /\ view[p].phase = "grading"
  /\ view[p].roundNumber < MaxRounds
  /\ \E results \in [1..Len(view[p].round) -> Results] :
       /\ \E k \in DOMAIN Asked(view[p]) : results[k] = "wrong"
       /\ SubmitMarks(p, results)
  /\ UNCHANGED detours

\* The same command under the same id.
RetrySave(p) ==
  /\ retryLocked[p] /\ ~pending[p]
  /\ Send(p, retry[p])
  /\ UNCHANGED <<serverVars, view, playerVars, markVars, detours>>

\* The network fails: the request never arrives, or its answer does not.
LoseAnswer(p, r) ==
  /\ r \in requests /\ r.page = p /\ r.awaited
  /\ Detour
  /\ \/ requests' = requests \ {r}
     \/ requests' = (requests \ {r}) \cup {[r EXCEPT !.awaited = FALSE]}
  /\ pending' = [pending EXCEPT ![p] = FALSE]
  /\ retryLocked' = [retryLocked EXCEPT ![p] = TRUE]
  /\ IF run[p] # None THEN Saved(p, FALSE) ELSE UNCHANGED playerVars
  /\ UNCHANGED <<serverVars, view, retry, revoked, markVars>>

-----------------------------------------------------------------------------
(***************************************************************************)
(* The server: one transaction for a command, then the view it answers     *)
(* with, read apart from it.                                               *)
(***************************************************************************)

MayRecord(cmd) ==
  /\ cmd \notin DOMAIN stored
  /\ ~withdrawn /\ phase # "completed"
  /\ cmd.version = version
  /\ cmd.round = roundNumber

MayReplay(cmd) ==
  mode = "continuous_batch" /\ ReplaysCurrent(cmd.list) => replayAllowed

\* The reducer, which refuses what does not fit the session.
Reduce(cmd) ==
  IF cmd.type = "playback"
    THEN MayReplay(cmd) /\ ReducePlayback(cmd.round, cmd.list, cmd.finished)
    ELSE ReduceMarks(cmd.round, cmd.marks)

\* What the pages send of the version they saw fits it, but for the replay of a
\* word that is not the last one played, or where replays are not allowed.
IsRefused(cmd) ==
  /\ cmd.type = "playback"
  /\ \/ phase # "listening"
     \/ ~MayReplay(cmd)
     \/ ~AdvancesPrefix(cmd.list) /\ (~ReplaysCurrent(cmd.list) \/ mode = "item_by_item")

\* A command that nobody waits for leaves nothing but what it recorded.
Executed(r, result) ==
  requests' = (requests \ {r}) \cup
    (IF r.awaited THEN {[r EXCEPT !.result = result]} ELSE {})

Record(r) ==
  /\ MayRecord(r.cmd)
  /\ Reduce(r.cmd)
  /\ version' = version + 1
  /\ Executed(r, [kind |-> "ok", snapshot |-> Snapshot'])
  /\ Store([cmd \in DOMAIN stored \cup {r.cmd} |->
              IF cmd = r.cmd THEN Snapshot' ELSE stored[cmd]])
  /\ UNCHANGED <<replayAllowed, withdrawn, media>>

\* A command already stored is answered from the store; a new one meets a session
\* that is closed, or further on, or does not take it.
Outcome(cmd) ==
  IF cmd \in DOMAIN stored THEN [kind |-> "ok", snapshot |-> stored[cmd]]
  ELSE IF withdrawn \/ phase = "completed" THEN Result("inactive")
  ELSE IF cmd.version # version \/ cmd.round # roundNumber THEN Result("conflict")
  ELSE Result("rejected")

Execute(r) ==
  /\ r \in requests
  /\ r.result.kind = "none"
  /\ UNCHANGED <<pageVars, detours>>
  /\ \/ Record(r)
     \/ /\ ~MayRecord(r.cmd) \/ IsRefused(r.cmd)
        /\ Executed(r, Outcome(r.cmd))
        /\ Store(stored)
        /\ UNCHANGED sessionVars

\* A statement fails: the transaction is undone, and the route says that the
\* command was rejected.
FailToExecute(r) ==
  /\ r \in requests
  /\ r.result.kind = "none"
  /\ Detour
  /\ UNCHANGED <<sessionVars, pageVars>>
  /\ Executed(r, Result("rejected"))
  /\ Store(stored)

\* The answer of the route to what the transaction said.  Whatever keeps it from
\* showing the session after a conflict is answered as if it were gone.
Answer(result) ==
  CASE result.kind = "ok" ->
         IF ~IsFound THEN "not_found"
         ELSE IF ~HasAudio(result.snapshot) THEN "other"
         ELSE IF result.snapshot.phase # "completed" /\ phase = "completed" THEN "changed"
         ELSE "saved"
    [] result.kind = "inactive" -> IF IsFound THEN "changed" ELSE "not_found"
    [] result.kind = "conflict" ->
         IF IsFound /\ HasAudio(Snapshot) THEN "changed" ELSE "not_found"
    [] result.kind = "rejected" -> "other"

\* The answer when reading the session for it fails: the catch of the command, or
\* the one around the second reading.
Unread(result) == IF result.kind = "ok" THEN "other" ELSE "not_found"

\* Fault: a command stays to be sent again until it is saved.
FaultySettle(p, answer) ==
  /\ retry' = [retry EXCEPT ![p] = IF answer = "saved" THEN None ELSE @]
  /\ pending' = [pending EXCEPT ![p] = FALSE]
  /\ retryLocked' = [retryLocked EXCEPT ![p] = answer # "saved"]
  /\ revoked' = [revoked EXCEPT ![p] = @ \/ answer = "not_found"]

\* Whatever the answer, the page lets go of the command.
Settle(p, answer) ==
  /\ retry' = [retry EXCEPT ![p] = None]
  /\ pending' = [pending EXCEPT ![p] = FALSE]
  /\ retryLocked' = [retryLocked EXCEPT ![p] = FALSE]
  /\ revoked' = [revoked EXCEPT ![p] = @ \/ answer = "not_found"]

\* A session in the answer takes the place of the one shown; a task said to be
\* gone takes the place of everything.
React(p, answer, snapshot) ==
  CASE answer = "saved"     -> Show(p, Shown(Current(snapshot)), TRUE)
    [] answer = "changed"   -> Show(p, Shown(Snapshot), FALSE)
    [] answer = "not_found" -> /\ DisposePlayer(p)
                               /\ grader' = [grader EXCEPT ![p] = None]
                               /\ UNCHANGED <<view, draft>>
    [] answer = "other"     -> /\ IF run[p] # None THEN Saved(p, FALSE)
                                                   ELSE UNCHANGED playerVars
                               /\ UNCHANGED <<view, markVars>>

Hear(r, answer) ==
  /\ r \in requests /\ r.awaited /\ r.result.kind # "none"
  /\ requests' = requests \ {r}
  /\ Settle(r.page, answer)
  /\ React(r.page, answer, r.result.snapshot)
  /\ Store(stored)
  /\ UNCHANGED sessionVars

Receive(r) == Hear(r, Answer(r.result)) /\ UNCHANGED detours

FailToAnswer(r) ==
  /\ r.result.kind # "rejected"
  /\ Hear(r, Unread(r.result))
  /\ Detour

\* Others act on the task and its audio.
CancelTask ==
  /\ ~withdrawn
  /\ Detour
  /\ withdrawn' = TRUE
  /\ UNCHANGED <<machineVars, replayAllowed, version, stored, media, requests, pageVars>>

\* No code that is shipped withdraws speech: it is stored without an end, and the
\* job that removes a medium is never enqueued.  The code is ready for it all the
\* same (AUDIO_NOT_READY), and so is the model: somebody removes a medium by hand,
\* or the database is put back to an earlier state.
LoseAudio ==
  /\ media.active
  /\ Detour
  /\ media' = [media EXCEPT !.active = FALSE]
  /\ UNCHANGED <<machineVars, replayAllowed, version, stored, withdrawn, requests, pageVars>>

GenerateAudio ==
  /\ ~media.active
  /\ media' = [files |-> media.files + 1, active |-> TRUE]
  /\ UNCHANGED <<machineVars, replayAllowed, version, stored, withdrawn, requests, pageVars, detours>>

-----------------------------------------------------------------------------
(***************************************************************************)
(* The player's buttons and its audio.                                     *)
(***************************************************************************)

NoneButPlayer == UNCHANGED <<serverVars, requests, view, commandVars, markVars>>

Listens(p) == view[p] # None /\ ~revoked[p] /\ view[p].phase = "listening"

\* The addresses in the view name the audio files now active.
FilesAreServed(p) == view[p].files = media.files /\ media.active

LoadAudio(p) ==
  /\ Listens(p)
  /\ Prepare(p, IF FilesAreServed(p) THEN "ready" ELSE "failed")
  /\ NoneButPlayer /\ UNCHANGED detours

FailToLoad(p) ==
  /\ Listens(p) /\ Prepare(p, "failed")
  /\ Detour /\ NoneButPlayer

\* To load files again that are not served leads nowhere: another way.
LoadAgain(p) ==
  /\ Listens(p) /\ RetryPreload(p)
  /\ NoneButPlayer
  /\ IF FilesAreServed(p) THEN UNCHANGED detours ELSE Detour

StartButton(p) ==
  /\ Listens(p) /\ MayAct(p)
  /\ StartPlayback(p, view[p])
  /\ NoneButPlayer /\ UNCHANGED detours

ReplayButton(p) ==
  /\ Listens(p) /\ MayAct(p)
  /\ replayAllowed
  /\ Replay(p, view[p])
  /\ Detour /\ NoneButPlayer

PauseButton(p)  == Listens(p) /\ Pause(p) /\ Detour /\ NoneButPlayer
ResumeButton(p) == Listens(p) /\ Resume(p) /\ NoneButPlayer /\ UNCHANGED detours
EndInterval(p)  == Listens(p) /\ PlayNext(p) /\ NoneButPlayer /\ UNCHANGED detours
BreakOff(p)     == Listens(p) /\ FailToPlay(p) /\ Detour /\ NoneButPlayer

-----------------------------------------------------------------------------
\* The way on: what the child does next, with nothing going wrong.
GoOn(p) ==
  \/ Open(p) \/ GoBack(p) \/ LoadAudio(p) \/ LoadAgain(p) \/ StartButton(p)
  \/ ReportPlayback(p) \/ EndInterval(p) \/ ResumeButton(p)
  \/ SelectMarks(p) \/ SubmitAllRight(p) \/ RetrySave(p)

OtherWay(p) ==
  \/ Reload(p) \/ Poll(p) \/ SubmitWithMistakes(p) \/ FailToLoad(p)
  \/ ReplayButton(p) \/ PauseButton(p) \/ BreakOff(p)
  \/ \E r \in requests : LoseAnswer(p, r)

Serve == \E r \in requests : Execute(r) \/ Receive(r)

FailToServe == \E r \in requests : FailToExecute(r) \/ FailToAnswer(r)

Next ==
  \/ \E p \in Pages : GoOn(p) \/ OtherWay(p)
  \/ Serve \/ FailToServe
  \/ CancelTask \/ LoseAudio \/ GenerateAudio

Spec == Init /\ [][Next]_vars

\* The child goes on, requests are served, and audio comes back.
Fairness ==
  /\ \A p \in Pages : WF_vars(GoOn(p))
  /\ WF_vars(Serve)
  /\ WF_vars(GenerateAudio)

FairSpec == Spec /\ Fairness

-----------------------------------------------------------------------------
(***************************************************************************)
(* Properties.                                                             *)
(***************************************************************************)

\* The columns and variables have their types.
PageTypeOK ==
  /\ version \in Nat /\ withdrawn \in BOOLEAN
  /\ \A p \in Pages :
       /\ retry[p] = None \/ retry[p] \in Playback \cup Grading
       /\ run[p] = None \/ run[p] \in Run
       /\ pending[p] => retry[p] # None
       /\ retryLocked[p] => retry[p] # None

\* The loop of the player counts versions and words on its own while the page
\* takes them from the answers: they always agree.
PlayerFollowsPage ==
  \A p \in Pages : run[p] # None =>
    /\ view[p] # None
    /\ view[p].phase = "listening"
    /\ run[p].version = view[p].version
    /\ run[p].index \in 1..Len(view[p].round)
    /\ LET next == IF run[p].at = "waiting" THEN run[p].index + 1 ELSE run[p].index
       IN run[p].kind = "sequence" => next = Len(view[p].played) + 1

\* What is to be sent again fits the view it came from, and was recorded, if it
\* was, as what came right after that view: so it is told as saved or as
\* overtaken, but never taken for something newer.
RetryFits ==
  \A p \in Pages : retry[p] # None =>
    /\ view[p] # None
    /\ retry[p].version = view[p].version
    /\ retry[p].round = view[p].roundNumber
    /\ retry[p] \in DOMAIN stored => stored[retry[p]].version = view[p].version + 1

\* What page, player and server keep of each other fits together, whatever was
\* lost, repeated or overtaken: types, PlayerFollowsPage and RetryFits.
PageInv ==
  /\ PageTypeOK
  /\ PlayerFollowsPage
  /\ RetryFits

\* With the reports the pages send, a round whose words were all heard is
\* always open for grading: the continuous mode has no way on otherwise
\* (session-machine.ts opens it only by a report that says so).
NoDeadEnd == phase = "listening" => Len(played) < Len(round)

\* The marks a page shows as selected were made on the words and the round it
\* shows, though they are kept on the device over reloads and while another
\* page goes on with the session (readRecoveryDraft).
MarksMadeHere ==
  \A p \in Pages : grader[p] # None =>
    view[p].phase = "grading" /\ grader[p] = view[p].version

\* Whatever is lost and repeated, however the pages overtake each other: a child
\* that goes on gets to the end of the session.
SessionEnds == <>(phase = "completed" \/ withdrawn)

\* The page says that a guardian withdrew the task only if one did, also when the
\* server fails to read the session for an answer ("A temporary network failure
\* should not interrupt dictation.", says the page of its poll).
WithdrawnIsTrue == \A p \in Pages : revoked[p] => withdrawn
=============================================================================
