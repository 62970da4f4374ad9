------------------------------ MODULE MediaStore ------------------------------
(***************************************************************************)
(* Files and their rows: storing a medium, removing it, and the pass that  *)
(* removes files nobody tracks, with crashes, failing writes, failing      *)
(* transactions and failing removals in between.                           *)
(*                                                                         *)
(* Source: src/modules/media/store.ts.  Every put makes a new id, so an id *)
(* also names the put; media of the same dedupe key exclude each other.    *)
(* Time is kept as the age of each file since it was written, for moving a *)
(* file leaves its mtime as it is.                                         *)
(***************************************************************************)
EXTENDS Naturals, FiniteSets

CONSTANTS
  Ids,
  Keys,     \* dedupe keys
  NoKey,    \* of media stored without one
  PutLimit, \* no put lasts longer
  Grace     \* age of the files the pass looks at

\* The code sets no limit to a put.  That it stays below the grace is what the pass
\* relies on: reconcileOrphans takes no grace below an hour, and the worker asks for
\* a day.
ASSUME MediaAssumption ==
  /\ PutLimit \in Nat
  /\ Grace \in Nat
  /\ PutLimit < Grace
  /\ NoKey \notin Keys

VARIABLES
  put,     \* where the put of an id is
  key,     \* the dedupe key it was asked for with
  row,     \* its committed row in private_media
  temp,    \* ids with a temporary file
  final,   \* ids with a file in its place
  age,     \* of the file
  removal, \* ids marked as deleted whose file is about to be removed
  pass,    \* what the pass has found so far
  unsure   \* history: puts whose commit succeeded and was reported as failed

putVars == <<put, key, row, temp, final, age>>
vars == <<putVars, removal, pass, unsure>>

Resting == [step |-> "idle", files |-> {}]

Init ==
  /\ put = [i \in Ids |-> "none"]
  /\ key = [i \in Ids |-> NoKey]
  /\ row = [i \in Ids |-> "none"]
  /\ temp = {}
  /\ final = {}
  /\ age = [i \in Ids |-> 0]
  /\ removal = {}
  /\ pass = Resting
  /\ unsure = {}

\* The row that has the key, valid or expired; removing a medium takes its key.
Holders(k) == {i \in Ids : k # NoKey /\ key[i] = k /\ row[i] \in {"active", "expired"}}

IsServed(k) == \E i \in Holders(k) : row[i] = "active"

UnderWay == {i \in Ids : put[i] \in {"written", "inserted", "moved"}}

-----------------------------------------------------------------------------
(***************************************************************************)
(* Storing.                                                                *)
(***************************************************************************)

WriteTemporary(i, k) ==
  /\ put[i] = "none"
  /\ ~IsServed(k)
  /\ put' = [put EXCEPT ![i] = "written"]
  /\ key' = [key EXCEPT ![i] = k]
  /\ temp' = temp \cup {i}
  /\ UNCHANGED <<row, final, age, removal, pass, unsure>>

\* The directory cannot be made, or the write breaks off half way.  The put throws
\* before it has anything to clean up with: what was written stays.
FailToWrite(i, k) ==
  /\ put[i] = "none"
  /\ ~IsServed(k)
  /\ put' = [put EXCEPT ![i] = "unwritten"]
  /\ key' = [key EXCEPT ![i] = k]
  /\ temp' \in {temp, temp \cup {i}}
  /\ UNCHANGED <<row, final, age, removal, pass, unsure>>

\* Waits while another put has the key and is not through.  What that one stored is
\* returned instead; an expired medium makes room.
InsertRow(i) ==
  /\ put[i] = "written"
  /\ \A other \in Ids : put[other] \in {"inserted", "moved"} =>
       key[other] # key[i] \/ key[i] = NoKey
  /\ put' = [put EXCEPT ![i] = IF IsServed(key[i]) THEN "superseded"
                                                   ELSE "inserted"]
  /\ UNCHANGED <<key, row, temp, final, age, removal, pass, unsure>>

MoveFile(i) ==
  /\ put[i] = "inserted"
  /\ put' = [put EXCEPT ![i] = "moved"]
  /\ temp' = temp \ {i}
  /\ final' = final \cup {i}
  /\ UNCHANGED <<key, row, age, removal, pass, unsure>>

Stored(i) ==
  [j \in Ids |-> IF j = i THEN "active"
                 ELSE IF j \in Holders(key[i]) THEN "deleted" ELSE row[j]]

Commit(i) ==
  /\ put[i] = "moved"
  /\ put' = [put EXCEPT ![i] = "done"]
  /\ row' = Stored(i)
  /\ UNCHANGED <<key, temp, final, age, removal, pass, unsure>>

\* The transaction is rolled back, at whichever statement.
Fail(i) ==
  /\ put[i] \in {"written", "inserted", "moved"}
  /\ put' = [put EXCEPT ![i] = "failed"]
  /\ UNCHANGED <<key, row, temp, final, age, removal, pass, unsure>>

\* The connection breaks after the commit and before its answer.
LoseCommit(i) ==
  /\ put[i] = "moved"
  /\ put' = [put EXCEPT ![i] = "failed"]
  /\ row' = Stored(i)
  /\ unsure' = unsure \cup {i}
  /\ UNCHANGED <<key, temp, final, age, removal, pass>>

\* Fault: the file is looked for in one place only.
FaultyCleanUp(i) ==
  /\ put[i] \in {"failed", "superseded"}
  /\ put' = [put EXCEPT ![i] = "done"]
  /\ temp' = temp \ {i}
  /\ UNCHANGED <<key, row, final, age, removal, pass, unsure>>

CleanUp(i) ==
  /\ put[i] \in {"failed", "superseded"}
  /\ put' = [put EXCEPT ![i] = "done"]
  /\ temp' = temp \ {i}
  /\ final' = final \ {i}
  /\ UNCHANGED <<key, row, age, removal, pass, unsure>>

\* Taking the files away fails as well, and the put throws with one of them left.
FailToCleanUp(i) ==
  /\ put[i] \in {"failed", "superseded"}
  /\ put' = [put EXCEPT ![i] = "unclean"]
  /\ UNCHANGED <<key, row, temp, final, age, removal, pass, unsure>>

\* The process dies: its transaction is rolled back and nothing is cleaned up.
Crash(i) ==
  /\ put[i] \notin {"none", "done", "unwritten", "unclean", "crashed"}
  /\ put' = [put EXCEPT ![i] = "crashed"]
  /\ UNCHANGED <<key, row, temp, final, age, removal, pass, unsure>>

-----------------------------------------------------------------------------
(***************************************************************************)
(* Expiry and removal.                                                     *)
(***************************************************************************)

Expire(i) ==
  /\ row[i] = "active"
  /\ row' = [row EXCEPT ![i] = "expired"]
  /\ UNCHANGED <<put, key, temp, final, age, removal, pass, unsure>>

\* The row is marked first, also once more when the removal is repeated.
MarkDeleted(i) ==
  /\ row[i] # "none"
  /\ row' = [row EXCEPT ![i] = "deleted"]
  /\ removal' = removal \cup {i}
  /\ UNCHANGED <<put, key, temp, final, age, pass, unsure>>

RemoveFile(i) ==
  /\ i \in removal
  /\ removal' = removal \ {i}
  /\ final' = final \ {i}
  /\ UNCHANGED <<put, key, row, temp, age, pass, unsure>>

\* The process dies, or the file cannot be removed.
CrashRemoval(i) ==
  /\ i \in removal
  /\ removal' = removal \ {i}
  /\ UNCHANGED <<putVars, pass, unsure>>

-----------------------------------------------------------------------------
(***************************************************************************)
(* The pass over the files.                                                *)
(***************************************************************************)

\* Fault: the files of puts under way are looked at.
FaultyIsOld(i) == TRUE

IsOld(i) == age[i] >= Grace

ListFiles ==
  /\ pass.step = "idle"
  /\ \E i \in final : IsOld(i)
  /\ pass' = [step |-> "listed", files |-> {i \in final : IsOld(i)}]
  /\ UNCHANGED <<putVars, removal, unsure>>

\* Fault: only media that were removed lose their files.
FaultyTracked == {i \in Ids : row[i] # "deleted"}

\* Rows of removed media count as well.
Tracked == {i \in Ids : row[i] # "none"}

LookForRows ==
  /\ pass.step = "listed"
  /\ pass' = [step |-> "removing", files |-> pass.files \ Tracked]
  /\ UNCHANGED <<putVars, removal, unsure>>

\* A file that is gone by now ends the pass.
RemoveOrphan(i) ==
  /\ pass.step = "removing"
  /\ i \in pass.files
  /\ final' = final \ {i}
  /\ pass' = IF i \in final THEN [pass EXCEPT !.files = @ \ {i}] ELSE Resting
  /\ UNCHANGED <<put, key, row, temp, age, removal, unsure>>

EndPass ==
  /\ pass.step = "removing"
  /\ pass.files = {}
  /\ pass' = Resting
  /\ UNCHANGED <<putVars, removal, unsure>>

\* A directory cannot be read, the database does not answer, a file cannot be
\* removed: the worker drops the error and waits for the next turn.
FailPass ==
  /\ pass.step \in {"listed", "removing"}
  /\ pass' = Resting
  /\ UNCHANGED <<putVars, removal, unsure>>

\* Ages are told apart up to the grace.
Tick ==
  /\ \A i \in UnderWay : age[i] < PutLimit
  /\ \E i \in temp \cup final : age[i] < Grace
  /\ age' = [i \in Ids |-> IF i \in temp \cup final /\ age[i] < Grace
                           THEN age[i] + 1 ELSE age[i]]
  /\ UNCHANGED <<put, key, row, temp, final, removal, pass, unsure>>

-----------------------------------------------------------------------------

Pass ==
  \/ ListFiles
  \/ LookForRows
  \/ \E i \in Ids : RemoveOrphan(i)
  \/ EndPass
  \/ FailPass

Next ==
  \/ \E i \in Ids, k \in Keys \cup {NoKey} : WriteTemporary(i, k)
  \/ \E i \in Ids, k \in Keys \cup {NoKey} : FailToWrite(i, k)
  \/ \E i \in Ids : InsertRow(i)
  \/ \E i \in Ids : MoveFile(i)
  \/ \E i \in Ids : Commit(i)
  \/ \E i \in Ids : Fail(i)
  \/ \E i \in Ids : LoseCommit(i)
  \/ \E i \in Ids : CleanUp(i)
  \/ \E i \in Ids : FailToCleanUp(i)
  \/ \E i \in Ids : Crash(i)
  \/ \E i \in Ids : Expire(i)
  \/ \E i \in Ids : MarkDeleted(i)
  \/ \E i \in Ids : RemoveFile(i)
  \/ \E i \in Ids : CrashRemoval(i)
  \/ Pass
  \/ Tick

Ends(i) == Commit(i) \/ Fail(i) \/ LoseCommit(i) \/ Crash(i)

\* A put ends, one way or another, and time passes.  The worker begins a pass, at
\* most every six hours, when it looks for a job and finds none: that the queue runs
\* empty again and again is an assumption, for a queue that never does keeps every
\* pass from beginning.  So is that no statement of a pass fails each time.
Fairness ==
  /\ \A i \in Ids : WF_vars(Ends(i))
  /\ WF_vars(Tick)
  /\ WF_vars(ListFiles)
  /\ SF_vars(LookForRows)
  /\ \A i \in Ids : SF_vars(RemoveOrphan(i))
  /\ WF_vars(EndPass)

Spec == Init /\ [][Next]_vars
FairSpec == Spec /\ Fairness

-----------------------------------------------------------------------------
(***************************************************************************)
(* Properties.                                                             *)
(***************************************************************************)

\* The values of the variables; no age is told apart beyond the grace.
TypeOK ==
  /\ put \in [Ids -> {"none", "written", "inserted", "moved", "superseded",
                      "failed", "done", "unwritten", "unclean", "crashed"}]
  /\ key \in [Ids -> Keys \cup {NoKey}]
  /\ row \in [Ids -> {"none", "active", "expired", "deleted"}]
  /\ temp \in SUBSET Ids
  /\ final \in SUBSET Ids
  /\ age \in [Ids -> 0..Grace]
  /\ removal \in SUBSET Ids
  /\ pass \in [step : {"idle", "listed", "removing"}, files : SUBSET Ids]
  /\ unsure \in SUBSET Ids

\* What the row and the files of a put can be, by where the put is.
RowsFollowPuts ==
  \A i \in Ids :
    /\ put[i] = "moved" => i \in final
    /\ row[i] # "none" => put[i] \in {"done", "failed", "unclean", "crashed"}
    /\ row[i] \in {"active", "expired"} => put[i] = "done" \/ i \in unsure
    /\ put[i] = "none" => i \notin temp
    /\ put[i] \in {"none", "unwritten", "written", "inserted"} => i \notin final
    /\ i \in removal => row[i] = "deleted"

\* Whatever the pass has in its hands belongs to a put that is over, for what is
\* not over is too young for it.
PassFollowsPuts ==
  /\ \A i \in Ids : put[i] = "none" \/ i \in UnderWay => age[i] <= PutLimit
  /\ \A i \in pass.files :
       /\ put[i] \notin {"none", "written", "inserted", "moved"}
       /\ pass.step = "removing" => row[i] = "none"

\* A medium whose row is valid has its file, whatever the pass removes meanwhile:
\* the row is written before the file is in its place and visible only after it.
\* The exception is a commit that was reported as failed, whose file the put
\* itself takes away.
RowHasFile ==
  \A i \in Ids :
    row[i] \in {"active", "expired"} /\ i \notin unsure => i \in final

\* What a put leaves that did not store its medium.  Nothing, when its file had been
\* written and it could take its files away, at whichever later point it failed or
\* found that another one had been quicker.  When the write itself failed there may
\* be a temporary file, which nothing removes, and never one in its place.
FailedPutIsClean ==
  \A i \in Ids : row[i] = "none" =>
    /\ put[i] = "done" => i \notin temp \cup final
    /\ put[i] = "unwritten" => i \notin final

\* A file in its place that a crash left, or a put that could not take it away,
\* disappears.  Rows of removed media are not meant: their files stay if the removal
\* is not repeated; nor temporary files, which the pass does not look at.
OrphansDisappear ==
  \A i \in Ids :
    (put[i] \in {"crashed", "unclean"} /\ row[i] = "none" /\ i \in final)
      ~> (i \notin final)

\* What makes these hold at every step: rows, files and the lists of the pass agree
\* with how far each put is.
MediaInv ==
  TypeOK /\ RowsFollowPuts /\ PassFollowsPuts /\ RowHasFile /\ FailedPutIsClean

=============================================================================
