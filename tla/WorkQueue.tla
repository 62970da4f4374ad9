------------------------------- MODULE WorkQueue -------------------------------
(***************************************************************************)
(* What the job queue promises, without clocks, leases or worker steps: a  *)
(* job is held by one worker at a time, only a holder can settle it, it is *)
(* tried a bounded number of times, and then it stays settled until        *)
(* somebody asks for it again.                                             *)
(***************************************************************************)
EXTENDS Integers

CONSTANTS
  Jobs,
  Workers,
  MaxAttempts

ASSUME MaxAttemptsAssumption == MaxAttempts \in Nat \ {0}

VARIABLES
  status,    \* of each job: "none", "queued", "running", "succeeded", "failed"
  attempts,  \* how often each job was taken since it was last asked for
  holder     \* the worker that holds a running job, otherwise "nobody"

vars == <<status, attempts, holder>>

Nobody == "nobody"

Init ==
  /\ status = [j \in Jobs |-> "none"]
  /\ attempts = [j \in Jobs |-> 0]
  /\ holder = [j \in Jobs |-> Nobody]

\* Somebody asks for a job: a new one, or a settled one once more.
Ask(j) ==
  /\ status[j] \in {"none", "succeeded", "failed"}
  /\ status' = [status EXCEPT ![j] = "queued"]
  /\ attempts' = [attempts EXCEPT ![j] = 0]
  /\ UNCHANGED holder

\* Fault: a job is given up only when it was taken once too often.
LateAfterAttempt(n) == IF n > MaxAttempts THEN "failed" ELSE "queued"

\* What becomes of a job whose attempt did not succeed.
AfterAttempt(n) == IF n >= MaxAttempts THEN "failed" ELSE "queued"

\* The jobs that are to be done once the jobs in lost were given back.
Waiting(lost) ==
  {j \in Jobs : /\ attempts[j] < MaxAttempts
                /\ \/ status[j] = "queued"
                   \/ j \in lost /\ AfterAttempt(attempts[j]) = "queued"}

Running == {j \in Jobs : status[j] = "running"}

\* What becomes of the jobs in lost, and of the job that w takes.
Reassign(lost, taken, w) ==
  /\ status' = [j \in Jobs |-> IF j \in taken THEN "running"
                               ELSE IF j \in lost THEN AfterAttempt(attempts[j])
                               ELSE status[j]]
  /\ attempts' = [j \in Jobs |-> IF j \in taken THEN attempts[j] + 1
                                                ELSE attempts[j]]
  /\ holder' = [j \in Jobs |-> IF j \in taken THEN w
                               ELSE IF j \in lost THEN Nobody
                               ELSE holder[j]]

\* Jobs whose holders are no longer believed in are given back.
GiveBack(lost) ==
  /\ lost # {}
  /\ lost \subseteq Running
  /\ Reassign(lost, {}, Nobody)

\* A worker takes a job that waits, after jobs in lost were given back.
Take(w, lost, j) ==
  /\ lost \subseteq Running
  /\ j \in Waiting(lost)
  /\ Reassign(lost, {j}, w)

\* The worker that holds a job stops without a word.
Vanish(j) ==
  /\ status[j] = "running"
  /\ holder[j] # Nobody
  /\ holder' = [holder EXCEPT ![j] = Nobody]
  /\ UNCHANGED <<status, attempts>>

\* The worker that holds a job has done it.
Succeed(j) ==
  /\ status[j] = "running"
  /\ holder[j] # Nobody
  /\ status' = [status EXCEPT ![j] = "succeeded"]
  /\ holder' = [holder EXCEPT ![j] = Nobody]
  /\ UNCHANGED attempts

Next ==
  \/ \E j \in Jobs : Ask(j)
  \/ \E lost \in SUBSET Jobs : GiveBack(lost)
  \/ \E w \in Workers, lost \in SUBSET Jobs, j \in Jobs : Take(w, lost, j)
  \/ \E j \in Jobs : Vanish(j) \/ Succeed(j)

Spec == Init /\ [][Next]_vars

-----------------------------------------------------------------------------
(***************************************************************************)
(* Progress.  Workers poll for ever and take the job that waits longest,   *)
(* so a waiting job is taken some day.  A job that is held is settled or   *)
(* given back some day: the longest that can take is the lease.            *)
(***************************************************************************)

IsTaken(j) == \E w \in Workers, lost \in SUBSET Jobs : Take(w, lost, j)

IsLetGo(j) ==
  \/ Succeed(j)
  \/ \E lost \in SUBSET Jobs : /\ j \in lost
                              /\ \/ GiveBack(lost)
                                 \/ \E w \in Workers, k \in Jobs : Take(w, lost, k)

FairSpec ==
  /\ Spec
  /\ \A j \in Jobs : WF_vars(IsTaken(j)) /\ WF_vars(IsLetGo(j))

\* However often workers vanish and attempts fail, whatever was asked for ends:
\* it succeeds, or it is given up after its last attempt.
JobsSettle ==
  \A j \in Jobs : status[j] # "none" ~> status[j] \in {"succeeded", "failed"}

=============================================================================
