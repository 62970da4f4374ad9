------------------------------- MODULE JobQueue -------------------------------
(***************************************************************************)
(* The job queue in the database, for the jobs that generate speech: tasks *)
(* that are being built ask for the speech of their words, workers claim   *)
(* jobs under a lease, find or generate and store the speech, and settle   *)
(* the job if it is still theirs.                                          *)
(*                                                                         *)
(* Source: src/modules/jobs/worker.ts and service.ts, and the callers in   *)
(* task-service.ts.  The other job types run through the same queue.       *)
(*                                                                         *)
(* A claim, and each statement that settles a job, is one step.  Between   *)
(* them a worker can be slower than any lease, or its process can end.     *)
(* All processes read one clock, which is counted in units of which a      *)
(* lease and the delays of the retries are multiples.                      *)
(***************************************************************************)
EXTENDS Integers

CONSTANTS
  Keys,         \* the dedupe keys of speech; a key names its job and its media
  Workers,
  Builders,     \* the transactions that build tasks
  MaxAttempts,  \* MAX_ATTEMPTS
  Lease,        \* RUNNING_LEASE_MS
  RetryDelay,   \* RETRY_DELAYS_MS, by the attempt that failed
  MaxTime       \* bounds the clock

ASSUME QueueAssumption ==
  /\ "nobody" \notin Workers
  /\ MaxAttempts \in Nat \ {0}
  /\ Lease \in Nat \ {0}
  /\ RetryDelay \in [1..(MaxAttempts - 1) -> Nat]
  /\ MaxTime \in Nat

VARIABLES
  clock,
  status,       \* jobs.status by key; "none" when there is no row
  attempts,     \* jobs.attempts
  availableAt,  \* jobs.available_at
  lockedAt,     \* jobs.locked_at, or Null
  audio,        \* the keys that have an active media row
  work,         \* what each worker is doing, with the row it claimed
  build,        \* how far each builder is with a word
  withdrawn     \* history: the keys whose media went away since the last claim

queueVars == <<status, attempts, availableAt, lockedAt>>
vars == <<clock, queueVars, audio, work, build, withdrawn>>

Null == -1

\* claimed: handle() begins; missed: no speech in the cache; spoken: speech was
\* generated; handled and broken: handle() returned or threw.
Idle == [step |-> "idle"]
Busy == [step : {"claimed", "missed", "spoken", "handled", "broken"},
         key : Keys, lockedAt : Nat, attempts : 1..MaxAttempts]

Init ==
  /\ clock = 0
  /\ status = [k \in Keys |-> "none"]
  /\ attempts = [k \in Keys |-> 0]
  /\ availableAt = [k \in Keys |-> 0]
  /\ lockedAt = [k \in Keys |-> Null]
  /\ audio = {}
  /\ work = [w \in Workers |-> Idle]
  /\ build = [b \in Builders |-> Idle]
  /\ withdrawn = {}

-----------------------------------------------------------------------------
(***************************************************************************)
(* Building a task asks for the speech of its words.  Each look at the     *)
(* database is a step of its own, as builds lock no rows of the queue but  *)
(* the one they ask for.  A refusal undoes the build; what it had asked    *)
(* for earlier stays here, like the request of another build.              *)
(***************************************************************************)

LookForSpeech(b, k) ==
  /\ build[b] = Idle
  /\ k \notin audio
  /\ build' = [build EXCEPT ![b] = [step |-> "missed", key |-> k]]
  /\ UNCHANGED <<clock, queueVars, audio, work, withdrawn>>

\* A new job; or the job there is, if it is still to come to an end.
EnqueueJob(b) ==
  /\ build[b].step = "missed"
  /\ LET k == build[b].key IN
       \/ /\ status[k] = "none"
          /\ status' = [status EXCEPT ![k] = "queued"]
          /\ attempts' = [attempts EXCEPT ![k] = 0]
          /\ availableAt' = [availableAt EXCEPT ![k] = clock]
          /\ build' = [build EXCEPT ![b] = Idle]
          /\ UNCHANGED lockedAt
       \/ /\ status[k] \in {"queued", "running"}
          /\ build' = [build EXCEPT ![b] = Idle]
          /\ UNCHANGED queueVars
       \/ /\ status[k] \in {"succeeded", "failed"}
          /\ build' = [build EXCEPT ![b].step = "settled"]
          /\ UNCHANGED queueVars
  /\ UNCHANGED <<clock, audio, work, withdrawn>>

\* Only a job that is at its end, and whose speech is not there after all.
MayRequeue(k) ==
  /\ status[k] \in {"succeeded", "failed"}
  /\ k \notin audio

RequeueTts(b) ==
  /\ build[b].step = "settled"
  /\ build' = [build EXCEPT ![b] = Idle]
  /\ LET k == build[b].key IN
       \/ /\ MayRequeue(k)
          /\ status' = [status EXCEPT ![k] = "queued"]
          /\ attempts' = [attempts EXCEPT ![k] = 0]
          /\ availableAt' = [availableAt EXCEPT ![k] = clock]
          /\ lockedAt' = [lockedAt EXCEPT ![k] = Null]
       \/ /\ ~MayRequeue(k)
          /\ UNCHANGED queueVars
  /\ UNCHANGED <<clock, audio, work, withdrawn>>

-----------------------------------------------------------------------------
(***************************************************************************)
(* Claiming.  The transaction first gives back every job whose lease is    *)
(* over, then takes the job that is available for the longest time.  The   *)
(* clock is read just before; that moment is part of the step here.        *)
(***************************************************************************)

\* Fault: a job that runs is given back at once.
FaultyStale == {k \in Keys : status[k] = "running" /\ lockedAt[k] <= clock}

Stale == {k \in Keys : status[k] = "running" /\ lockedAt[k] + Lease <= clock}

\* Fault: the attempt that was lost does not count as the last one.
FaultyStatusAfterLoss(k) ==
  IF attempts[k] > MaxAttempts THEN "failed" ELSE "queued"

StatusAfterLoss(k) == IF attempts[k] >= MaxAttempts THEN "failed" ELSE "queued"

\* The row of k when the leases that are over have been taken back.
StatusNow(k)      == IF k \in Stale THEN StatusAfterLoss(k) ELSE status[k]
AvailableAtNow(k) == IF k \in Stale THEN clock ELSE availableAt[k]
LockedAtNow(k)    == IF k \in Stale THEN Null ELSE lockedAt[k]

Candidates ==
  {k \in Keys : /\ StatusNow(k) = "queued"
                /\ AvailableAtNow(k) <= clock
                /\ attempts[k] < MaxAttempts}

ClaimOne(w, k) ==
  /\ work[w] = Idle
  /\ k \in Candidates
  /\ \A other \in Candidates : AvailableAtNow(k) <= AvailableAtNow(other)
  /\ status' = [j \in Keys |-> IF j = k THEN "running" ELSE StatusNow(j)]
  /\ attempts' = [attempts EXCEPT ![k] = attempts[k] + 1]
  /\ availableAt' = [j \in Keys |-> AvailableAtNow(j)]
  /\ lockedAt' = [j \in Keys |-> IF j = k THEN clock ELSE LockedAtNow(j)]
  /\ work' = [work EXCEPT ![w] = [step |-> "claimed", key |-> k,
                                  lockedAt |-> clock,
                                  attempts |-> attempts[k] + 1]]
  /\ withdrawn' = withdrawn \ {k}
  /\ UNCHANGED <<clock, audio, build>>

\* With no job to take the worker has still given back what was over.
ClaimNothing(w) ==
  /\ work[w] = Idle
  /\ Candidates = {}
  /\ Stale # {}
  /\ status' = [j \in Keys |-> StatusNow(j)]
  /\ availableAt' = [j \in Keys |-> AvailableAtNow(j)]
  /\ lockedAt' = [j \in Keys |-> LockedAtNow(j)]
  /\ UNCHANGED <<clock, attempts, audio, work, build, withdrawn>>

-----------------------------------------------------------------------------
(***************************************************************************)
(* Handling the job that was claimed.                                      *)
(***************************************************************************)

At(w, step) == work[w].step = step

GoTo(w, step) == work' = [work EXCEPT ![w].step = step]

\* Fault: speech that is not there counts as found.
FaultyFindCached(w) ==
  /\ At(w, "claimed")
  /\ GoTo(w, "handled")
  /\ UNCHANGED <<clock, queueVars, audio, build, withdrawn>>

FindCached(w) ==
  /\ At(w, "claimed")
  /\ GoTo(w, IF work[w].key \in audio THEN "handled" ELSE "missed")
  /\ UNCHANGED <<clock, queueVars, audio, build, withdrawn>>

\* The child or the card may be gone, the provider may fail.
Synthesize(w) ==
  /\ At(w, "missed")
  /\ GoTo(w, "spoken") \/ GoTo(w, "broken")
  /\ UNCHANGED <<clock, queueVars, audio, build, withdrawn>>

\* Speech that somebody else has stored meanwhile is as good.
PutMedia(w) ==
  /\ At(w, "spoken")
  /\ \/ /\ GoTo(w, "handled")
        /\ audio' = audio \cup {work[w].key}
        /\ withdrawn' = withdrawn \ {work[w].key}
     \/ /\ GoTo(w, "broken")
        /\ UNCHANGED <<audio, withdrawn>>
  /\ UNCHANGED <<clock, queueVars, build>>

\* Fault: the time of the claim is not compared.
FaultyOwnsLease(w) ==
  LET k == work[w].key
  IN  status[k] = "running" /\ attempts[k] = work[w].attempts

\* The row is still as the worker left it when it claimed the job.
OwnsLease(w) ==
  LET k == work[w].key IN
  /\ status[k] = "running"
  /\ lockedAt[k] = work[w].lockedAt
  /\ attempts[k] = work[w].attempts

BecomeIdle(w) == work' = [work EXCEPT ![w] = Idle]

\* Fault: the job is reported as done whoever runs it by now.
FaultySettleSucceeded(w) ==
  /\ At(w, "handled")
  /\ BecomeIdle(w)
  /\ status' = [status EXCEPT ![work[w].key] = "succeeded"]
  /\ lockedAt' = [lockedAt EXCEPT ![work[w].key] = Null]
  /\ UNCHANGED <<clock, attempts, availableAt, audio, build, withdrawn>>

SettleSucceeded(w) ==
  /\ At(w, "handled")
  /\ BecomeIdle(w)
  /\ \/ /\ OwnsLease(w)
        /\ status' = [status EXCEPT ![work[w].key] = "succeeded"]
        /\ lockedAt' = [lockedAt EXCEPT ![work[w].key] = Null]
     \/ /\ ~OwnsLease(w)
        /\ UNCHANGED <<status, lockedAt>>
  /\ UNCHANGED <<clock, attempts, availableAt, audio, build, withdrawn>>

\* The database refuses that update: the attempt counts as one that failed.
SettleRefused(w) ==
  /\ At(w, "handled")
  /\ GoTo(w, "broken")
  /\ UNCHANGED <<clock, queueVars, audio, build, withdrawn>>

\* The last attempt ends the job, an earlier one is repeated after a delay.
SettleBroken(w) ==
  /\ At(w, "broken")
  /\ BecomeIdle(w)
  /\ LET k == work[w].key
         n == work[w].attempts
     IN
     \/ /\ OwnsLease(w)
        /\ n >= MaxAttempts
        /\ status' = [status EXCEPT ![k] = "failed"]
        /\ lockedAt' = [lockedAt EXCEPT ![k] = Null]
        /\ UNCHANGED availableAt
     \/ /\ OwnsLease(w)
        /\ n < MaxAttempts
        /\ status' = [status EXCEPT ![k] = "queued"]
        /\ availableAt' = [availableAt EXCEPT ![k] = clock + RetryDelay[n]]
        /\ lockedAt' = [lockedAt EXCEPT ![k] = Null]
     \/ /\ ~OwnsLease(w)
        /\ UNCHANGED <<status, availableAt, lockedAt>>
  /\ UNCHANGED <<clock, attempts, audio, build, withdrawn>>

\* The process ends, also because the database did not answer, and is started
\* again; its row keeps the lease.
Crash(w) ==
  /\ work[w] # Idle
  /\ BecomeIdle(w)
  /\ UNCHANGED <<clock, queueVars, audio, build, withdrawn>>

-----------------------------------------------------------------------------
\* Stored speech can be removed again.
Withdraw(k) ==
  /\ k \in audio
  /\ audio' = audio \ {k}
  /\ withdrawn' = withdrawn \cup {k}
  /\ UNCHANGED <<clock, queueVars, work, build>>

Tick ==
  /\ clock < MaxTime
  /\ clock' = clock + 1
  /\ UNCHANGED <<queueVars, audio, work, build, withdrawn>>

Next ==
  \/ \E b \in Builders : \/ \E k \in Keys : LookForSpeech(b, k)
                         \/ EnqueueJob(b)
                         \/ RequeueTts(b)
  \/ \E w \in Workers : \/ \E k \in Keys : ClaimOne(w, k)
                        \/ ClaimNothing(w)
                        \/ FindCached(w)
                        \/ Synthesize(w)
                        \/ PutMedia(w)
                        \/ SettleSucceeded(w)
                        \/ SettleRefused(w)
                        \/ SettleBroken(w)
                        \/ Crash(w)
  \/ \E k \in Keys : Withdraw(k)
  \/ Tick

Spec == Init /\ [][Next]_vars

-----------------------------------------------------------------------------
(***************************************************************************)
(* Invariants.                                                             *)
(***************************************************************************)

Owns(w) == work[w] # Idle /\ OwnsLease(w)

TypeOK ==
  /\ clock \in Nat
  /\ status \in [Keys -> {"none", "queued", "running", "succeeded", "failed"}]
  /\ attempts \in [Keys -> 0..MaxAttempts]
  /\ availableAt \in [Keys -> Nat]
  /\ lockedAt \in [Keys -> Nat \cup {Null}]
  /\ audio \subseteq Keys
  /\ work \in [Workers -> {Idle} \cup Busy]
  /\ build \in [Builders -> {Idle} \cup [step : {"missed", "settled"}, key : Keys]]
  /\ withdrawn \subseteq Keys

\* A row that waits can still be claimed, and a row that runs has its lease: no
\* job is left behind in a state that neither claim nor expiry looks at.
NoJobIsStranded ==
  \A k \in Keys :
    /\ status[k] = "queued" => attempts[k] < MaxAttempts
    /\ status[k] = "running" => attempts[k] >= 1 /\ lockedAt[k] \in 0..clock
    /\ status[k] # "running" => lockedAt[k] = Null

\* A job is settled by one worker at most: of all that ever claimed it and are
\* still busy, only one still owns the lease, although rows come back with the
\* same number of attempts after a guardian asked for the job again.
OneOwner ==
  \A v, w \in Workers : Owns(v) /\ Owns(w) /\ v # w => work[v].key # work[w].key

\* A worker that lost its job claimed it at least a lease ago.
LostOnlyByLease ==
  \A w \in Workers :
    work[w] # Idle => /\ work[w].lockedAt <= clock
                      /\ Owns(w) \/ work[w].lockedAt + Lease <= clock

\* The job is reported as succeeded only with its speech in the store, unless it
\* was removed there after the job had been claimed.
SucceededWithSpeech ==
  \A k \in Keys : status[k] = "succeeded" => k \in audio \cup withdrawn

HandledWithSpeech ==
  \A w \in Workers :
    At(w, "handled") /\ Owns(w) => work[w].key \in audio \cup withdrawn

\* The inductive invariant of the proofs.
QueueInv ==
  /\ TypeOK
  /\ NoJobIsStranded
  /\ OneOwner
  /\ LostOnlyByLease
  /\ SucceededWithSpeech
  /\ HandledWithSpeech

-----------------------------------------------------------------------------
(***************************************************************************)
(* The queue implements WorkQueue.                                         *)
(***************************************************************************)

Holders(k) == {w \in Workers : Owns(w) /\ work[w].key = k}

HolderOf(k) ==
  IF Holders(k) = {} THEN "nobody" ELSE CHOOSE w \in Holders(k) : TRUE

Queue == INSTANCE WorkQueue WITH
  Jobs   <- Keys,
  holder <- [k \in Keys |-> HolderOf(k)]

\* Behind leases, clocks and slow workers the queue keeps the promise of
\* WorkQueue: only the worker that holds a job settles it, and the attempts are
\* counted whatever happened to the workers.
KeepsQueue == Queue!Spec

=============================================================================
