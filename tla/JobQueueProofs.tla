---------------------------- MODULE JobQueueProofs ----------------------------
(***************************************************************************)
(* The job queue keeps QueueInv and implements WorkQueue, for any number   *)
(* of keys, workers and builders, any number of attempts, any lease and    *)
(* any delays.                                                             *)
(***************************************************************************)
EXTENDS JobQueue, TLAPS

\* A step after which a worker is idle or still has the claim it had.
ClaimsKept ==
  \A w \in Workers :
    work'[w] # Idle => /\ work[w] # Idle
                       /\ work'[w].key = work[w].key
                       /\ work'[w].lockedAt = work[w].lockedAt
                       /\ work'[w].attempts = work[w].attempts

\* What a busy worker has in its hands.
LEMMA BusyFields ==
  ASSUME TypeOK, NEW w \in Workers, work[w] # Idle
  PROVE  /\ work[w] \in Busy
         /\ work[w].key \in Keys
         /\ work[w].lockedAt \in Nat
         /\ work[w].attempts \in 1..MaxAttempts
<1>1. work[w] \in Busy
  BY DEF TypeOK
<1> QED
  BY <1>1 DEF Busy

LEMMA StepMeansBusy ==
  ASSUME NEW w, NEW s, s # "idle", At(w, s)
  PROVE  work[w] # Idle
BY DEF At, Idle

\* A step that neither writes a row nor hands out a claim.
LEMMA RowsKept ==
  ASSUME QueueInv, TypeOK', ClaimsKept, UNCHANGED queueVars, clock' >= clock
  PROVE  NoJobIsStranded' /\ OneOwner' /\ LostOnlyByLease'
<1>1. \A w \in Workers : Owns(w)' => Owns(w) /\ work'[w].key = work[w].key
  BY DEF Owns, OwnsLease, ClaimsKept, queueVars
<1>2. \A w \in Workers : Owns(w) /\ work'[w] # Idle => Owns(w)'
  BY DEF Owns, OwnsLease, ClaimsKept, queueVars
<1>3. clock \in Nat /\ clock' \in Nat
  BY DEF QueueInv, TypeOK
<1>4. NoJobIsStranded'
  BY <1>3 DEF QueueInv, NoJobIsStranded, queueVars
<1>5. OneOwner'
  BY <1>1 DEF QueueInv, OneOwner
<1>6. LostOnlyByLease'
  <2> SUFFICES ASSUME NEW w \in Workers, work'[w] # Idle
               PROVE  /\ work'[w].lockedAt <= clock'
                      /\ Owns(w)' \/ work'[w].lockedAt + Lease <= clock'
    BY DEF LostOnlyByLease
  <2>1. work[w] # Idle /\ work'[w].lockedAt = work[w].lockedAt
    BY DEF ClaimsKept
  <2>2. /\ work[w].lockedAt <= clock
        /\ Owns(w) \/ work[w].lockedAt + Lease <= clock
    BY <2>1 DEF QueueInv, LostOnlyByLease
  <2>3. work[w].lockedAt \in Nat
    BY <2>1, BusyFields DEF QueueInv
  <2> QED
    BY <2>1, <2>2, <2>3, <1>2, <1>3, QueueAssumption
<1> QED
  BY <1>4, <1>5, <1>6

LEMMA InitQueueInv == Init => QueueInv
<1> SUFFICES ASSUME Init PROVE QueueInv
  OBVIOUS
<1>1. \A w \in Workers : work[w] = Idle
  BY DEF Init
<1>2. TypeOK
  BY QueueAssumption DEF Init, TypeOK
<1>3. NoJobIsStranded
  BY DEF Init, NoJobIsStranded
<1>4. OneOwner /\ LostOnlyByLease
  BY <1>1 DEF OneOwner, LostOnlyByLease, Owns
<1>5. SucceededWithSpeech /\ HandledWithSpeech
  BY <1>1 DEF Init, SucceededWithSpeech, HandledWithSpeech, At, Idle, Owns
<1> QED
  BY <1>2, <1>3, <1>4, <1>5 DEF QueueInv

-----------------------------------------------------------------------------
(***************************************************************************)
(* The builders.                                                           *)
(***************************************************************************)

\* Asking for a job touches only a row that no worker owns.
LEMMA RowAskedFor ==
  ASSUME QueueInv, TypeOK', NEW k \in Keys, status[k] # "running",
         UNCHANGED <<clock, work, audio, withdrawn>>,
         status' = [status EXCEPT ![k] = "queued"],
         attempts' = [attempts EXCEPT ![k] = 0],
         lockedAt' = [lockedAt EXCEPT ![k] = Null]
  PROVE  QueueInv'
<1>1. \A w \in Workers : Owns(w)' <=> Owns(w)
  <2> SUFFICES ASSUME NEW w \in Workers, work[w] # Idle
               PROVE  OwnsLease(w)' <=> OwnsLease(w)
    BY DEF Owns
  <2>1. work[w].key \in Keys
    BY BusyFields DEF QueueInv
  <2>2. CASE work[w].key = k
    <3>1. status'[k] = "queued"
      BY DEF QueueInv, TypeOK
    <3> QED
      BY <2>2, <3>1 DEF OwnsLease
  <2>3. CASE work[w].key # k
    BY <2>1, <2>3 DEF OwnsLease, QueueInv, TypeOK
  <2> QED
    BY <2>2, <2>3
<1>2. NoJobIsStranded'
  BY QueueAssumption DEF QueueInv, TypeOK, NoJobIsStranded, Null
<1>3. OneOwner' /\ LostOnlyByLease'
  BY <1>1 DEF QueueInv, OneOwner, LostOnlyByLease
<1>4. SucceededWithSpeech'
  BY DEF QueueInv, TypeOK, SucceededWithSpeech
<1>5. HandledWithSpeech'
  BY <1>1 DEF QueueInv, HandledWithSpeech, At
<1> QED
  BY <1>2, <1>3, <1>4, <1>5 DEF QueueInv

\* What QueueInv speaks of, builders aside.
LEMMA BuildersOnly ==
  ASSUME QueueInv, TypeOK',
         UNCHANGED <<clock, queueVars, audio, work, withdrawn>>
  PROVE  QueueInv'
BY DEF QueueInv, queueVars, NoJobIsStranded, OneOwner, LostOnlyByLease, Owns,
       OwnsLease, SucceededWithSpeech, HandledWithSpeech, At

LEMMA LookForSpeechKeeps ==
  ASSUME QueueInv, NEW b \in Builders, NEW k \in Keys, LookForSpeech(b, k)
  PROVE  QueueInv'
<1>1. TypeOK'
  BY DEF QueueInv, TypeOK, LookForSpeech, queueVars
<1> QED
  BY <1>1, BuildersOnly DEF LookForSpeech

LEMMA BuildKey ==
  ASSUME TypeOK, NEW b \in Builders, build[b].step \in {"missed", "settled"}
  PROVE  /\ build[b] \in [step : {"missed", "settled"}, key : Keys]
         /\ build[b].key \in Keys
BY DEF TypeOK, Idle

LEMMA EnqueueJobKeeps ==
  ASSUME QueueInv, NEW b \in Builders, EnqueueJob(b)
  PROVE  QueueInv'
<1> DEFINE k == build[b].key
<1>1. /\ build[b] \in [step : {"missed", "settled"}, key : Keys]
      /\ k \in Keys
  BY BuildKey DEF EnqueueJob, QueueInv
<1>2. TypeOK'
  <2>1. build' \in [Builders -> {Idle} \cup [step : {"missed", "settled"}, key : Keys]]
    BY <1>1 DEF EnqueueJob, QueueInv, TypeOK
  <2>2. UNCHANGED <<clock, audio, work, withdrawn>>
    BY DEF EnqueueJob
  <2>3. /\ status' \in [Keys -> {"none", "queued", "running", "succeeded", "failed"}]
        /\ attempts' \in [Keys -> 0..MaxAttempts]
        /\ availableAt' \in [Keys -> Nat]
        /\ lockedAt' \in [Keys -> Nat \cup {Null}]
    <3>1. CASE UNCHANGED queueVars
      BY <3>1 DEF QueueInv, TypeOK, queueVars
    <3>2. CASE /\ status' = [status EXCEPT ![k] = "queued"]
               /\ attempts' = [attempts EXCEPT ![k] = 0]
               /\ availableAt' = [availableAt EXCEPT ![k] = clock]
               /\ UNCHANGED lockedAt
      <4>1. 0 \in 0..MaxAttempts /\ clock \in Nat
        BY QueueAssumption DEF QueueInv, TypeOK
      <4>2. /\ status' \in [Keys -> {"none", "queued", "running", "succeeded", "failed"}]
            /\ lockedAt' \in [Keys -> Nat \cup {Null}]
        BY <3>2 DEF QueueInv, TypeOK
      <4>3. attempts' \in [Keys -> 0..MaxAttempts]
        BY <3>2, <4>1 DEF QueueInv, TypeOK
      <4>4. availableAt' \in [Keys -> Nat]
        BY <3>2, <4>1 DEF QueueInv, TypeOK
      <4> QED
        BY <4>2, <4>3, <4>4
    <3> QED
      BY <3>1, <3>2 DEF EnqueueJob
  <2> QED
    BY <2>1, <2>2, <2>3 DEF QueueInv, TypeOK
<1>3. CASE status[k] = "none"
  <2>1. lockedAt[k] = Null
    BY <1>1, <1>3 DEF QueueInv, NoJobIsStranded
  <2>2. lockedAt' = [lockedAt EXCEPT ![k] = Null]
    BY <2>1, <1>1, <1>3 DEF EnqueueJob, QueueInv, TypeOK
  <2>3. /\ status' = [status EXCEPT ![k] = "queued"]
        /\ attempts' = [attempts EXCEPT ![k] = 0]
        /\ UNCHANGED <<clock, work, audio, withdrawn>>
    BY <1>3 DEF EnqueueJob
  <2> QED
    BY <1>1, <1>2, <1>3, <2>2, <2>3, RowAskedFor
<1>4. CASE status[k] # "none"
  BY <1>2, <1>4, BuildersOnly DEF EnqueueJob
<1> QED
  BY <1>3, <1>4

LEMMA RequeueTtsKeeps ==
  ASSUME QueueInv, NEW b \in Builders, RequeueTts(b)
  PROVE  QueueInv'
<1> DEFINE k == build[b].key
<1>1. k \in Keys
  BY BuildKey DEF RequeueTts, QueueInv
<1>2. TypeOK'
  <2>1. build' \in [Builders -> {Idle} \cup [step : {"missed", "settled"}, key : Keys]]
    BY DEF RequeueTts, QueueInv, TypeOK
  <2>2. /\ status' \in [Keys -> {"none", "queued", "running", "succeeded", "failed"}]
        /\ attempts' \in [Keys -> 0..MaxAttempts]
        /\ availableAt' \in [Keys -> Nat]
        /\ lockedAt' \in [Keys -> Nat \cup {Null}]
    <3>1. CASE UNCHANGED queueVars
      BY <3>1 DEF QueueInv, TypeOK, queueVars
    <3>2. CASE /\ status' = [status EXCEPT ![k] = "queued"]
               /\ attempts' = [attempts EXCEPT ![k] = 0]
               /\ availableAt' = [availableAt EXCEPT ![k] = clock]
               /\ lockedAt' = [lockedAt EXCEPT ![k] = Null]
      <4>1. 0 \in 0..MaxAttempts /\ clock \in Nat
        BY QueueAssumption DEF QueueInv, TypeOK
      <4>2. /\ status' \in [Keys -> {"none", "queued", "running", "succeeded", "failed"}]
            /\ lockedAt' \in [Keys -> Nat \cup {Null}]
        BY <3>2 DEF QueueInv, TypeOK
      <4>3. attempts' \in [Keys -> 0..MaxAttempts]
        BY <3>2, <4>1 DEF QueueInv, TypeOK
      <4>4. availableAt' \in [Keys -> Nat]
        BY <3>2, <4>1 DEF QueueInv, TypeOK
      <4> QED
        BY <4>2, <4>3, <4>4
    <3> QED
      BY <3>1, <3>2 DEF RequeueTts
  <2> QED
    BY <2>1, <2>2 DEF QueueInv, TypeOK, RequeueTts
<1>3. CASE MayRequeue(k)
  BY <1>1, <1>2, <1>3, RowAskedFor DEF RequeueTts, MayRequeue
<1>4. CASE ~MayRequeue(k)
  BY <1>2, <1>4, BuildersOnly DEF RequeueTts
<1> QED
  BY <1>3, <1>4

-----------------------------------------------------------------------------
(***************************************************************************)
(* Steps of a worker that write no row.                                    *)
(***************************************************************************)

\* What such a step has to show of the speech.
LEMMA WorkerOnly ==
  ASSUME QueueInv, TypeOK', ClaimsKept,
         UNCHANGED <<clock, queueVars>>,
         audio \cup withdrawn \subseteq audio' \cup withdrawn',
         \A w \in Workers : At(w, "handled")' =>
           At(w, "handled") \/ work[w].key \in audio'
  PROVE  QueueInv'
<1>1. NoJobIsStranded' /\ OneOwner' /\ LostOnlyByLease'
  BY RowsKept DEF QueueInv, TypeOK
<1>2. SucceededWithSpeech'
  BY DEF QueueInv, SucceededWithSpeech, queueVars
<1>3. HandledWithSpeech'
  <2> SUFFICES ASSUME NEW w \in Workers, At(w, "handled")', Owns(w)'
               PROVE  work'[w].key \in audio' \cup withdrawn'
    BY DEF HandledWithSpeech
  <2>1. Owns(w) /\ work'[w].key = work[w].key
    BY DEF Owns, OwnsLease, ClaimsKept, queueVars
  <2> QED
    BY <2>1 DEF QueueInv, HandledWithSpeech
<1> QED
  BY <1>1, <1>2, <1>3 DEF QueueInv

\* A worker that goes on to another step keeps its claim.
LEMMA StepKeepsClaim ==
  ASSUME TypeOK, NEW w \in Workers, work[w] # Idle,
         NEW s \in {"claimed", "missed", "spoken", "handled", "broken"},
         GoTo(w, s)
  PROVE  /\ ClaimsKept
         /\ work' \in [Workers -> {Idle} \cup Busy]
         /\ \A v \in Workers : v # w => work'[v] = work[v]
         /\ At(w, s)'
<1>1. work[w] \in Busy
  BY BusyFields
<1>2. /\ work'[w] = [work[w] EXCEPT !.step = s]
      /\ \A v \in Workers : v # w => work'[v] = work[v]
  BY DEF GoTo, TypeOK
<1>3. /\ work'[w] \in Busy
      /\ work'[w].step = s
      /\ work'[w].key = work[w].key
      /\ work'[w].lockedAt = work[w].lockedAt
      /\ work'[w].attempts = work[w].attempts
  BY <1>1, <1>2 DEF Busy
<1>4. work' \in [Workers -> {Idle} \cup Busy]
  BY <1>1, <1>3 DEF GoTo, TypeOK, Busy
<1> QED
  BY <1>2, <1>3, <1>4 DEF ClaimsKept, At

LEMMA FindCachedKeeps ==
  ASSUME QueueInv, NEW w \in Workers, FindCached(w)
  PROVE  QueueInv'
<1>1. work[w] # Idle
  BY StepMeansBusy DEF FindCached
<1>2. PICK s \in {"handled", "missed"} :
        GoTo(w, s) /\ (s = "handled" => work[w].key \in audio)
  BY DEF FindCached
<1>3. /\ ClaimsKept
      /\ work' \in [Workers -> {Idle} \cup Busy]
      /\ \A v \in Workers : v # w => work'[v] = work[v]
      /\ At(w, s)'
  BY <1>1, <1>2, StepKeepsClaim DEF QueueInv
<1>4. UNCHANGED <<clock, queueVars, audio, build, withdrawn>>
  BY DEF FindCached
<1>5. TypeOK'
  BY <1>3, <1>4 DEF QueueInv, TypeOK, queueVars
<1>6. \A v \in Workers : At(v, "handled")' => At(v, "handled") \/ work[v].key \in audio'
  BY <1>2, <1>3, <1>4 DEF At
<1> QED
  BY <1>3, <1>4, <1>5, <1>6, WorkerOnly

LEMMA SynthesizeKeeps ==
  ASSUME QueueInv, NEW w \in Workers, Synthesize(w)
  PROVE  QueueInv'
<1>1. work[w] # Idle
  BY StepMeansBusy DEF Synthesize
<1>2. PICK s \in {"spoken", "broken"} : GoTo(w, s)
  BY DEF Synthesize
<1>3. /\ ClaimsKept
      /\ work' \in [Workers -> {Idle} \cup Busy]
      /\ \A v \in Workers : v # w => work'[v] = work[v]
      /\ At(w, s)'
  BY <1>1, <1>2, StepKeepsClaim DEF QueueInv
<1>4. UNCHANGED <<clock, queueVars, audio, build, withdrawn>>
  BY DEF Synthesize
<1>5. TypeOK'
  BY <1>3, <1>4 DEF QueueInv, TypeOK, queueVars
<1>6. \A v \in Workers : At(v, "handled")' => At(v, "handled")
  BY <1>2, <1>3 DEF At
<1> QED
  BY <1>3, <1>4, <1>5, <1>6, WorkerOnly

LEMMA SettleRefusedKeeps ==
  ASSUME QueueInv, NEW w \in Workers, SettleRefused(w)
  PROVE  QueueInv'
<1>1. work[w] # Idle
  BY StepMeansBusy DEF SettleRefused
<1>2. GoTo(w, "broken")
  BY DEF SettleRefused
<1>3. /\ ClaimsKept
      /\ work' \in [Workers -> {Idle} \cup Busy]
      /\ \A v \in Workers : v # w => work'[v] = work[v]
      /\ At(w, "broken")'
  BY <1>1, <1>2, StepKeepsClaim DEF QueueInv
<1>4. UNCHANGED <<clock, queueVars, audio, build, withdrawn>>
  BY DEF SettleRefused
<1>5. TypeOK'
  BY <1>3, <1>4 DEF QueueInv, TypeOK, queueVars
<1>6. \A v \in Workers : At(v, "handled")' => At(v, "handled")
  BY <1>2, <1>3 DEF At
<1> QED
  BY <1>3, <1>4, <1>5, <1>6, WorkerOnly

LEMMA PutMediaKeeps ==
  ASSUME QueueInv, NEW w \in Workers, PutMedia(w)
  PROVE  QueueInv'
<1>1. work[w] # Idle
  BY StepMeansBusy DEF PutMedia
<1>2. PICK s \in {"handled", "broken"} :
        /\ GoTo(w, s)
        /\ s = "handled" => work[w].key \in audio'
  BY DEF PutMedia
<1>3. /\ ClaimsKept
      /\ work' \in [Workers -> {Idle} \cup Busy]
      /\ \A v \in Workers : v # w => work'[v] = work[v]
      /\ At(w, s)'
  BY <1>1, <1>2, StepKeepsClaim DEF QueueInv
<1>4. /\ UNCHANGED <<clock, queueVars, build>>
      /\ audio' \subseteq Keys /\ withdrawn' \subseteq Keys
      /\ audio \cup withdrawn \subseteq audio' \cup withdrawn'
  BY <1>1, BusyFields DEF PutMedia, QueueInv, TypeOK
<1>5. TypeOK'
  BY <1>3, <1>4 DEF QueueInv, TypeOK, queueVars
<1>6. \A v \in Workers : At(v, "handled")' => At(v, "handled") \/ work[v].key \in audio'
  BY <1>2, <1>3 DEF At
<1> QED
  BY <1>3, <1>4, <1>5, <1>6, WorkerOnly

LEMMA CrashKeeps ==
  ASSUME QueueInv, NEW w \in Workers, Crash(w)
  PROVE  QueueInv'
<1>1. /\ work' = [work EXCEPT ![w] = Idle]
      /\ UNCHANGED <<clock, queueVars, audio, build, withdrawn>>
  BY DEF Crash, BecomeIdle
<1>2. ClaimsKept
  BY <1>1 DEF ClaimsKept, QueueInv, TypeOK
<1>3. TypeOK'
  BY <1>1 DEF QueueInv, TypeOK, queueVars
<1>4. \A v \in Workers : At(v, "handled")' => At(v, "handled")
  BY <1>1 DEF At, Idle, QueueInv, TypeOK
<1> QED
  BY <1>1, <1>2, <1>3, <1>4, WorkerOnly

LEMMA WithdrawKeeps ==
  ASSUME QueueInv, NEW k \in Keys, Withdraw(k)
  PROVE  QueueInv'
<1>1. ClaimsKept
  BY DEF Withdraw, ClaimsKept
<1>2. TypeOK'
  BY DEF Withdraw, QueueInv, TypeOK, queueVars
<1>3. \A v \in Workers : At(v, "handled")' => At(v, "handled")
  BY DEF At, Withdraw
<1> QED
  BY <1>1, <1>2, <1>3, WorkerOnly DEF Withdraw

LEMMA TickKeeps ==
  ASSUME QueueInv, Tick
  PROVE  QueueInv'
<1>1. TypeOK' /\ clock' >= clock
  BY DEF Tick, QueueInv, TypeOK, queueVars
<1>2. ClaimsKept
  BY DEF Tick, ClaimsKept
<1>3. NoJobIsStranded' /\ OneOwner' /\ LostOnlyByLease'
  BY <1>1, <1>2, RowsKept DEF Tick
<1>4. SucceededWithSpeech' /\ HandledWithSpeech'
  BY DEF Tick, QueueInv, SucceededWithSpeech, HandledWithSpeech, At, Owns,
         OwnsLease, queueVars
<1> QED
  BY <1>1, <1>3, <1>4 DEF QueueInv

-----------------------------------------------------------------------------
(***************************************************************************)
(* Claims.                                                                 *)
(***************************************************************************)

\* A row after the leases that are over have been taken back.
LEMMA RowsNow ==
  ASSUME QueueInv, NEW j \in Keys
  PROVE  /\ StatusNow(j) \in {"none", "queued", "running", "succeeded", "failed"}
         /\ StatusNow(j) = "running" <=> status[j] = "running" /\ j \notin Stale
         /\ StatusNow(j) = "succeeded" <=> status[j] = "succeeded"
         /\ StatusNow(j) = "queued" => attempts[j] < MaxAttempts
         /\ j \notin Stale => /\ StatusNow(j) = status[j]
                             /\ AvailableAtNow(j) = availableAt[j]
                             /\ LockedAtNow(j) = lockedAt[j]
         /\ AvailableAtNow(j) \in Nat
         /\ LockedAtNow(j) \in Nat \cup {Null}
         /\ StatusNow(j) # "running" => LockedAtNow(j) = Null
         /\ StatusNow(j) = "running" => attempts[j] >= 1 /\ LockedAtNow(j) \in 0..clock
<1>1. /\ clock \in Nat
      /\ attempts[j] \in 0..MaxAttempts
      /\ status[j] \in {"none", "queued", "running", "succeeded", "failed"}
      /\ availableAt[j] \in Nat
      /\ lockedAt[j] \in Nat \cup {Null}
  BY DEF QueueInv, TypeOK
<1>2. /\ status[j] = "queued" => attempts[j] < MaxAttempts
      /\ status[j] = "running" => attempts[j] >= 1 /\ lockedAt[j] \in 0..clock
      /\ status[j] # "running" => lockedAt[j] = Null
  BY DEF QueueInv, NoJobIsStranded
<1>3. CASE j \in Stale
  <2>1. status[j] = "running"
    BY <1>3 DEF Stale
  <2>2. /\ StatusNow(j) = StatusAfterLoss(j)
        /\ AvailableAtNow(j) = clock
        /\ LockedAtNow(j) = Null
    BY <1>3 DEF StatusNow, AvailableAtNow, LockedAtNow
  <2>3. StatusAfterLoss(j) = "queued" => attempts[j] < MaxAttempts
    BY <1>1, QueueAssumption DEF StatusAfterLoss
  <2>4. StatusAfterLoss(j) \in {"queued", "failed"}
    BY DEF StatusAfterLoss
  <2> QED
    BY <1>1, <1>3, <2>1, <2>2, <2>3, <2>4
<1>4. CASE j \notin Stale
  BY <1>1, <1>2, <1>4 DEF StatusNow, AvailableAtNow, LockedAtNow
<1> QED
  BY <1>3, <1>4

\* The owner of a job that is taken back claimed it a lease ago.
LEMMA StaleOwner ==
  ASSUME NEW w \in Workers, Owns(w), work[w].key \in Stale
  PROVE  work[w].lockedAt + Lease <= clock
BY DEF Owns, OwnsLease, Stale

\* Taking back leases: the owners that are left owned their job before, and the
\* others claimed theirs a lease ago.
LEMMA OwnersAfterExpiry ==
  ASSUME QueueInv, NEW v \in Workers, work[v] # Idle,
         work'[v] = work[v], clock' = clock,
         status'[work[v].key] = StatusNow(work[v].key),
         attempts'[work[v].key] = attempts[work[v].key],
         lockedAt'[work[v].key] = LockedAtNow(work[v].key)
  PROVE  /\ Owns(v)' <=> Owns(v) /\ work[v].key \notin Stale
         /\ Owns(v)' \/ work[v].lockedAt + Lease <= clock
<1> DEFINE j == work[v].key
<1>1. j \in Keys
  BY BusyFields DEF QueueInv
<1>2. /\ StatusNow(j) = "running" <=> status[j] = "running" /\ j \notin Stale
      /\ j \notin Stale => LockedAtNow(j) = lockedAt[j]
  BY <1>1, RowsNow
<1>3. Owns(v)' <=> /\ StatusNow(j) = "running"
                   /\ LockedAtNow(j) = work[v].lockedAt
                   /\ attempts[j] = work[v].attempts
  BY DEF Owns, OwnsLease
<1>4. Owns(v) <=> /\ status[j] = "running"
                  /\ lockedAt[j] = work[v].lockedAt
                  /\ attempts[j] = work[v].attempts
  BY DEF Owns, OwnsLease
<1>5. Owns(v)' <=> Owns(v) /\ j \notin Stale
  BY <1>2, <1>3, <1>4
<1>6. Owns(v) \/ work[v].lockedAt + Lease <= clock
  BY DEF QueueInv, LostOnlyByLease
<1> QED
  BY <1>5, <1>6, StaleOwner

LEMMA ClaimNothingKeeps ==
  ASSUME QueueInv, NEW w \in Workers, ClaimNothing(w)
  PROVE  QueueInv'
<1>1. /\ status' = [j \in Keys |-> StatusNow(j)]
      /\ availableAt' = [j \in Keys |-> AvailableAtNow(j)]
      /\ lockedAt' = [j \in Keys |-> LockedAtNow(j)]
      /\ UNCHANGED <<clock, attempts, audio, work, build, withdrawn>>
  BY DEF ClaimNothing
<1>2. TypeOK'
  BY <1>1, RowsNow DEF QueueInv, TypeOK
<1>3. \A v \in Workers : work[v] # Idle =>
        /\ Owns(v)' <=> Owns(v) /\ work[v].key \notin Stale
        /\ Owns(v)' \/ work[v].lockedAt + Lease <= clock
  BY <1>1, OwnersAfterExpiry, BusyFields DEF QueueInv
<1>4. NoJobIsStranded'
  BY <1>1, RowsNow DEF NoJobIsStranded
<1>5. OneOwner'
  BY <1>1, <1>3 DEF QueueInv, OneOwner, Owns
<1>6. LostOnlyByLease'
  BY <1>1, <1>3 DEF QueueInv, LostOnlyByLease
<1>7. SucceededWithSpeech'
  BY <1>1, RowsNow DEF QueueInv, SucceededWithSpeech
<1>8. HandledWithSpeech'
  BY <1>1, <1>3 DEF QueueInv, HandledWithSpeech, At, Owns
<1> QED
  BY <1>2, <1>4, <1>5, <1>6, <1>7, <1>8 DEF QueueInv

\* What a claim does to the owners: the worker that claims owns the job, nobody
\* else does, and the owners of other jobs stay unless their lease is over.
LEMMA OwnersAfterClaim ==
  ASSUME QueueInv, NEW w \in Workers, NEW k \in Keys, ClaimOne(w, k)
  PROVE  /\ Owns(w)' /\ work'[w].key = k /\ work'[w].lockedAt = clock
         /\ \A v \in Workers \ {w} : work[v] # Idle =>
              /\ work'[v] = work[v]
              /\ Owns(v)' <=> Owns(v) /\ work[v].key # k /\ work[v].key \notin Stale
              /\ Owns(v)' \/ work[v].lockedAt + Lease <= clock
<1>1. /\ clock \in Nat
      /\ attempts[k] \in 0..MaxAttempts
      /\ Lease \in Nat /\ Lease >= 1
  BY QueueAssumption DEF QueueInv, TypeOK
<1>2. /\ status' = [j \in Keys |-> IF j = k THEN "running" ELSE StatusNow(j)]
      /\ attempts' = [attempts EXCEPT ![k] = attempts[k] + 1]
      /\ lockedAt' = [j \in Keys |-> IF j = k THEN clock ELSE LockedAtNow(j)]
      /\ clock' = clock
      /\ work'[w] = [step |-> "claimed", key |-> k, lockedAt |-> clock,
                     attempts |-> attempts[k] + 1]
      /\ \A v \in Workers \ {w} : work'[v] = work[v]
  BY DEF ClaimOne, QueueInv, TypeOK
<1>3. work'[w] # Idle
  BY <1>2 DEF Idle
<1>4. attempts'[k] = attempts[k] + 1
  BY <1>2 DEF QueueInv, TypeOK
<1>5. Owns(w)' /\ work'[w].key = k /\ work'[w].lockedAt = clock
  BY <1>2, <1>3, <1>4 DEF Owns, OwnsLease
<1>6. StatusNow(k) = "queued"
  BY DEF ClaimOne, Candidates
<1>7. ASSUME NEW v \in Workers \ {w}, work[v] # Idle
      PROVE  /\ Owns(v)' <=> Owns(v) /\ work[v].key # k /\ work[v].key \notin Stale
             /\ Owns(v)' \/ work[v].lockedAt + Lease <= clock
  <2>1. /\ work[v].key \in Keys
        /\ work[v].lockedAt \in Nat
        /\ work'[v] = work[v]
    BY <1>2, <1>7, BusyFields DEF QueueInv
  <2>2. CASE work[v].key = k
    <3>1. Owns(v) => work[v].key \in Stale
      BY <1>6, <2>2, RowsNow DEF Owns, OwnsLease
    <3>2. work[v].lockedAt + Lease <= clock
      BY <1>7, <3>1, StaleOwner DEF QueueInv, LostOnlyByLease
    <3>3. work[v].lockedAt # clock
      BY <1>1, <2>1, <3>2
    <3>4. ~Owns(v)'
      BY <1>2, <2>1, <2>2, <3>3 DEF Owns, OwnsLease
    <3> QED
      BY <2>2, <3>2, <3>4
  <2>3. CASE work[v].key # k
    <3>1. /\ status'[work[v].key] = StatusNow(work[v].key)
          /\ attempts'[work[v].key] = attempts[work[v].key]
          /\ lockedAt'[work[v].key] = LockedAtNow(work[v].key)
      BY <1>2, <2>1, <2>3 DEF QueueInv, TypeOK
    <3> QED
      BY <1>2, <1>7, <2>1, <2>3, <3>1, OwnersAfterExpiry
  <2> QED
    BY <2>2, <2>3
<1> QED
  BY <1>2, <1>5, <1>7

LEMMA ClaimOneKeeps ==
  ASSUME QueueInv, NEW w \in Workers, NEW k \in Keys, ClaimOne(w, k)
  PROVE  QueueInv'
<1>1. /\ clock \in Nat
      /\ attempts \in [Keys -> 0..MaxAttempts]
      /\ attempts[k] < MaxAttempts
      /\ MaxAttempts \in Nat
  BY QueueAssumption DEF QueueInv, TypeOK, ClaimOne, Candidates
<1>2. /\ status' = [j \in Keys |-> IF j = k THEN "running" ELSE StatusNow(j)]
      /\ attempts' = [attempts EXCEPT ![k] = attempts[k] + 1]
      /\ availableAt' = [j \in Keys |-> AvailableAtNow(j)]
      /\ lockedAt' = [j \in Keys |-> IF j = k THEN clock ELSE LockedAtNow(j)]
      /\ work' = [work EXCEPT ![w] = [step |-> "claimed", key |-> k,
                                      lockedAt |-> clock,
                                      attempts |-> attempts[k] + 1]]
      /\ withdrawn' = withdrawn \ {k}
      /\ UNCHANGED <<clock, audio, build>>
  BY DEF ClaimOne
<1>3. attempts[k] + 1 \in 1..MaxAttempts
  BY <1>1
<1>4. TypeOK'
  <2>1. work' \in [Workers -> {Idle} \cup Busy]
    BY <1>1, <1>2, <1>3 DEF QueueInv, TypeOK, Busy
  <2>2. attempts' \in [Keys -> 0..MaxAttempts]
    BY <1>1, <1>2, <1>3
  <2>3. /\ status' \in [Keys -> {"none", "queued", "running", "succeeded", "failed"}]
        /\ availableAt' \in [Keys -> Nat]
        /\ lockedAt' \in [Keys -> Nat \cup {Null}]
    BY <1>1, <1>2, RowsNow
  <2> QED
    BY <1>2, <2>1, <2>2, <2>3 DEF QueueInv, TypeOK
<1>5. NoJobIsStranded'
  <2> SUFFICES ASSUME NEW j \in Keys
               PROVE  /\ status'[j] = "queued" => attempts'[j] < MaxAttempts
                      /\ status'[j] = "running" =>
                           attempts'[j] >= 1 /\ lockedAt'[j] \in 0..clock
                      /\ status'[j] # "running" => lockedAt'[j] = Null
    BY <1>2 DEF NoJobIsStranded
  <2>1. CASE j = k
    BY <1>1, <1>2, <1>3, <2>1
  <2>2. CASE j # k
    BY <1>1, <1>2, <2>2, RowsNow
  <2> QED
    BY <2>1, <2>2
<1>6. \A v \in Workers \ {w} : work'[v] = work[v]
  BY <1>2 DEF QueueInv, TypeOK
<1>7. OneOwner'
  <2> SUFFICES ASSUME NEW u \in Workers, NEW v \in Workers,
                      Owns(u)', Owns(v)', u # v
               PROVE  work'[u].key # work'[v].key
    BY DEF OneOwner
  <2>1. \A x \in Workers \ {w} :
          Owns(x)' => Owns(x) /\ work[x].key # k /\ work'[x] = work[x]
    BY <1>6, OwnersAfterClaim DEF Owns
  <2>2. work'[w].key = k
    BY OwnersAfterClaim
  <2> QED
    BY <2>1, <2>2 DEF QueueInv, OneOwner
<1>8. LostOnlyByLease'
  <2> SUFFICES ASSUME NEW v \in Workers, work'[v] # Idle
               PROVE  /\ work'[v].lockedAt <= clock
                      /\ Owns(v)' \/ work'[v].lockedAt + Lease <= clock
    BY <1>2 DEF LostOnlyByLease
  <2>1. CASE v = w
    BY <1>1, <2>1, OwnersAfterClaim
  <2>2. CASE v # w
    BY <1>6, <2>2, OwnersAfterClaim DEF QueueInv, LostOnlyByLease
  <2> QED
    BY <2>1, <2>2
<1>9. SucceededWithSpeech'
  <2> SUFFICES ASSUME NEW j \in Keys, status'[j] = "succeeded"
               PROVE  j \in audio' \cup withdrawn'
    BY DEF SucceededWithSpeech
  <2>1. j # k /\ StatusNow(j) = "succeeded"
    BY <1>2
  <2> QED
    BY <1>2, <2>1, RowsNow DEF QueueInv, SucceededWithSpeech
<1>10. HandledWithSpeech'
  <2> SUFFICES ASSUME NEW v \in Workers, At(v, "handled")', Owns(v)'
               PROVE  work'[v].key \in audio' \cup withdrawn'
    BY DEF HandledWithSpeech
  <2>1. v # w
    BY <1>2 DEF At, QueueInv, TypeOK
  <2>2. work[v] # Idle /\ At(v, "handled")
    BY <1>6, <2>1 DEF At, Idle
  <2>3. Owns(v) /\ work[v].key # k
    BY <2>1, <2>2, OwnersAfterClaim
  <2> QED
    BY <1>2, <1>6, <2>1, <2>2, <2>3 DEF QueueInv, HandledWithSpeech
<1> QED
  BY <1>4, <1>5, <1>7, <1>8, <1>9, <1>10 DEF QueueInv

-----------------------------------------------------------------------------
(***************************************************************************)
(* Settling a job.                                                         *)
(***************************************************************************)

\* The owner lets its row go and becomes idle.
LEMMA RowLetGo ==
  ASSUME QueueInv, TypeOK', NEW w \in Workers, NEW k \in Keys,
         Owns(w), work[w].key = k,
         work' = [work EXCEPT ![w] = Idle],
         UNCHANGED <<clock, attempts, audio, withdrawn>>,
         NEW s \in {"queued", "succeeded", "failed"},
         status' = [status EXCEPT ![k] = s],
         lockedAt' = [lockedAt EXCEPT ![k] = Null],
         s = "queued" => attempts[k] < MaxAttempts,
         s = "succeeded" => k \in audio \cup withdrawn
  PROVE  /\ QueueInv'
         /\ \A v \in Workers : Owns(v)' <=> Owns(v) /\ v # w
<1>1. \A v \in Workers : work'[v] = IF v = w THEN Idle ELSE work[v]
  BY DEF QueueInv, TypeOK
<1>2. ASSUME NEW v \in Workers
      PROVE  Owns(v)' <=> Owns(v) /\ v # w
  <2>1. CASE v = w \/ work[v] = Idle
    BY <1>1, <2>1 DEF Owns
  <2>2. CASE v # w /\ work[v] # Idle
    <3>1. work[v].key \in Keys /\ work'[v] = work[v]
      BY <1>1, <2>2, BusyFields DEF QueueInv
    <3>2. CASE work[v].key = k
      <4>1. ~Owns(v)
        BY <2>2, <3>2 DEF QueueInv, OneOwner
      <4>2. ~Owns(v)'
        BY <3>1, <3>2 DEF Owns, OwnsLease, QueueInv, TypeOK
      <4> QED
        BY <4>1, <4>2
    <3>3. CASE work[v].key # k
      BY <2>2, <3>1, <3>3 DEF Owns, OwnsLease, QueueInv, TypeOK
    <3> QED
      BY <3>2, <3>3
  <2> QED
    BY <2>1, <2>2
<1>3. NoJobIsStranded'
  BY DEF QueueInv, TypeOK, NoJobIsStranded
<1>4. OneOwner'
  BY <1>1, <1>2 DEF QueueInv, OneOwner
<1>5. LostOnlyByLease'
  BY <1>1, <1>2 DEF QueueInv, LostOnlyByLease
<1>6. SucceededWithSpeech'
  BY DEF QueueInv, TypeOK, SucceededWithSpeech
<1>7. HandledWithSpeech'
  BY <1>1, <1>2 DEF QueueInv, HandledWithSpeech, At
<1> QED
  BY <1>2, <1>3, <1>4, <1>5, <1>6, <1>7 DEF QueueInv

\* A worker that lost its job leaves without a trace.
LEMMA LeavesWithoutATrace ==
  ASSUME QueueInv, NEW w \in Workers,
         work' = [work EXCEPT ![w] = Idle],
         UNCHANGED <<clock, queueVars, audio, build, withdrawn>>
  PROVE  QueueInv'
<1>1. ClaimsKept
  BY DEF ClaimsKept, QueueInv, TypeOK
<1>2. TypeOK'
  BY DEF QueueInv, TypeOK, queueVars
<1>3. \A v \in Workers : At(v, "handled")' => At(v, "handled")
  BY DEF At, Idle, QueueInv, TypeOK
<1> QED
  BY <1>1, <1>2, <1>3, WorkerOnly

LEMMA SettleSucceededKeeps ==
  ASSUME QueueInv, NEW w \in Workers, SettleSucceeded(w)
  PROVE  QueueInv'
<1> DEFINE k == work[w].key
<1>1. work[w] # Idle
  BY StepMeansBusy DEF SettleSucceeded
<1>2. k \in Keys
  BY <1>1, BusyFields DEF QueueInv
<1>3. /\ work' = [work EXCEPT ![w] = Idle]
      /\ UNCHANGED <<clock, attempts, availableAt, audio, build, withdrawn>>
  BY DEF SettleSucceeded, BecomeIdle
<1>4. CASE OwnsLease(w)
  <2>1. /\ status' = [status EXCEPT ![k] = "succeeded"]
        /\ lockedAt' = [lockedAt EXCEPT ![k] = Null]
    BY <1>4 DEF SettleSucceeded
  <2>2. TypeOK'
    BY <1>3, <2>1 DEF QueueInv, TypeOK
  <2>3. Owns(w)
    BY <1>1, <1>4 DEF Owns
  <2>4. k \in audio \cup withdrawn
    BY <2>3 DEF QueueInv, HandledWithSpeech, SettleSucceeded
  <2> QED
    BY <1>2, <1>3, <2>1, <2>2, <2>3, <2>4, RowLetGo
<1>5. CASE ~OwnsLease(w)
  BY <1>3, <1>5, LeavesWithoutATrace DEF SettleSucceeded, queueVars
<1> QED
  BY <1>4, <1>5

\* What the failure of an attempt does to the row.
LEMMA BrokenRow ==
  ASSUME QueueInv, NEW w \in Workers, SettleBroken(w), OwnsLease(w)
  PROVE  /\ Owns(w) /\ work[w].key \in Keys
         /\ attempts[work[w].key] = work[w].attempts
         /\ \E s \in {"queued", "failed"} :
              /\ status' = [status EXCEPT ![work[w].key] = s]
              /\ s = "queued" <=> attempts[work[w].key] < MaxAttempts
         /\ lockedAt' = [lockedAt EXCEPT ![work[w].key] = Null]
         /\ availableAt' \in [Keys -> Nat]
<1> DEFINE k == work[w].key
           n == work[w].attempts
<1>1. work[w] # Idle
  BY StepMeansBusy DEF SettleBroken
<1>2. /\ k \in Keys /\ n \in 1..MaxAttempts /\ MaxAttempts \in Nat
      /\ clock \in Nat /\ availableAt \in [Keys -> Nat]
  BY <1>1, BusyFields, QueueAssumption DEF QueueInv, TypeOK
<1>3. Owns(w) /\ attempts[k] = n
  BY <1>1 DEF Owns, OwnsLease
<1>4. CASE n >= MaxAttempts
  <2>1. /\ status' = [status EXCEPT ![k] = "failed"]
        /\ lockedAt' = [lockedAt EXCEPT ![k] = Null]
        /\ UNCHANGED availableAt
    BY <1>2, <1>4 DEF SettleBroken
  <2> QED
    BY <1>2, <1>3, <1>4, <2>1
<1>5. CASE n < MaxAttempts
  <2>1. /\ status' = [status EXCEPT ![k] = "queued"]
        /\ availableAt' = [availableAt EXCEPT ![k] = clock + RetryDelay[n]]
        /\ lockedAt' = [lockedAt EXCEPT ![k] = Null]
    BY <1>2, <1>5 DEF SettleBroken
  <2>2. n \in 1..(MaxAttempts - 1)
    BY <1>2, <1>5
  <2>3. RetryDelay[n] \in Nat
    BY <2>2, QueueAssumption
  <2>4. availableAt' \in [Keys -> Nat]
    BY <1>2, <2>1, <2>3
  <2> QED
    BY <1>2, <1>3, <1>5, <2>1, <2>4
<1> QED
  BY <1>2, <1>4, <1>5

LEMMA SettleBrokenKeeps ==
  ASSUME QueueInv, NEW w \in Workers, SettleBroken(w)
  PROVE  QueueInv'
<1>1. /\ work' = [work EXCEPT ![w] = Idle]
      /\ UNCHANGED <<clock, attempts, audio, build, withdrawn>>
  BY DEF SettleBroken, BecomeIdle
<1>2. CASE OwnsLease(w)
  <2>1. PICK s \in {"queued", "failed"} :
          /\ status' = [status EXCEPT ![work[w].key] = s]
          /\ s = "queued" <=> attempts[work[w].key] < MaxAttempts
    BY <1>2, BrokenRow
  <2>2. /\ Owns(w) /\ work[w].key \in Keys
        /\ lockedAt' = [lockedAt EXCEPT ![work[w].key] = Null]
        /\ availableAt' \in [Keys -> Nat]
    BY <1>2, BrokenRow
  <2>3. TypeOK'
    BY <1>1, <2>1, <2>2 DEF QueueInv, TypeOK
  <2> QED
    BY <1>1, <2>1, <2>2, <2>3, RowLetGo
<1>3. CASE ~OwnsLease(w)
  BY <1>1, <1>3, LeavesWithoutATrace DEF SettleBroken, queueVars
<1> QED
  BY <1>2, <1>3

-----------------------------------------------------------------------------
LEMMA NextKeepsQueueInv == QueueInv /\ [Next]_vars => QueueInv'
<1> SUFFICES ASSUME QueueInv, [Next]_vars PROVE QueueInv'
  OBVIOUS
<1>1. ASSUME NEW b \in Builders, NEW k \in Keys, LookForSpeech(b, k) PROVE QueueInv'
  BY <1>1, LookForSpeechKeeps
<1>2. ASSUME NEW b \in Builders, EnqueueJob(b) PROVE QueueInv'
  BY <1>2, EnqueueJobKeeps
<1>3. ASSUME NEW b \in Builders, RequeueTts(b) PROVE QueueInv'
  BY <1>3, RequeueTtsKeeps
<1>4. ASSUME NEW w \in Workers, NEW k \in Keys, ClaimOne(w, k) PROVE QueueInv'
  BY <1>4, ClaimOneKeeps
<1>5. ASSUME NEW w \in Workers, ClaimNothing(w) PROVE QueueInv'
  BY <1>5, ClaimNothingKeeps
<1>6. ASSUME NEW w \in Workers, FindCached(w) PROVE QueueInv'
  BY <1>6, FindCachedKeeps
<1>7. ASSUME NEW w \in Workers, Synthesize(w) PROVE QueueInv'
  BY <1>7, SynthesizeKeeps
<1>8. ASSUME NEW w \in Workers, PutMedia(w) PROVE QueueInv'
  BY <1>8, PutMediaKeeps
<1>9. ASSUME NEW w \in Workers, SettleSucceeded(w) PROVE QueueInv'
  BY <1>9, SettleSucceededKeeps
<1>10. ASSUME NEW w \in Workers, SettleBroken(w) PROVE QueueInv'
  BY <1>10, SettleBrokenKeeps
<1>11. ASSUME NEW w \in Workers, Crash(w) PROVE QueueInv'
  BY <1>11, CrashKeeps
<1>12. ASSUME NEW k \in Keys, Withdraw(k) PROVE QueueInv'
  BY <1>12, WithdrawKeeps
<1>13. ASSUME Tick PROVE QueueInv'
  BY <1>13, TickKeeps
<1>14. ASSUME NEW w \in Workers, SettleRefused(w) PROVE QueueInv'
  BY <1>14, SettleRefusedKeeps
<1>15. ASSUME UNCHANGED vars PROVE QueueInv'
  <2>1. TypeOK'
    BY <1>15 DEF vars, queueVars, QueueInv, TypeOK
  <2> QED
    BY <1>15, <2>1, BuildersOnly DEF vars
<1> QED
  BY <1>1, <1>2, <1>3, <1>4, <1>5, <1>6, <1>7, <1>8, <1>9, <1>10, <1>11, <1>12,
     <1>13, <1>14, <1>15 DEF Next

\* The invariant of the queue: no job is stranded, a job has one owner at most,
\* and a worker loses its job by the end of its lease only.
THEOREM QueueInvHolds == Spec => []QueueInv
<1> QED
  BY InitQueueInv, NextKeepsQueueInv, PTL DEF Spec

\* Of all workers that claimed a job and are busy, only one can settle it.
THEOREM OneOwnerHolds == Spec => []OneOwner
<1>1. QueueInv => OneOwner
  BY DEF QueueInv
<1> QED
  BY <1>1, QueueInvHolds, PTL

\* Every row that waits can be claimed, every row that runs can expire.
THEOREM NoJobStranded == Spec => []NoJobIsStranded
<1>1. QueueInv => NoJobIsStranded
  BY DEF QueueInv
<1> QED
  BY <1>1, QueueInvHolds, PTL

\* A job that is reported as succeeded has left its speech in the store.
THEOREM SuccessMeansSpeech == Spec => []SucceededWithSpeech
<1>1. QueueInv => SucceededWithSpeech
  BY DEF QueueInv
<1> QED
  BY <1>1, QueueInvHolds, PTL

-----------------------------------------------------------------------------
(***************************************************************************)
(* The queue implements WorkQueue.                                         *)
(***************************************************************************)

\* Where the owners stay, the holders stay.
LEMMA SameHolders ==
  ASSUME NEW k \in Keys,
         \A w \in Workers :
           (Owns(w) /\ work[w].key = k)' <=> Owns(w) /\ work[w].key = k
  PROVE  HolderOf(k)' = HolderOf(k)
<1>1. Holders(k)' = Holders(k)
  BY DEF Holders
<1> QED
  BY <1>1 DEF HolderOf

LEMMA NoHolder ==
  ASSUME NEW k \in Keys, \A w \in Workers : Owns(w) => work[w].key # k
  PROVE  HolderOf(k) = "nobody"
BY DEF HolderOf, Holders

LEMMA TheHolder ==
  ASSUME OneOwner, NEW w \in Workers, Owns(w)
  PROVE  HolderOf(work[w].key) = w /\ w # "nobody"
<1>1. Holders(work[w].key) = {w}
  BY DEF Holders, OneOwner
<1> QED
  BY <1>1, QueueAssumption DEF HolderOf

\* A step that changes neither rows nor owners is none for WorkQueue.
LEMMA StutterForQueue ==
  ASSUME UNCHANGED <<status, attempts>>,
         \A w \in Workers : /\ Owns(w)' <=> Owns(w)
                            /\ Owns(w) => work'[w].key = work[w].key
  PROVE  UNCHANGED Queue!vars
<1>1. \A k \in Keys : HolderOf(k)' = HolderOf(k)
  <2> TAKE k \in Keys
  <2>1. \A w \in Workers : (Owns(w) /\ work[w].key = k)' <=> Owns(w) /\ work[w].key = k
    OBVIOUS
  <2> QED
    BY <2>1, SameHolders
<1> QED
  BY <1>1 DEF Queue!vars

LEMMA InitImplementsQueue == Init => Queue!Init
<1> SUFFICES ASSUME Init PROVE Queue!Init
  OBVIOUS
<1>1. \A k \in Keys : HolderOf(k) = "nobody"
  BY NoHolder DEF Init, Owns
<1> QED
  BY <1>1 DEF Init, Queue!Init, Queue!Nobody

\* Steps of a worker that keep the rows and the claims.
LEMMA WorkerStutters ==
  ASSUME QueueInv, UNCHANGED queueVars,
         \A w \in Workers : /\ work'[w] # Idle <=> work[w] # Idle
                            /\ work'[w] # Idle =>
                                 /\ work'[w].key = work[w].key
                                 /\ work'[w].lockedAt = work[w].lockedAt
                                 /\ work'[w].attempts = work[w].attempts
  PROVE  UNCHANGED Queue!vars
<1>1. \A w \in Workers : /\ Owns(w)' <=> Owns(w)
                         /\ Owns(w) => work'[w].key = work[w].key
  BY DEF Owns, OwnsLease, queueVars
<1> QED
  BY <1>1, StutterForQueue DEF queueVars

LEMMA GoToStutters ==
  ASSUME QueueInv, NEW w \in Workers, work[w] # Idle,
         NEW s \in {"claimed", "missed", "spoken", "handled", "broken"},
         GoTo(w, s), UNCHANGED queueVars
  PROVE  UNCHANGED Queue!vars
<1>1. /\ ClaimsKept
      /\ \A v \in Workers : v # w => work'[v] = work[v]
      /\ At(w, s)'
  BY StepKeepsClaim DEF QueueInv
<1>2. work'[w] # Idle
  BY <1>1 DEF At, Idle
<1> QED
  BY <1>1, <1>2, WorkerStutters DEF ClaimsKept

\* Asking for a job that nobody runs.
LEMMA AskImplements ==
  ASSUME QueueInv, NEW k \in Keys, status[k] \in {"none", "succeeded", "failed"},
         UNCHANGED work,
         status' = [status EXCEPT ![k] = "queued"],
         attempts' = [attempts EXCEPT ![k] = 0],
         lockedAt' = [lockedAt EXCEPT ![k] = Null]
  PROVE  Queue!Ask(k)
<1>1. \A w \in Workers : Owns(w)' <=> Owns(w)
  <2> SUFFICES ASSUME NEW w \in Workers, work[w] # Idle
               PROVE  OwnsLease(w)' <=> OwnsLease(w)
    BY DEF Owns
  <2>1. work[w].key \in Keys
    BY BusyFields DEF QueueInv
  <2>2. CASE work[w].key = k
    BY <2>2 DEF OwnsLease, QueueInv, TypeOK
  <2>3. CASE work[w].key # k
    BY <2>1, <2>3 DEF OwnsLease, QueueInv, TypeOK
  <2> QED
    BY <2>2, <2>3
<1>2. \A j \in Keys : HolderOf(j)' = HolderOf(j)
  BY <1>1, SameHolders
<1> QED
  BY <1>2 DEF Queue!Ask

LEMMA EnqueueJobImplements ==
  ASSUME QueueInv, NEW b \in Builders, EnqueueJob(b)
  PROVE  [Queue!Next]_(Queue!vars)
<1> DEFINE k == build[b].key
<1>1. k \in Keys
  BY BuildKey DEF EnqueueJob, QueueInv
<1>2. CASE status[k] = "none"
  <2>1. lockedAt[k] = Null
    BY <1>1, <1>2 DEF QueueInv, NoJobIsStranded
  <2>2. lockedAt' = [lockedAt EXCEPT ![k] = Null]
    BY <2>1, <1>1, <1>2 DEF EnqueueJob, QueueInv, TypeOK
  <2>3. /\ status' = [status EXCEPT ![k] = "queued"]
        /\ attempts' = [attempts EXCEPT ![k] = 0]
        /\ UNCHANGED work
    BY <1>2 DEF EnqueueJob
  <2>4. Queue!Ask(k)
    BY <1>1, <1>2, <2>2, <2>3, AskImplements
  <2> QED
    BY <1>1, <2>4 DEF Queue!Next
<1>3. CASE status[k] # "none"
  BY <1>3, WorkerStutters DEF EnqueueJob
<1> QED
  BY <1>2, <1>3

LEMMA RequeueTtsImplements ==
  ASSUME QueueInv, NEW b \in Builders, RequeueTts(b)
  PROVE  [Queue!Next]_(Queue!vars)
<1> DEFINE k == build[b].key
<1>1. k \in Keys
  BY BuildKey DEF RequeueTts, QueueInv
<1>2. CASE MayRequeue(k)
  <2>1. Queue!Ask(k)
    BY <1>1, <1>2, AskImplements DEF RequeueTts, MayRequeue
  <2> QED
    BY <1>1, <2>1 DEF Queue!Next
<1>3. CASE ~MayRequeue(k)
  BY <1>3, WorkerStutters DEF RequeueTts
<1> QED
  BY <1>2, <1>3

\* A claim is a take, after the jobs whose lease was over were given back.
LEMMA ClaimOneImplements ==
  ASSUME QueueInv, NEW w \in Workers, NEW k \in Keys, ClaimOne(w, k)
  PROVE  Queue!Next
<1>1. /\ status' = [j \in Keys |-> IF j = k THEN "running" ELSE StatusNow(j)]
      /\ attempts' = [attempts EXCEPT ![k] = attempts[k] + 1]
      /\ StatusNow(k) = "queued"
      /\ attempts[k] < MaxAttempts
      /\ work[w] = Idle
  BY DEF ClaimOne, Candidates
<1>2. /\ Stale \in SUBSET Keys
      /\ Stale \subseteq Queue!Running
  BY DEF Stale, Queue!Running
<1>3. \A j \in Keys : StatusNow(j) = IF j \in Stale THEN Queue!AfterAttempt(attempts[j])
                                                   ELSE status[j]
  BY DEF StatusNow, StatusAfterLoss, Queue!AfterAttempt
<1>4. k \in Queue!Waiting(Stale)
  BY <1>1, <1>3 DEF Queue!Waiting
<1>5. QueueInv'
  BY ClaimOneKeeps
<1>6. \A j \in Keys : HolderOf(j)' = IF j = k THEN w
                                     ELSE IF j \in Stale THEN "nobody"
                                     ELSE HolderOf(j)
  <2> TAKE j \in Keys
  <2>1. CASE j = k
    <3>1. Owns(w)' /\ work'[w].key = k
      BY OwnersAfterClaim
    <3>2. (OneOwner /\ Owns(w) => HolderOf(work[w].key) = w)'
      BY TheHolder, PTL
    <3> QED
      BY <1>5, <2>1, <3>1, <3>2 DEF QueueInv
  <2>2. CASE j # k /\ j \in Stale
    <3>1. StatusNow(j) # "running"
      BY <2>2, RowsNow
    <3>2. status'[j] # "running"
      BY <1>1, <2>2, <3>1
    <3>3. \A v \in Workers : Owns(v)' => work'[v].key # j
      BY <3>2 DEF Owns, OwnsLease
    <3>4. Holders(j)' = {}
      BY <3>3 DEF Holders
    <3> QED
      BY <2>2, <3>4 DEF HolderOf
  <2>3. CASE j # k /\ j \notin Stale
    <3>1. ASSUME NEW v \in Workers
          PROVE  (Owns(v) /\ work[v].key = j)' <=> Owns(v) /\ work[v].key = j
      <4>1. CASE v = w
        BY <1>1, <2>3, <4>1, OwnersAfterClaim DEF Owns
      <4>2. CASE v # w /\ work[v] # Idle
        BY <2>3, <4>2, OwnersAfterClaim
      <4>3. CASE v # w /\ work[v] = Idle
        BY <4>3 DEF ClaimOne, Owns, QueueInv, TypeOK
      <4> QED
        BY <4>1, <4>2, <4>3
    <3> QED
      BY <2>3, <3>1, SameHolders
  <2> QED
    BY <2>1, <2>2, <2>3
<1>7. Queue!Reassign(Stale, {k}, w)
  <2>1. status' = [j \in Keys |-> IF j \in {k} THEN "running"
                                  ELSE IF j \in Stale THEN Queue!AfterAttempt(attempts[j])
                                  ELSE status[j]]
    BY <1>1, <1>3
  <2>2. attempts' = [j \in Keys |-> IF j \in {k} THEN attempts[j] + 1 ELSE attempts[j]]
    BY <1>1 DEF QueueInv, TypeOK
  <2> QED
    BY <1>6, <2>1, <2>2 DEF Queue!Reassign, Queue!Nobody
<1>8. Queue!Take(w, Stale, k)
  BY <1>2, <1>4, <1>7 DEF Queue!Take
<1> QED
  BY <1>2, <1>8 DEF Queue!Next

\* Giving back what is over, with nothing to claim.
LEMMA ClaimNothingImplements ==
  ASSUME QueueInv, NEW w \in Workers, ClaimNothing(w)
  PROVE  Queue!Next
<1>1. /\ status' = [j \in Keys |-> StatusNow(j)]
      /\ lockedAt' = [j \in Keys |-> LockedAtNow(j)]
      /\ UNCHANGED <<clock, attempts, work>>
      /\ Stale # {}
  BY DEF ClaimNothing
<1>2. /\ Stale \in SUBSET Keys
      /\ Stale \subseteq Queue!Running
  BY DEF Stale, Queue!Running
<1>3. \A j \in Keys : StatusNow(j) = IF j \in Stale THEN Queue!AfterAttempt(attempts[j])
                                                   ELSE status[j]
  BY DEF StatusNow, StatusAfterLoss, Queue!AfterAttempt
<1>4. \A v \in Workers : work[v] # Idle =>
        (Owns(v)' <=> Owns(v) /\ work[v].key \notin Stale)
  BY <1>1, OwnersAfterExpiry, BusyFields DEF QueueInv
<1>5. \A j \in Keys : HolderOf(j)' = IF j \in Stale THEN "nobody" ELSE HolderOf(j)
  <2> TAKE j \in Keys
  <2>1. ASSUME NEW v \in Workers
        PROVE  (Owns(v) /\ work[v].key = j)' <=>
                 Owns(v) /\ work[v].key = j /\ j \notin Stale
    BY <1>1, <1>4 DEF Owns
  <2>2. CASE j \in Stale
    <3>1. Holders(j)' = {}
      BY <2>1, <2>2 DEF Holders
    <3> QED
      BY <2>2, <3>1 DEF HolderOf
  <2>3. CASE j \notin Stale
    BY <2>1, <2>3, SameHolders
  <2> QED
    BY <2>2, <2>3
<1>6. Queue!Reassign(Stale, {}, Queue!Nobody)
  <2>1. attempts' = [j \in Keys |-> attempts[j]]
    BY <1>1 DEF QueueInv, TypeOK
  <2> QED
    BY <1>1, <1>3, <1>5, <2>1 DEF Queue!Reassign, Queue!Nobody
<1>7. Queue!GiveBack(Stale)
  BY <1>1, <1>2, <1>6 DEF Queue!GiveBack
<1> QED
  BY <1>2, <1>7 DEF Queue!Next

\* Where the owner lets its job go, the job has no holder and the others keep
\* theirs.
LEMMA HolderLetsGo ==
  ASSUME QueueInv, NEW w \in Workers, Owns(w), NEW k \in Keys, work[w].key = k,
         work' = [work EXCEPT ![w] = Idle],
         \A v \in Workers : Owns(v)' <=> Owns(v) /\ v # w
  PROVE  [j \in Keys |-> HolderOf(j)]' =
           [[j \in Keys |-> HolderOf(j)] EXCEPT ![k] = "nobody"]
<1>1. \A v \in Workers : v # w => work'[v] = work[v]
  BY DEF QueueInv, TypeOK
<1>2. HolderOf(k)' = "nobody"
  <2>1. \A v \in Workers : Owns(v) /\ v # w => work[v].key # k
    BY DEF QueueInv, OneOwner
  <2>2. Holders(k)' = {}
    BY <1>1, <2>1 DEF Holders
  <2> QED
    BY <2>2 DEF HolderOf
<1>3. ASSUME NEW j \in Keys, j # k
      PROVE  HolderOf(j)' = HolderOf(j)
  <2>1. ASSUME NEW v \in Workers
        PROVE  (Owns(v) /\ work[v].key = j)' <=> Owns(v) /\ work[v].key = j
    BY <1>1, <1>3
  <2> QED
    BY <2>1, SameHolders
<1> QED
  BY <1>2, <1>3

\* A worker that owns nothing becomes idle.
LEMMA IdleStutters ==
  ASSUME QueueInv, NEW w \in Workers, ~Owns(w),
         work' = [work EXCEPT ![w] = Idle], UNCHANGED queueVars
  PROVE  UNCHANGED Queue!vars
<1>1. \A v \in Workers : work'[v] = IF v = w THEN Idle ELSE work[v]
  BY DEF QueueInv, TypeOK
<1>2. \A v \in Workers : /\ Owns(v)' <=> Owns(v)
                         /\ Owns(v) => work'[v].key = work[v].key
  BY <1>1 DEF Owns, OwnsLease, queueVars
<1> QED
  BY <1>2, StutterForQueue DEF queueVars

LEMMA SettleSucceededImplements ==
  ASSUME QueueInv, NEW w \in Workers, SettleSucceeded(w)
  PROVE  [Queue!Next]_(Queue!vars)
<1> DEFINE k == work[w].key
<1>1. work[w] # Idle
  BY StepMeansBusy DEF SettleSucceeded
<1>2. k \in Keys
  BY <1>1, BusyFields DEF QueueInv
<1>3. /\ work' = [work EXCEPT ![w] = Idle]
      /\ UNCHANGED <<clock, attempts, availableAt, audio, build, withdrawn>>
  BY DEF SettleSucceeded, BecomeIdle
<1>4. CASE OwnsLease(w)
  <2>1. /\ status' = [status EXCEPT ![k] = "succeeded"]
        /\ lockedAt' = [lockedAt EXCEPT ![k] = Null]
    BY <1>4 DEF SettleSucceeded
  <2>2. TypeOK'
    BY <1>3, <2>1 DEF QueueInv, TypeOK
  <2>3. Owns(w)
    BY <1>1, <1>4 DEF Owns
  <2>4. k \in audio \cup withdrawn
    BY <2>3 DEF QueueInv, HandledWithSpeech, SettleSucceeded
  <2>5. \A v \in Workers : Owns(v)' <=> Owns(v) /\ v # w
    BY <1>2, <1>3, <2>1, <2>2, <2>3, <2>4, RowLetGo
  <2>6. HolderOf(k) = w /\ w # "nobody"
    BY <2>3, TheHolder DEF QueueInv
  <2>7. status[k] = "running"
    BY <1>4 DEF OwnsLease
  <2>8. [j \in Keys |-> HolderOf(j)]' =
          [[j \in Keys |-> HolderOf(j)] EXCEPT ![k] = "nobody"]
    BY <1>2, <1>3, <2>3, <2>5, HolderLetsGo
  <2>9. Queue!Succeed(k)
    BY <1>2, <1>3, <2>1, <2>6, <2>7, <2>8 DEF Queue!Succeed, Queue!Nobody
  <2> QED
    BY <1>2, <2>9 DEF Queue!Next
<1>5. CASE ~OwnsLease(w)
  BY <1>3, <1>5, IdleStutters DEF SettleSucceeded, Owns, queueVars
<1> QED
  BY <1>4, <1>5

\* An attempt that failed gives its job back.
LEMMA SettleBrokenImplements ==
  ASSUME QueueInv, NEW w \in Workers, SettleBroken(w)
  PROVE  [Queue!Next]_(Queue!vars)
<1> DEFINE k == work[w].key
<1>1. /\ work' = [work EXCEPT ![w] = Idle]
      /\ UNCHANGED <<clock, attempts, audio, build, withdrawn>>
  BY DEF SettleBroken, BecomeIdle
<1>2. CASE OwnsLease(w)
  <2>1. PICK s \in {"queued", "failed"} :
          /\ status' = [status EXCEPT ![k] = s]
          /\ s = "queued" <=> attempts[k] < MaxAttempts
    BY <1>2, BrokenRow
  <2>2. /\ Owns(w) /\ k \in Keys
        /\ lockedAt' = [lockedAt EXCEPT ![k] = Null]
        /\ availableAt' \in [Keys -> Nat]
    BY <1>2, BrokenRow
  <2>3. TypeOK'
    BY <1>1, <2>1, <2>2 DEF QueueInv, TypeOK
  <2>4. \A v \in Workers : Owns(v)' <=> Owns(v) /\ v # w
    BY <1>1, <2>1, <2>2, <2>3, RowLetGo
  <2>5. [j \in Keys |-> HolderOf(j)]' =
          [[j \in Keys |-> HolderOf(j)] EXCEPT ![k] = "nobody"]
    BY <1>1, <2>2, <2>4, HolderLetsGo
  <2>6. {k} \in SUBSET Keys /\ {k} \subseteq Queue!Running
    BY <1>2, <2>2 DEF OwnsLease, Queue!Running
  <2>7. s = Queue!AfterAttempt(attempts[k])
    BY <2>1, <2>2, QueueAssumption DEF Queue!AfterAttempt, QueueInv, TypeOK
  <2>8. status' = [j \in Keys |-> IF j \in {} THEN "running"
                                  ELSE IF j \in {k} THEN Queue!AfterAttempt(attempts[j])
                                  ELSE status[j]]
    BY <2>1, <2>7 DEF QueueInv, TypeOK
  <2>9. attempts' = [j \in Keys |-> IF j \in {} THEN attempts[j] + 1 ELSE attempts[j]]
    BY <1>1 DEF QueueInv, TypeOK
  <2>10. [j \in Keys |-> HolderOf(j)]' =
           [j \in Keys |-> IF j \in {} THEN "nobody"
                           ELSE IF j \in {k} THEN "nobody" ELSE HolderOf(j)]
    BY <2>2, <2>5
  <2>11. Queue!Reassign({k}, {}, Queue!Nobody)
    BY <2>8, <2>9, <2>10 DEF Queue!Reassign, Queue!Nobody
  <2>12. Queue!GiveBack({k})
    BY <2>6, <2>11 DEF Queue!GiveBack
  <2> QED
    BY <2>6, <2>12 DEF Queue!Next
<1>3. CASE ~OwnsLease(w)
  BY <1>1, <1>3, IdleStutters DEF SettleBroken, Owns, queueVars
<1> QED
  BY <1>2, <1>3

\* A process that ends leaves its job running, with nobody to settle it.
LEMMA CrashImplements ==
  ASSUME QueueInv, NEW w \in Workers, Crash(w)
  PROVE  [Queue!Next]_(Queue!vars)
<1> DEFINE k == work[w].key
<1>1. /\ work' = [work EXCEPT ![w] = Idle]
      /\ UNCHANGED queueVars
      /\ work[w] # Idle
  BY DEF Crash, BecomeIdle
<1>2. CASE Owns(w)
  <2>1. \A v \in Workers : work'[v] = IF v = w THEN Idle ELSE work[v]
    BY <1>1 DEF QueueInv, TypeOK
  <2>2. \A v \in Workers : Owns(v)' <=> Owns(v) /\ v # w
    BY <1>1, <2>1 DEF Owns, OwnsLease, queueVars
  <2>3. k \in Keys /\ status[k] = "running"
    BY <1>1, <1>2, BusyFields DEF QueueInv, Owns, OwnsLease
  <2>4. [j \in Keys |-> HolderOf(j)]' =
          [[j \in Keys |-> HolderOf(j)] EXCEPT ![k] = "nobody"]
    BY <1>1, <1>2, <2>2, <2>3, HolderLetsGo
  <2>5. HolderOf(k) = w /\ w # "nobody"
    BY <1>2, TheHolder DEF QueueInv
  <2>6. Queue!Vanish(k)
    BY <1>1, <2>4, <2>5, <2>3 DEF Queue!Vanish, Queue!Nobody, queueVars
  <2> QED
    BY <2>3, <2>6 DEF Queue!Next
<1>3. CASE ~Owns(w)
  BY <1>1, <1>3, IdleStutters
<1> QED
  BY <1>2, <1>3

\* Every step of the queue is a step of WorkQueue or none.
LEMMA NextImplementsQueue ==
  QueueInv /\ [Next]_vars => [Queue!Next]_(Queue!vars)
<1> SUFFICES ASSUME QueueInv, [Next]_vars PROVE [Queue!Next]_(Queue!vars)
  OBVIOUS
<1>1. ASSUME UNCHANGED <<queueVars, work>> PROVE UNCHANGED Queue!vars
  BY <1>1, WorkerStutters
<1>2. ASSUME NEW b \in Builders, NEW k \in Keys, LookForSpeech(b, k)
      PROVE  UNCHANGED Queue!vars
  BY <1>1, <1>2 DEF LookForSpeech
<1>3. ASSUME NEW w \in Workers, FindCached(w) PROVE UNCHANGED Queue!vars
  BY <1>3, StepMeansBusy, GoToStutters DEF FindCached
<1>4. ASSUME NEW w \in Workers, Synthesize(w) PROVE UNCHANGED Queue!vars
  BY <1>4, StepMeansBusy, GoToStutters DEF Synthesize
<1>5. ASSUME NEW w \in Workers, PutMedia(w) PROVE UNCHANGED Queue!vars
  BY <1>5, StepMeansBusy, GoToStutters DEF PutMedia
<1>6. ASSUME NEW k \in Keys, Withdraw(k) PROVE UNCHANGED Queue!vars
  BY <1>1, <1>6 DEF Withdraw
<1>7. ASSUME Tick PROVE UNCHANGED Queue!vars
  BY <1>1, <1>7 DEF Tick
<1>8. ASSUME NEW w \in Workers, SettleRefused(w) PROVE UNCHANGED Queue!vars
  BY <1>8, StepMeansBusy, GoToStutters DEF SettleRefused
<1>9. ASSUME UNCHANGED vars PROVE UNCHANGED Queue!vars
  BY <1>1, <1>9 DEF vars
<1> QED
  BY <1>2, <1>3, <1>4, <1>5, <1>6, <1>7, <1>8, <1>9, EnqueueJobImplements,
     RequeueTtsImplements, ClaimOneImplements, ClaimNothingImplements,
     SettleSucceededImplements, SettleBrokenImplements, CrashImplements DEF Next

\* Behind leases, clocks, retries and slow or dying workers the queue keeps the
\* promise of WorkQueue: a job is settled by the worker that holds it, and no
\* attempt goes uncounted.
THEOREM QueueKept == Spec => KeepsQueue
<1> QED
  BY InitImplementsQueue, QueueInvHolds, NextImplementsQueue, PTL
     DEF Spec, KeepsQueue, Queue!Spec

=============================================================================
