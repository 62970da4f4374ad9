----------------------------- MODULE PinLockProofs -----------------------------
(***************************************************************************)
(* Proofs about PinLock: who counts a PIN holds its counter alone, so the  *)
(* wrong PINs of the time a lock lasts are no more than the limit, however *)
(* many requests and devices there are; and the parent mode is entered     *)
(* only by an unlock that a PIN has earned.                                *)
(***************************************************************************)
EXTENDS PinLock, FiniteSetTheorems, SequenceTheorems, TLAPS

-----------------------------------------------------------------------------
(***************************************************************************)
(* The inductive invariant.                                                *)
(***************************************************************************)

\* What a request knows at each of its steps.
Began    == [step : {"started", "device"}, device : Devices, pin : Pins, at : Nat]
Counting == [step : {"pin"}, device : Devices, pin : Pins, at : Nat, row : Counter]
Asking   == [step : {"asking"}, at : Nat]
Admitted == [step : {"found", "granted"}, unlock : Unlock, at : Nat]

\* A request that runs has read the clock, and not too long ago.
InTime(t) == t.at \in Nat /\ t.at <= now /\ now <= t.at + MaxDelay

Fits(t) ==
  \/ t = Idle
  \/ t \in Began \cup Counting /\ InTime(t) /\ (t.pin # Parent => t.pin[1] = t.device)
  \/ t \in Asking /\ InTime(t)
  \/ t \in Admitted /\ InTime(t) /\ t.at < t.unlock.expires

TxFit == DOMAIN tx = Requests /\ \A r \in Requests : Fits(tx[r])

\* The rows two requests hold: that of a device is held by one of them for update
\* and by no other at all, and so is the one of the parent's PIN.
Apart(t, u) ==
  /\ t.step \in {"device", "pin"} =>
       /\ u.step \in {"device", "pin"} => u.device # t.device
       /\ u.step = "granted" => u.unlock.device # t.device
  /\ t.step = "pin" /\ t.pin = Parent /\ u.step = "pin" => u.pin # Parent

RowsHeldApart == \A r, s \in Requests : r # s => Apart(tx[r], tx[s])

\* The device of a page that is admitted cannot be revoked meanwhile.
GrantedStands ==
  \A r \in Requests : tx[r].step = "granted" => tx[r].unlock.device \notin revoked

\* The wrong PINs that are remembered: they are recent and in order, the counter has
\* counted them, and a lock outlasts each of them.
TimesFit(times, row, moment) ==
  /\ times \in Seq(Nat)
  /\ \A i \in 1..Len(times) :
       /\ times[i] <= moment
       /\ moment - times[i] < LockTime - MaxDelay
       /\ row.locked => times[i] + LockTime <= row.until + MaxDelay
  /\ \A i, j \in 1..Len(times) : i <= j => times[i] <= times[j]
  /\ Len(times) <= row.failed

WrongFit == \A k \in Pins : TimesFit(wrong[k], counter[k], now)

IInv == PinInv /\ TxFit /\ RowsHeldApart /\ GrantedStands /\ WrongFit

-----------------------------------------------------------------------------
(***************************************************************************)
(* Lemmas.                                                                 *)
(***************************************************************************)

\* The empty counter is one, and all that it asks of the wrong PINs is that there
\* are none.
LEMMA FreshFits ==
  /\ Fresh \in Counter /\ Fresh.failed = 0 /\ Fresh.locked = FALSE
  /\ TimesFit(<<>>, Fresh, now)
BY PinAssumption DEF Fresh, Counter, TimesFit

\* A request that goes on alone: it changes no row, and the rows it holds then are
\* held by no other.
LEMMA GoOnKeepsInv ==
  ASSUME IInv, NEW r \in Requests, NEW state,
         GoOn(r, state), UNCHANGED <<now, rowVars, wrong>>,
         Fits(state),
         \A s \in Requests \ {r} : Apart(state, tx[s]) /\ Apart(tx[s], state),
         state.step = "pin" => state.row = counter[state.pin],
         state.step = "granted" => state.unlock.device \notin revoked
  PROVE  IInv'
<1>1. /\ DOMAIN tx = Requests /\ DOMAIN tx' = Requests
      /\ tx'[r] = state
      /\ \A s \in Requests \ {r} : tx'[s] = tx[s]
  BY DEF IInv, TxFit, GoOn
<1>2. PinInv'
  <2>1. RowsOK' /\ CountersFit'
    BY DEF IInv, PinInv, RowsOK, CountersFit, rowVars
  <2>2. ReadIsCurrent'
    BY <1>1 DEF IInv, PinInv, ReadIsCurrent, rowVars
  <2> QED
    BY <2>1, <2>2 DEF PinInv
<1>3. TxFit'
  <2>1. \A t : Fits(t)' <=> Fits(t)
    BY DEF Fits, InTime
  <2>2. \A s \in Requests : Fits(tx'[s])
    BY <1>1 DEF IInv, TxFit
  <2> QED
    BY <1>1, <2>2 DEF TxFit, Fits, InTime
<1>4. RowsHeldApart'
  <2>1. ASSUME NEW a \in Requests, NEW b \in Requests, a # b
        PROVE  Apart(tx'[a], tx'[b])
    BY <1>1, <2>1 DEF IInv, RowsHeldApart
  <2> QED
    BY <2>1 DEF RowsHeldApart, Apart
<1>5. GrantedStands'
  BY <1>1 DEF IInv, GrantedStands, rowVars
<1>6. WrongFit'
  BY DEF IInv, WrongFit, TimesFit, rowVars
<1> QED
  BY <1>2, <1>3, <1>4, <1>5, <1>6 DEF IInv

\* A request that holds nothing is apart from all others.
LEMMA HoldsNothing ==
  ASSUME NEW t, NEW u, t.step \notin {"device", "pin", "granted"}
  PROVE  Apart(t, u) /\ Apart(u, t)
BY DEF Apart

\* A request that is refused, or that has come to its end, holds nothing any more.
LEMMA RefuseKeepsInv ==
  ASSUME IInv, NEW r \in Requests, Refuse(r)
  PROVE  IInv'
<1>1. Idle.step = "idle" /\ Fits(Idle)
  BY DEF Idle, Fits
<1>2. GoOn(r, Idle) /\ UNCHANGED <<now, rowVars, wrong>>
  BY DEF Refuse
<1>3. \A s \in Requests : Apart(Idle, tx[s]) /\ Apart(tx[s], Idle)
  BY <1>1, HoldsNothing
<1> QED
  BY <1>1, <1>2, <1>3, GoOnKeepsInv

\* The steps of an attempt before its PIN is looked at.
LEMMA BeginAttemptKeepsInv ==
  ASSUME IInv, NEW r \in Requests, NEW d \in Devices, NEW k \in Pins,
         BeginAttempt(r, d, k)
  PROVE  IInv'
<1> DEFINE state == [step |-> "started", device |-> d, pin |-> k, at |-> now]
<1>1. state.step = "started" /\ Fits(state)
  <2>1. now \in Nat
    BY DEF IInv, PinInv, RowsOK
  <2> QED
    BY <2>1, PinAssumption DEF Fits, Began, InTime, BeginAttempt
<1>2. GoOn(r, state) /\ UNCHANGED <<now, rowVars, wrong>>
  BY DEF BeginAttempt
<1>3. \A s \in Requests : Apart(state, tx[s]) /\ Apart(tx[s], state)
  BY <1>1, HoldsNothing
<1> QED
  BY <1>1, <1>2, <1>3, GoOnKeepsInv

LEMMA LockDeviceKeepsInv ==
  ASSUME IInv, NEW r \in Requests, LockDevice(r)
  PROVE  IInv'
<1>1. CASE Refuse(r)
  BY <1>1, RefuseKeepsInv
<1>2. CASE GoOn(r, [tx[r] EXCEPT !.step = "device"]) /\ UNCHANGED <<now, rowVars, wrong>>
  <2> DEFINE state == [tx[r] EXCEPT !.step = "device"]
  <2>1. tx[r] \in Began /\ InTime(tx[r]) /\ (tx[r].pin # Parent => tx[r].pin[1] = tx[r].device)
    <3>1. tx[r].step = "started" /\ Fits(tx[r])
      BY DEF LockDevice, IInv, TxFit
    <3> QED
      BY <3>1 DEF Fits, Idle, Began, Counting, Asking, Admitted
  <2>2. /\ state \in Began /\ state.step = "device" /\ state.device = tx[r].device
        /\ state.pin = tx[r].pin /\ state.at = tx[r].at
    BY <2>1 DEF Began
  <2>3. Fits(state)
    BY <2>1, <2>2 DEF Fits, InTime
  <2>4. \A s \in Requests \ {r} : Apart(state, tx[s]) /\ Apart(tx[s], state)
    BY <2>2 DEF LockDevice, Holds, Shares, Apart
  <2> QED
    BY <1>2, <2>2, <2>3, <2>4, GoOnKeepsInv
<1> QED
  BY <1>1, <1>2 DEF LockDevice

LEMMA ReadCounterKeepsInv ==
  ASSUME IInv, NEW r \in Requests, ReadCounter(r)
  PROVE  IInv'
<1>1. tx[r] \in Began /\ InTime(tx[r]) /\ (tx[r].pin # Parent => tx[r].pin[1] = tx[r].device)
  <2>1. tx[r].step = "device" /\ Fits(tx[r])
    BY DEF ReadCounter, IInv, TxFit
  <2> QED
    BY <2>1 DEF Fits, Idle, Began, Counting, Asking, Admitted
<1>2. counter[tx[r].pin] \in Counter
  BY <1>1 DEF IInv, PinInv, RowsOK, Began
<1>3. /\ State(r) \in Counting /\ State(r).step = "pin" /\ State(r).device = tx[r].device
      /\ State(r).pin = tx[r].pin /\ State(r).at = tx[r].at
      /\ State(r).row = counter[State(r).pin]
  BY <1>1, <1>2 DEF State, Began, Counting
<1>4. Fits(State(r))
  BY <1>1, <1>3 DEF Fits, InTime
<1>5. ASSUME NEW s \in Requests \ {r}
      PROVE  Apart(State(r), tx[s]) /\ Apart(tx[s], State(r))
  <2>1. Apart(tx[r], tx[s]) /\ Apart(tx[s], tx[r]) /\ tx[r].step = "device"
    BY DEF IInv, RowsHeldApart, ReadCounter
  <2>2. tx[r].pin = Parent => ~(tx[s].step = "pin" /\ tx[s].pin = Parent)
    BY DEF ReadCounter, HoldsPin
  <2> QED
    BY <1>3, <2>1, <2>2 DEF Apart
<1>6. GoOn(r, State(r)) /\ UNCHANGED <<now, rowVars, wrong>>
  BY DEF ReadCounter
<1> QED
  BY <1>3, <1>4, <1>5, <1>6, GoOnKeepsInv

\* The steps of a page that is asked for.
LEMMA BeginAdmissionKeepsInv ==
  ASSUME IInv, NEW r \in Requests, BeginAdmission(r)
  PROVE  IInv'
<1> DEFINE state == [step |-> "asking", at |-> now]
<1>1. state.step = "asking" /\ Fits(state)
  <2>1. now \in Nat
    BY DEF IInv, PinInv, RowsOK
  <2> QED
    BY <2>1, PinAssumption DEF Fits, Asking, InTime
<1>2. GoOn(r, state) /\ UNCHANGED <<now, rowVars, wrong>>
  BY DEF BeginAdmission
<1>3. \A s \in Requests : Apart(state, tx[s]) /\ Apart(tx[s], state)
  BY <1>1, HoldsNothing
<1> QED
  BY <1>1, <1>2, <1>3, GoOnKeepsInv

LEMMA FindUnlockKeepsInv ==
  ASSUME IInv, NEW r \in Requests, NEW u \in unlocks, FindUnlock(r, u)
  PROVE  IInv'
<1> DEFINE state == [step |-> "found", unlock |-> u, at |-> tx[r].at]
<1>1. tx[r] \in Asking /\ InTime(tx[r])
  <2>1. tx[r].step = "asking" /\ Fits(tx[r])
    BY DEF FindUnlock, IInv, TxFit
  <2> QED
    BY <2>1 DEF Fits, Idle, Began, Counting, Admitted
<1>2. u \in Unlock
  BY DEF IInv, PinInv, RowsOK
<1>3. state.step = "found" /\ Fits(state)
  BY <1>1, <1>2 DEF Fits, Admitted, Asking, InTime, FindUnlock
<1>4. GoOn(r, state) /\ UNCHANGED <<now, rowVars, wrong>>
  BY DEF FindUnlock
<1>5. \A s \in Requests : Apart(state, tx[s]) /\ Apart(tx[s], state)
  BY <1>3, HoldsNothing
<1> QED
  BY <1>3, <1>4, <1>5, GoOnKeepsInv

LEMMA ConfirmDeviceKeepsInv ==
  ASSUME IInv, NEW r \in Requests, ConfirmDevice(r)
  PROVE  IInv'
<1>1. CASE Refuse(r)
  BY <1>1, RefuseKeepsInv
<1>2. CASE /\ tx[r].unlock.device \notin revoked
           /\ GoOn(r, [tx[r] EXCEPT !.step = "granted"])
           /\ UNCHANGED <<now, rowVars, wrong>>
  <2> DEFINE state == [tx[r] EXCEPT !.step = "granted"]
  <2>1. tx[r] \in Admitted /\ InTime(tx[r]) /\ tx[r].at < tx[r].unlock.expires
    <3>1. tx[r].step = "found" /\ Fits(tx[r])
      BY DEF ConfirmDevice, IInv, TxFit
    <3> QED
      BY <3>1 DEF Fits, Idle, Began, Counting, Asking
  <2>2. /\ state \in Admitted /\ state.step = "granted"
        /\ state.unlock = tx[r].unlock /\ state.at = tx[r].at
    BY <2>1 DEF Admitted
  <2>3. Fits(state)
    BY <2>1, <2>2 DEF Fits, InTime
  <2>4. \A s \in Requests \ {r} : Apart(state, tx[s]) /\ Apart(tx[s], state)
    BY <2>2 DEF ConfirmDevice, Holds, Apart
  <2> QED
    BY <1>2, <2>2, <2>3, <2>4, GoOnKeepsInv
<1> QED
  BY <1>1, <1>2 DEF ConfirmDevice

\* What changes a row and no request: the rows, the history and the device of a page
\* that is admitted are all that is left to look at.
LEMMA RowsChangeKeepsInv ==
  ASSUME IInv, UNCHANGED <<now, tx>>,
         RowsOK', CountersFit', ReadIsCurrent', GrantedStands', WrongFit'
  PROVE  IInv'
<1>1. TxFit'
  BY DEF IInv, TxFit, Fits, InTime
<1>2. RowsHeldApart'
  BY DEF IInv, RowsHeldApart, Apart
<1> QED
  BY <1>1, <1>2 DEF IInv, PinInv

\* A counter that is cleared by somebody when no request holds it.
LEMMA ClearKeepsInv ==
  ASSUME IInv, NEW k \in Pins, UNCHANGED <<now, tx, revoked, unlocks>>,
         access' \subseteq ChildPins,
         counter' = [counter EXCEPT ![k] = Fresh],
         wrong' = [wrong EXCEPT ![k] = <<>>],
         \A r \in Requests : tx[r].step = "pin" => tx[r].pin # k
  PROVE  IInv'
<1>1. counter \in [Pins -> Counter] /\ wrong \in [Pins -> Seq(Nat)]
  BY DEF IInv, PinInv, RowsOK
<1>2. /\ counter'[k] = Fresh /\ wrong'[k] = <<>>
      /\ \A p \in Pins \ {k} : counter'[p] = counter[p] /\ wrong'[p] = wrong[p]
  BY <1>1
<1>3. RowsOK'
  <2>1. counter' \in [Pins -> Counter]
    BY <1>1, FreshFits
  <2>2. wrong' \in [Pins -> Seq(Nat)]
    BY <1>1
  <2> QED
    BY <2>1, <2>2 DEF IInv, PinInv, RowsOK
<1>4. CountersFit'
  <2>1. CountersFit /\ now \in Nat
    BY DEF IInv, PinInv, RowsOK
  <2>2. Fresh.failed <= Limit /\ (Fresh.locked <=> Fresh.failed = Limit) /\ ~Fresh.locked
    BY PinAssumption, FreshFits
  <2> QED
    BY <1>2, <2>1, <2>2 DEF CountersFit
<1>5. ReadIsCurrent'
  <2>1. \A r \in Requests : tx[r].step = "pin" => tx[r].pin \in Pins \ {k}
    BY DEF IInv, TxFit, Fits, Idle, Began, Counting, Asking, Admitted
  <2> QED
    BY <1>2, <2>1 DEF IInv, PinInv, ReadIsCurrent
<1>6. GrantedStands'
  BY DEF IInv, GrantedStands
<1>7. WrongFit'
  <2>1. TimesFit(wrong'[k], counter'[k], now)
    BY <1>2, FreshFits
  <2>2. \A p \in Pins : TimesFit(wrong'[p], counter'[p], now)
    BY <1>2, <2>1 DEF IInv, WrongFit
  <2> QED
    BY <2>2 DEF WrongFit, TimesFit
<1> QED
  BY <1>3, <1>4, <1>5, <1>6, <1>7, RowsChangeKeepsInv

LEMMA SetParentPinKeepsInv ==
  ASSUME IInv, SetParentPin
  PROVE  IInv'
<1>1. \A r \in Requests : tx[r].step = "pin" => tx[r].pin # Parent
  BY DEF SetParentPin, HoldsPin
<1>2. Parent \in Pins /\ access \subseteq ChildPins
  BY DEF Pins, IInv, PinInv, RowsOK
<1> QED
  BY <1>1, <1>2, ClearKeepsInv DEF SetParentPin

LEMMA SetDeviceChildAccessKeepsInv ==
  ASSUME IInv, NEW k \in ChildPins, SetDeviceChildAccess(k)
  PROVE  IInv'
<1>1. \A r \in Requests : tx[r].step = "pin" => tx[r].pin # k
  <2>1. ASSUME NEW r \in Requests, tx[r].step = "pin", tx[r].pin = k
        PROVE  FALSE
    <3>1. tx[r].device = k[1]
      <4>1. Fits(tx[r]) /\ k # Parent
        BY PinAssumption DEF IInv, TxFit
      <4> QED
        BY <2>1, <4>1 DEF Fits, Idle, Asking, Admitted
    <3> QED
      BY <2>1, <3>1 DEF SetDeviceChildAccess, Holds
  <2> QED
    BY <2>1
<1>2. k \in Pins /\ access' \subseteq ChildPins
  BY DEF Pins, IInv, PinInv, RowsOK, SetDeviceChildAccess
<1> QED
  BY <1>1, <1>2, ClearKeepsInv DEF SetDeviceChildAccess

LEMMA RevokeDeviceKeepsInv ==
  ASSUME IInv, NEW d \in Devices, RevokeDevice(d)
  PROVE  IInv'
<1>1. RowsOK' /\ CountersFit' /\ ReadIsCurrent'
  BY DEF IInv, PinInv, RowsOK, CountersFit, ReadIsCurrent, RevokeDevice
<1>2. GrantedStands'
  BY DEF IInv, GrantedStands, RevokeDevice, Shares
<1>3. WrongFit'
  BY DEF IInv, WrongFit, TimesFit, RevokeDevice
<1> QED
  BY <1>1, <1>2, <1>3, RowsChangeKeepsInv DEF RevokeDevice

LEMMA RevokeUnlockKeepsInv ==
  ASSUME IInv, NEW u \in unlocks, RevokeUnlock(u)
  PROVE  IInv'
<1>1. RowsOK' /\ CountersFit' /\ ReadIsCurrent'
  BY DEF IInv, PinInv, RowsOK, CountersFit, ReadIsCurrent, RevokeUnlock
<1>2. GrantedStands'
  BY DEF IInv, GrantedStands, RevokeUnlock
<1>3. WrongFit'
  BY DEF IInv, WrongFit, TimesFit, RevokeUnlock
<1> QED
  BY <1>1, <1>2, <1>3, RowsChangeKeepsInv DEF RevokeUnlock

\* The end of an attempt whose PIN was looked at: its counter and the times of its
\* wrong PINs are written together, and no other request had read that counter.
LEMMA WriteCounterKeepsInv ==
  ASSUME IInv, NEW r \in Requests, tx[r].step = "pin", GoOn(r, Idle),
         NEW row \in Counter, NEW times,
         counter' = [counter EXCEPT ![tx[r].pin] = row],
         wrong' = [wrong EXCEPT ![tx[r].pin] = times],
         unlocks' \subseteq Unlock,
         UNCHANGED <<now, revoked, access>>,
         row.failed <= Limit,
         row.locked <=> row.failed = Limit,
         row.locked => row.until <= now + LockTime,
         TimesFit(times, row, now)
  PROVE  IInv'
<1>1. /\ tx[r].pin \in Pins /\ tx[r].device \in Devices
      /\ tx[r].pin # Parent => tx[r].pin[1] = tx[r].device
  <2>1. Fits(tx[r])
    BY DEF IInv, TxFit
  <2> QED
    BY <2>1 DEF Fits, Idle, Began, Counting, Asking, Admitted
<1> DEFINE k == tx[r].pin
<1>2. counter \in [Pins -> Counter] /\ wrong \in [Pins -> Seq(Nat)] /\ times \in Seq(Nat)
  BY DEF IInv, PinInv, RowsOK, TimesFit
<1>3. /\ counter'[k] = row /\ wrong'[k] = times
      /\ \A p \in Pins \ {k} : counter'[p] = counter[p] /\ wrong'[p] = wrong[p]
  BY <1>1, <1>2
<1>4. /\ DOMAIN tx = Requests /\ DOMAIN tx' = Requests
      /\ tx'[r] = Idle /\ Idle.step = "idle"
      /\ \A s \in Requests \ {r} : tx'[s] = tx[s]
  BY DEF IInv, TxFit, GoOn, Idle
<1>5. RowsOK'
  <2>1. counter' \in [Pins -> Counter]
    BY <1>2
  <2>2. wrong' \in [Pins -> Seq(Nat)]
    BY <1>2
  <2> QED
    BY <2>1, <2>2 DEF IInv, PinInv, RowsOK
<1>6. CountersFit'
  BY <1>3 DEF IInv, PinInv, CountersFit
<1>7. ReadIsCurrent'
  <2>1. ASSUME NEW s \in Requests, tx'[s].step = "pin"
        PROVE  tx'[s].row = counter'[tx'[s].pin]
    <3>1. s # r /\ tx'[s] = tx[s]
      BY <1>4, <2>1
    <3>2. Apart(tx[r], tx[s])
      BY <3>1 DEF IInv, RowsHeldApart
    <3>3. tx[s].pin \in Pins /\ (tx[s].pin # Parent => tx[s].pin[1] = tx[s].device)
      <4>1. Fits(tx[s])
        BY DEF IInv, TxFit
      <4> QED
        BY <4>1, <3>1, <2>1 DEF Fits, Idle, Began, Counting, Asking, Admitted
    <3>4. tx[s].pin # k
      BY <1>1, <2>1, <3>1, <3>2, <3>3 DEF Apart
    <3>5. tx[s].row = counter[tx[s].pin]
      BY <2>1, <3>1 DEF IInv, PinInv, ReadIsCurrent
    <3> QED
      BY <1>3, <3>1, <3>3, <3>4, <3>5
  <2> QED
    BY <2>1 DEF ReadIsCurrent
<1>8. TxFit'
  <2>1. \A s \in Requests : Fits(tx'[s])
    BY <1>4 DEF IInv, TxFit, Fits
  <2> QED
    BY <1>4, <2>1 DEF TxFit, Fits, InTime
<1>9. RowsHeldApart'
  <2>1. \A s \in Requests : Apart(Idle, tx[s]) /\ Apart(tx[s], Idle)
    BY <1>4, HoldsNothing
  <2>2. ASSUME NEW a \in Requests, NEW b \in Requests, a # b
        PROVE  Apart(tx'[a], tx'[b])
    BY <1>4, <2>1, <2>2 DEF IInv, RowsHeldApart
  <2> QED
    BY <2>2 DEF RowsHeldApart, Apart
<1>10. GrantedStands'
  BY <1>4 DEF IInv, GrantedStands
<1>11. WrongFit'
  <2>1. \A p \in Pins : TimesFit(wrong'[p], counter'[p], now)
    BY <1>3 DEF IInv, WrongFit
  <2> QED
    BY <2>1 DEF WrongFit, TimesFit
<1> QED
  BY <1>5, <1>6, <1>7, <1>8, <1>9, <1>10, <1>11 DEF IInv, PinInv

\* One more wrong PIN, at the moment: a counter that has counted it, and whose lock
\* lasts from when its request began, fits the times with that moment added.
LEMMA AppendFits ==
  ASSUME now \in Nat, NEW times, NEW old, NEW row, NEW at \in Nat, now <= at + MaxDelay,
         TimesFit(times, old, now),
         row.failed \in Nat, Len(times) + 1 <= row.failed,
         row.locked => row.until = at + LockTime
  PROVE  TimesFit(Append(times, now), row, now)
<1> USE PinAssumption, DelayAssumption
<1> DEFINE n == Len(times)
<1>1. times \in Seq(Nat) /\ n \in Nat
  BY DEF TimesFit
<1>2. SUFFICES ASSUME NEW added, added = Append(times, now)
               PROVE  TimesFit(added, row, now)
  OBVIOUS
<1>3. /\ added \in Seq(Nat) /\ Len(added) = n + 1
      /\ added[n + 1] = now
      /\ \A i \in 1..n : added[i] = times[i]
  BY <1>1, <1>2
<1> HIDE DEF n
<1>4. \A i \in 1..(n + 1) : i \in 1..n \/ i = n + 1
  BY <1>1
<1>5. \A i \in 1..n : /\ times[i] \in Nat /\ times[i] <= now
                      /\ now - times[i] < LockTime - MaxDelay
  BY <1>1 DEF TimesFit, n
<1>6. \A i \in 1..(n + 1) : added[i] \in Nat /\ added[i] <= now
  <2>1. added[n + 1] \in Nat /\ added[n + 1] <= now
    BY <1>3
  <2>2. \A i \in 1..n : added[i] \in Nat /\ added[i] <= now
    BY <1>3, <1>5
  <2> QED
    BY <1>4, <2>1, <2>2
<1>7. \A i \in 1..(n + 1) : now - added[i] < LockTime - MaxDelay
  <2>1. now - now < LockTime - MaxDelay
    OBVIOUS
  <2> QED
    BY <1>3, <1>4, <1>5, <2>1
<1>8. ASSUME NEW i \in 1..(n + 1), row.locked
      PROVE  added[i] + LockTime <= row.until + MaxDelay
  <2>1. \A t \in Nat : t <= now => t + LockTime <= (at + LockTime) + MaxDelay
    OBVIOUS
  <2>2. added[i] \in Nat /\ added[i] <= now
    BY <1>6
  <2>3. row.until = at + LockTime
    BY <1>8
  <2> QED
    BY <2>1, <2>2, <2>3
<1>9. ASSUME NEW i \in 1..(n + 1), NEW j \in 1..(n + 1), i <= j
      PROVE  added[i] <= added[j]
  <2>1. CASE j = n + 1
    BY <1>3, <1>6, <2>1
  <2>2. CASE j \in 1..n
    <3>1. i \in 1..n
      BY <1>1, <1>9, <2>2
    <3>2. times[i] <= times[j]
      BY <1>9, <2>2, <3>1 DEF TimesFit, n
    <3> QED
      BY <1>3, <2>2, <3>1, <3>2
  <2> QED
    BY <1>4, <2>1, <2>2
<1>10. Len(added) <= row.failed
  BY <1>3 DEF n
<1> QED
  BY <1>3, <1>6, <1>7, <1>8, <1>9, <1>10 DEF TimesFit

\* What a wrong PIN makes of its counter when no lock lasts: it goes on, or begins
\* again when a lock is over.
LEMMA WrongCounted ==
  ASSUME NEW old \in Counter, NEW at \in Nat, ~IsLocked(old, at),
         old.failed <= Limit, old.locked <=> old.failed = Limit
  PROVE  LET row == AfterWrong(old, at)
         IN  /\ row \in Counter /\ row.failed \in Nat
             /\ row.failed = IF old.locked THEN 1 ELSE old.failed + 1
             /\ row.failed <= Limit
             /\ row.locked <=> row.failed = Limit
             /\ row.locked => row.until = at + LockTime
<1> USE PinAssumption
<1> DEFINE failed == IF LockIsOver(old, at) THEN 1 ELSE old.failed + 1
<1>1. old.failed \in Nat /\ old.until \in Nat /\ at + LockTime \in Nat
  BY DEF Counter
<1>2. LockIsOver(old, at) <=> old.locked
  BY <1>1 DEF LockIsOver, IsLocked
<1>3. /\ failed \in Nat /\ failed <= Limit
      /\ failed = IF old.locked THEN 1 ELSE old.failed + 1
  BY <1>1, <1>2
<1>4. AfterWrong(old, at) = IF failed >= Limit
        THEN [failed |-> failed, locked |-> TRUE, until |-> at + LockTime]
        ELSE [failed |-> failed, locked |-> FALSE, until |-> 0]
  BY DEF AfterWrong
<1> HIDE DEF failed
<1>5. CASE failed >= Limit
  BY <1>1, <1>3, <1>4, <1>5 DEF Counter
<1>6. CASE ~(failed >= Limit)
  BY <1>1, <1>3, <1>4, <1>6 DEF Counter
<1> QED
  BY <1>5, <1>6

\* A wrong PIN.  When the lock before it is over, the wrong PINs before that lock are
\* too long ago to be remembered: the counter that starts again has counted them all.
LEMMA CountWrongKeepsInv ==
  ASSUME IInv, NEW r \in Requests, CountWrong(r)
  PROVE  IInv'
<1> USE PinAssumption
<1> DEFINE k == tx[r].pin
           at == tx[r].at
           old == counter[k]
           row == AfterWrong(old, at)
           times == wrong[k]
<1>1. /\ tx[r].step = "pin" /\ k \in Pins /\ at \in Nat /\ at <= now /\ now <= at + MaxDelay
      /\ tx[r].row = old
  <2>1. tx[r].step = "pin" /\ Fits(tx[r])
    BY DEF CountWrong, IInv, TxFit
  <2>2. tx[r].row = old
    BY <2>1 DEF IInv, PinInv, ReadIsCurrent
  <2> QED
    BY <2>1, <2>2 DEF Fits, Idle, Began, Counting, Asking, Admitted, InTime
<1>2. /\ now \in Nat /\ old \in Counter /\ old.failed \in Nat /\ old.until \in Nat
      /\ old.failed <= Limit /\ (old.locked <=> old.failed = Limit)
      /\ TimesFit(times, old, now)
  BY <1>1 DEF IInv, PinInv, RowsOK, CountersFit, WrongFit, Counter
<1>3. ~IsLocked(old, at)
  BY <1>1 DEF CountWrong
<1>4. /\ row \in Counter /\ row.failed \in Nat
      /\ row.failed = IF old.locked THEN 1 ELSE old.failed + 1
      /\ row.failed <= Limit
      /\ row.locked <=> row.failed = Limit
      /\ row.locked => row.until = at + LockTime
  BY <1>1, <1>2, <1>3, WrongCounted
<1>5. /\ counter' = [counter EXCEPT ![tx[r].pin] = row]
      /\ wrong' = [wrong EXCEPT ![tx[r].pin] = Append(times, now)]
      /\ GoOn(r, Idle) /\ UNCHANGED <<now, revoked, access, unlocks>>
  BY <1>1 DEF CountWrong
<1>6. unlocks' \subseteq Unlock
  BY <1>5 DEF IInv, PinInv, RowsOK
<1> HIDE DEF row, old, times, at
<1>7. times \in Seq(Nat) /\ Len(times) \in Nat /\ Len(times) <= old.failed
  BY <1>2 DEF TimesFit
<1>8. Len(times) + 1 <= row.failed
  <2>1. CASE old.locked
    <3>1. old.until <= at
      BY <1>1, <1>2, <1>3, <2>1 DEF IsLocked
    <3>2. ASSUME Len(times) # 0
          PROVE  FALSE
      <4>1. 1 \in 1..Len(times) /\ times[1] \in Nat
        BY <1>7, <3>2
      <4>2. /\ now - times[1] < LockTime - MaxDelay
            /\ times[1] + LockTime <= old.until + MaxDelay
        BY <1>2, <2>1, <4>1 DEF TimesFit
      <4> QED
        BY <1>1, <1>2, <3>1, <4>1, <4>2
    <3> QED
      BY <1>4, <2>1, <3>2
  <2>2. CASE ~old.locked
    BY <1>2, <1>4, <1>7, <2>2
  <2> QED
    BY <2>1, <2>2
<1>9. TimesFit(Append(times, now), row, now)
  BY <1>1, <1>2, <1>4, <1>8, AppendFits
<1>10. row.locked => row.until <= now + LockTime
  BY <1>1, <1>2, <1>4
<1> QED
  BY <1>1, <1>4, <1>5, <1>6, <1>9, <1>10, WriteCounterKeepsInv

\* A right PIN clears its counter; that of the parent adds an unlock.
LEMMA AcceptRightKeepsInv ==
  ASSUME IInv, NEW r \in Requests, AcceptRight(r)
  PROVE  IInv'
<1> USE PinAssumption
<1>1. tx[r].step = "pin" /\ tx[r].device \in Devices /\ tx[r].at \in Nat
  <2>1. tx[r].step = "pin" /\ Fits(tx[r])
    BY DEF AcceptRight, IInv, TxFit
  <2> QED
    BY <2>1 DEF Fits, Idle, Began, Counting, Asking, Admitted
<1>2. unlocks' \subseteq Unlock
  <2>1. [device |-> tx[r].device, expires |-> tx[r].at + Lifetime] \in Unlock
    BY <1>1 DEF Unlock
  <2> QED
    BY <2>1 DEF AcceptRight, IInv, PinInv, RowsOK
<1>3. /\ Fresh \in Counter /\ Fresh.failed <= Limit /\ ~Fresh.locked
      /\ (Fresh.locked <=> Fresh.failed = Limit) /\ TimesFit(<<>>, Fresh, now)
  BY FreshFits
<1> QED
  BY <1>1, <1>2, <1>3, WriteCounterKeepsInv DEF AcceptRight

\* What Recent keeps of times that are in order: all but the first m, and those are
\* the old ones.
LEMMA Counted ==
  ASSUME NEW n \in Nat
  PROVE  IsFiniteSet(1..n) /\ Cardinality(1..n) = n
<1>1. Cardinality(1..n) = IF 1 > n THEN 0 ELSE n - 1 + 1
  BY FS_Interval
<1>2. IsFiniteSet(1..n)
  BY FS_Interval
<1> QED
  BY <1>1, <1>2

LEMMA RecentIsTheRest ==
  ASSUME now \in Nat, NEW times \in Seq(Nat),
         \A i, j \in 1..Len(times) : i <= j => times[i] <= times[j]
  PROVE  LET m == Cardinality(Old(times))
         IN  /\ m \in 0..Len(times)
             /\ Recent(times) = SubSeq(times, m + 1, Len(times))
             /\ \A i \in (m + 1)..Len(times) : now + 1 - times[i] < LockTime - MaxDelay
<1> USE PinAssumption
<1> DEFINE n == Len(times)
           m == Cardinality(Old(times))
<1>1. n \in Nat /\ DOMAIN times = 1..n /\ Old(times) \subseteq 1..n
  BY DEF Old
<1>2. IsFiniteSet(1..n) /\ Cardinality(1..n) = n
  BY <1>1, Counted
<1>3. IsFiniteSet(Old(times)) /\ m \in Nat /\ m <= n
  BY <1>1, <1>2, FS_Subset, FS_CardinalityType
<1>4. ASSUME NEW i \in (m + 1)..n, ~(now + 1 - times[i] < LockTime - MaxDelay)
      PROVE  FALSE
  <2>1. i \in 1..n /\ i > m
    BY <1>1, <1>3
  <2>2. ASSUME NEW j \in 1..i
        PROVE  j \in Old(times)
    <3>1. j \in 1..n /\ j <= i
      BY <1>1, <2>1
    <3>2. times[j] <= times[i] /\ times[j] \in Nat /\ times[i] \in Nat
      BY <1>1, <2>1, <3>1
    <3>3. now + 1 - times[j] >= LockTime - MaxDelay
      <4>1. now + 1 - times[i] >= LockTime - MaxDelay
        BY <1>4, <3>2
      <4> HIDE DEF n, m
      <4> QED
        BY <3>2, <4>1
    <3> QED
      BY <1>1, <3>1, <3>3 DEF Old
  <2>3. IsFiniteSet(1..i) /\ Cardinality(1..i) = i
    BY <1>1, <2>1, Counted
  <2>4. Cardinality(1..i) <= m
    <3>1. 1..i \in SUBSET Old(times)
      BY <2>2
    <3> QED
      BY <1>3, <3>1, FS_Subset
  <2> QED
    BY <1>1, <1>3, <2>1, <2>3, <2>4
<1> QED
  BY <1>1, <1>3, <1>4 DEF Recent

\* Times that fit a counter do so a moment later, when the old ones are dropped.
LEMMA RecentFits ==
  ASSUME now \in Nat, NEW times, NEW row, row.failed \in Nat, TimesFit(times, row, now)
  PROVE  TimesFit(Recent(times), row, now + 1)
<1> USE PinAssumption
<1> DEFINE n == Len(times)
           m == Cardinality(Old(times))
           s == Recent(times)
<1>1. times \in Seq(Nat) /\ n \in Nat /\ n <= row.failed
  BY DEF TimesFit
<1>2. /\ m \in 0..n /\ s = SubSeq(times, m + 1, n)
      /\ \A i \in (m + 1)..n : now + 1 - times[i] < LockTime - MaxDelay
  <2>1. \A i, j \in 1..n : i <= j => times[i] <= times[j]
    BY DEF TimesFit
  <2> QED
    BY <1>1, <2>1, RecentIsTheRest
<1> HIDE DEF m, n, s
<1>3. m \in Nat /\ m <= n /\ m + 1 \in Int /\ n \in Int
  BY <1>1, <1>2
<1>4. /\ s \in Seq(Nat) /\ Len(s) = n - m
      /\ \A i \in 1..(n - m) : s[i] = times[m + i]
  <2>1. \A i \in (m + 1)..n : times[i] \in Nat
    BY <1>1, <1>3 DEF n
  <2>2. /\ SubSeq(times, m + 1, n) \in Seq(Nat)
        /\ Len(SubSeq(times, m + 1, n)) = IF m + 1 <= n THEN n - (m + 1) + 1 ELSE 0
        /\ \A i \in 1..(n - (m + 1) + 1) : SubSeq(times, m + 1, n)[i] = times[(m + 1) + i - 1]
    BY <1>3, <2>1, SubSeqProperties
  <2>3. n - (m + 1) + 1 = n - m
    BY <1>1, <1>3
  <2>4. \A i \in 1..(n - m) : (m + 1) + i - 1 = m + i
    BY <1>1, <1>3
  <2> QED
    BY <1>1, <1>2, <1>3, <2>2, <2>3, <2>4
<1>5. \A i \in 1..(n - m) : m + i \in (m + 1)..n /\ m + i \in 1..n
  BY <1>1, <1>3
<1>6. \A i \in 1..Len(s) :
        /\ s[i] <= now + 1
        /\ now + 1 - s[i] < LockTime - MaxDelay
        /\ row.locked => s[i] + LockTime <= row.until + MaxDelay
  <2>1. \A i \in 1..n : /\ times[i] \in Nat /\ times[i] <= now
                        /\ row.locked => times[i] + LockTime <= row.until + MaxDelay
    BY <1>1 DEF TimesFit, n
  <2>2. \A i \in 1..n : times[i] <= now + 1
    BY <2>1
  <2> QED
    BY <1>2, <1>4, <1>5, <2>1, <2>2
<1>7. \A i, j \in 1..Len(s) : i <= j => s[i] <= s[j]
  <2>1. ASSUME NEW i \in 1..(n - m), NEW j \in 1..(n - m), i <= j
        PROVE  times[m + i] <= times[m + j]
    <3>1. m + i <= m + j
      BY <1>1, <1>3, <2>1
    <3>2. \A a, b \in 1..n : a <= b => times[a] <= times[b]
      BY DEF TimesFit, n
    <3> QED
      BY <1>5, <3>1, <3>2
  <2> QED
    BY <1>4, <2>1
<1>8. Len(s) <= row.failed
  BY <1>1, <1>3, <1>4
<1> QED
  BY <1>4, <1>6, <1>7, <1>8 DEF TimesFit, s

\* The clock goes on only while no request takes too long.
LEMMA TickKeepsInv ==
  ASSUME IInv, Tick
  PROVE  IInv'
<1> USE PinAssumption
<1>1. now \in Nat /\ now' = now + 1 /\ UNCHANGED <<revoked, access, counter, tx>>
  BY DEF Tick, IInv, PinInv, RowsOK
<1>2. \A k \in Pins : TimesFit(wrong'[k], counter'[k], now')
  <2>1. ASSUME NEW k \in Pins
        PROVE  TimesFit(Recent(wrong[k]), counter[k], now + 1)
    <3>1. counter[k].failed \in Nat
      BY DEF IInv, PinInv, RowsOK, Counter
    <3>2. TimesFit(wrong[k], counter[k], now)
      BY DEF IInv, WrongFit
    <3> QED
      BY <1>1, <3>1, <3>2, RecentFits
  <2>2. \A k \in Pins : wrong'[k] = Recent(wrong[k])
    BY DEF Tick
  <2> QED
    BY <1>1, <2>1, <2>2
<1>3. RowsOK'
  <2>1. wrong' \in [Pins -> Seq(Nat)]
    <3>1. \A k \in Pins : wrong'[k] \in Seq(Nat)
      BY <1>2 DEF TimesFit
    <3>2. wrong' = [k \in Pins |-> Recent(wrong[k])]
      BY DEF Tick
    <3>3. wrong' = [k \in Pins |-> wrong'[k]]
      BY <3>2
    <3> QED
      BY <3>1, <3>3
  <2>2. unlocks' \subseteq Unlock
    BY DEF Tick, IInv, PinInv, RowsOK
  <2> QED
    BY <1>1, <2>1, <2>2 DEF IInv, PinInv, RowsOK
<1>4. CountersFit'
  <2>1. \A k \in Pins : counter[k].until \in Nat
    BY DEF IInv, PinInv, RowsOK, Counter
  <2>2. \A n \in Nat : n <= now + LockTime => n <= now' + LockTime
    BY <1>1
  <2> QED
    BY <1>1, <2>1, <2>2 DEF IInv, PinInv, CountersFit
<1>5. ReadIsCurrent'
  BY <1>1 DEF IInv, PinInv, ReadIsCurrent
<1>6. TxFit'
  <2>1. ASSUME NEW r \in Requests
        PROVE  Fits(tx[r])'
    <3>1. Fits(tx[r]) /\ tx'[r] = tx[r]
      BY <1>1 DEF IInv, TxFit
    <3>2. tx[r] # Idle => now < tx[r].at + MaxDelay
      BY DEF Tick
    <3>3. InTime(tx[r]) /\ tx[r] # Idle => InTime(tx[r])'
      BY <1>1, <3>2 DEF InTime
    <3> QED
      BY <3>1, <3>3 DEF Fits
  <2> QED
    BY <1>1, <2>1 DEF IInv, TxFit
<1>7. RowsHeldApart' /\ GrantedStands'
  BY <1>1 DEF IInv, RowsHeldApart, Apart, GrantedStands
<1>8. WrongFit'
  BY <1>2 DEF WrongFit
<1> QED
  BY <1>3, <1>4, <1>5, <1>6, <1>7, <1>8 DEF IInv, PinInv

-----------------------------------------------------------------------------
(***************************************************************************)
(* Theorems.                                                               *)
(***************************************************************************)

LEMMA InitInv == Init => IInv
<1> USE PinAssumption
<1> SUFFICES ASSUME Init PROVE IInv
  OBVIOUS
<1>1. \A r \in Requests : tx[r] = Idle /\ Idle.step = "idle"
  BY DEF Init, Idle
<1>2. PinInv
  <2>1. RowsOK
    BY FreshFits DEF Init, RowsOK
  <2>2. CountersFit
    BY FreshFits DEF Init, CountersFit
  <2>3. ReadIsCurrent
    BY <1>1 DEF ReadIsCurrent
  <2> QED
    BY <2>1, <2>2, <2>3 DEF PinInv
<1>3. TxFit
  BY DEF Init, TxFit, Fits
<1>4. RowsHeldApart /\ GrantedStands
  BY <1>1 DEF RowsHeldApart, Apart, GrantedStands
<1>5. WrongFit
  BY FreshFits DEF Init, WrongFit
<1> QED
  BY <1>2, <1>3, <1>4, <1>5 DEF IInv

\* Every step, whoever takes it, keeps the invariant.
LEMMA NextKeepsInv ==
  ASSUME IInv, [Next]_vars
  PROVE  IInv'
<1>1. CASE Tick
  BY <1>1, TickKeepsInv
<1>2. ASSUME NEW r \in Requests, Attempt(r)
      PROVE  IInv'
  <2>1. ASSUME NEW d \in Devices, NEW k \in Pins, BeginAttempt(r, d, k)
        PROVE  IInv'
    BY <2>1, BeginAttemptKeepsInv
  <2>2. CASE LockDevice(r)
    BY <2>2, LockDeviceKeepsInv
  <2>3. CASE ReadCounter(r)
    BY <2>3, ReadCounterKeepsInv
  <2>4. CASE DenyChild(r) \/ RefuseLocked(r)
    BY <2>4, RefuseKeepsInv DEF DenyChild, RefuseLocked
  <2>5. CASE CountWrong(r)
    BY <2>5, CountWrongKeepsInv
  <2>6. CASE AcceptRight(r)
    BY <2>6, AcceptRightKeepsInv
  <2> QED
    BY <1>2, <2>1, <2>2, <2>3, <2>4, <2>5, <2>6 DEF Attempt
<1>3. ASSUME NEW r \in Requests, Admission(r)
      PROVE  IInv'
  <2>1. CASE BeginAdmission(r)
    BY <2>1, BeginAdmissionKeepsInv
  <2>2. ASSUME NEW u \in unlocks, FindUnlock(r, u)
        PROVE  IInv'
    BY <2>2, FindUnlockKeepsInv
  <2>3. CASE FindNone(r) \/ EndAdmission(r)
    BY <2>3, RefuseKeepsInv DEF FindNone, EndAdmission
  <2>4. CASE ConfirmDevice(r)
    BY <2>4, ConfirmDeviceKeepsInv
  <2> QED
    BY <1>3, <2>1, <2>2, <2>3, <2>4 DEF Admission
<1>4. ASSUME NEW u \in unlocks, RevokeUnlock(u)
      PROVE  IInv'
  BY <1>4, RevokeUnlockKeepsInv
<1>5. CASE SetParentPin
  BY <1>5, SetParentPinKeepsInv
<1>6. ASSUME NEW k \in ChildPins, SetDeviceChildAccess(k)
      PROVE  IInv'
  BY <1>6, SetDeviceChildAccessKeepsInv
<1>7. ASSUME NEW d \in Devices, RevokeDevice(d)
      PROVE  IInv'
  BY <1>7, RevokeDeviceKeepsInv
<1>8. CASE UNCHANGED vars
  <2>1. UNCHANGED <<now, tx, revoked, access, counter, unlocks, wrong>>
    BY <1>8 DEF vars, rowVars
  <2>2. RowsOK' /\ CountersFit' /\ ReadIsCurrent' /\ GrantedStands' /\ WrongFit'
    BY <2>1 DEF IInv, PinInv, RowsOK, CountersFit, ReadIsCurrent, GrantedStands, WrongFit
  <2> QED
    BY <2>1, <2>2, RowsChangeKeepsInv
<1> QED
  BY <1>1, <1>2, <1>3, <1>4, <1>5, <1>6, <1>7, <1>8 DEF Next

THEOREM SpecIInv == Spec => []IInv
<1>1. Init => IInv
  BY InitInv
<1>2. IInv /\ [Next]_vars => IInv'
  BY NextKeepsInv
<1> QED
  BY <1>1, <1>2, PTL DEF Spec

\* The rows have their types, a PIN is locked exactly when its counter has reached the
\* limit, and whoever checks a PIN has read the counter as it still is.
THEOREM PinInvHolds == Spec => []PinInv
<1>1. IInv => PinInv
  BY DEF IInv
<1> QED
  BY <1>1, SpecIInv, PTL

\* However many requests try a PIN at once and on however many devices, no more wrong
\* ones than the limit are looked at while a lock lasts, less the time a request takes.
THEOREM WrongPinsAreFewAlways == Spec => []WrongPinsAreFew
<1>1. IInv => WrongPinsAreFew
  <2> SUFFICES ASSUME IInv, NEW k \in Pins
               PROVE  Len(wrong[k]) <= Limit
    BY DEF WrongPinsAreFew
  <2>1. Len(wrong[k]) <= counter[k].failed /\ counter[k].failed <= Limit
    BY DEF IInv, WrongFit, TimesFit, PinInv, CountersFit
  <2>2. Len(wrong[k]) \in Nat /\ counter[k].failed \in Nat
    BY DEF IInv, PinInv, RowsOK, Counter
  <2> QED
    BY <2>1, <2>2, PinAssumption
<1> QED
  BY <1>1, SpecIInv, PTL

\* A page of the parent mode is shown only by an unlock that a PIN earned, that was not
\* over when the page was asked for, and on a device that is not revoked meanwhile.
THEOREM ParentModeIsEarnedAlways == Spec => []ParentModeIsEarned
<1>1. IInv => ParentModeIsEarned
  <2> SUFFICES ASSUME IInv, NEW r \in Requests, tx[r].step = "granted"
               PROVE  /\ tx[r].unlock.device \notin revoked
                      /\ now < tx[r].unlock.expires + MaxDelay
    BY DEF ParentModeIsEarned
  <2>1. tx[r].unlock.device \notin revoked
    BY DEF IInv, GrantedStands
  <2>2. tx[r] \in Admitted /\ InTime(tx[r]) /\ tx[r].at < tx[r].unlock.expires
    <3>1. Fits(tx[r])
      BY DEF IInv, TxFit
    <3> QED
      BY <3>1 DEF Fits, Idle, Began, Counting, Asking
  <2>3. /\ now \in Nat /\ tx[r].unlock.expires \in Nat /\ MaxDelay \in Nat
        /\ tx[r].at \in Nat /\ now <= tx[r].at + MaxDelay
    BY <2>2, PinAssumption DEF Admitted, Unlock, InTime, IInv, PinInv, RowsOK
  <2> QED
    BY <2>1, <2>2, <2>3
<1> QED
  BY <1>1, SpecIInv, PTL

\* No unlock is earned while the PIN is locked, whatever another request made of its
\* counter since this one read the clock.
THEOREM NoUnlockWhileLockedEver == Spec => NoUnlockWhileLocked
<1> DEFINE A == \A u \in unlocks' \ unlocks : ~IsLocked(counter[Parent], u.expires - Lifetime)
<1>1. IInv /\ [Next]_vars => [A]_vars
  <2> SUFFICES ASSUME IInv, [Next]_vars, NEW u \in unlocks' \ unlocks
               PROVE  ~IsLocked(counter[Parent], u.expires - Lifetime)
    OBVIOUS
  <2>1. PICK r \in Requests : AcceptRight(r)
    BY DEF Next, vars, rowVars, Tick, RevokeUnlock, SetParentPin, SetDeviceChildAccess,
           RevokeDevice, Attempt, Admission, BeginAttempt, LockDevice, ReadCounter,
           DenyChild, RefuseLocked, CountWrong, BeginAdmission, FindUnlock, FindNone,
           ConfirmDevice, EndAdmission, Refuse
  <2>2. /\ tx[r].pin = Parent
        /\ u = [device |-> tx[r].device, expires |-> tx[r].at + Lifetime]
        /\ tx[r].step = "pin" /\ ~IsLocked(tx[r].row, tx[r].at)
    BY <2>1 DEF AcceptRight
  <2>3. tx[r].row = counter[Parent]
    BY <2>2 DEF IInv, PinInv, ReadIsCurrent
  <2>4. tx[r].at \in Nat
    <3>1. Fits(tx[r])
      BY DEF IInv, TxFit
    <3> QED
      BY <2>2, <3>1 DEF Fits, Idle, Asking, Admitted, InTime
  <2>5. u.expires - Lifetime = tx[r].at
    BY <2>2, <2>4, PinAssumption
  <2> QED
    BY <2>2, <2>3, <2>5
<1> QED
  BY <1>1, SpecIInv, PTL DEF Spec, NoUnlockWhileLocked
=============================================================================
