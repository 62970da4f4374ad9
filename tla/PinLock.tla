-------------------------------- MODULE PinLock --------------------------------
(***************************************************************************)
(* The PINs of a family: the one that opens the parent mode on a device of *)
(* a child, and the one of a child on each device, with the counters that  *)
(* close them after wrong attempts, and the unlocks a right PIN earns.     *)
(*                                                                         *)
(* Source: verifyParentPin and setParentPin of                             *)
(* src/modules/families/service.ts, src/modules/devices/parent-mode-       *)
(* access.ts, and selectChild of src/modules/devices/service.ts as far as  *)
(* its PIN goes; the session it opens is in DeviceAccess.  A request reads *)
(* the clock once, before it waits for the rows it locks; its transaction  *)
(* may end later than any other that began after it.                       *)
(***************************************************************************)
EXTENDS Integers, Sequences, FiniteSets

CONSTANTS
  Requests,  \* those that can run at the same time
  Devices,
  ChildPins, \* pairs of a device and a child who may have access to it, with a PIN
  Parent,    \* names the counter of the parent's PIN
  Limit,     \* MAX_FAILED_ATTEMPTS, CHILD_PIN_FAILURE_LIMIT
  LockTime,  \* LOCK_DURATION_MS, CHILD_PIN_LOCK_MS
  Lifetime,  \* PARENT_MODE_LIFETIME_MS
  MaxDelay,  \* the longest a request takes
  MaxTime    \* bound: where the clock stops

ASSUME PinAssumption ==
  /\ Parent \notin ChildPins
  /\ \A k \in ChildPins : k[1] \in Devices
  /\ Limit \in Nat \ {0}
  /\ LockTime \in Nat /\ Lifetime \in Nat /\ MaxDelay \in Nat /\ MaxTime \in Nat

\* A lock lasts a quarter of an hour; no request takes as long.
ASSUME DelayAssumption == MaxDelay < LockTime

VARIABLES
  now,      \* the clock
  revoked,  \* the devices with revoked_at
  access,   \* device_child_access: those of ChildPins that have a row
  counter,  \* failed_attempts and locked_until of each PIN
  unlocks,  \* parent_mode_unlocks
  tx,       \* where each request is
  wrong     \* history: when the wrong PINs of the last LockTime - MaxDelay were counted

rowVars == <<revoked, access, counter, unlocks>>
vars == <<now, rowVars, tx, wrong>>

\* Each device counts the wrong PINs of a child, the family those of the parent.
Pins == {Parent} \cup ChildPins

Counter == [failed : Nat, locked : BOOLEAN, until : Nat]
Unlock  == [device : Devices, expires : Nat]

Fresh == [failed |-> 0, locked |-> FALSE, until |-> 0]
Idle  == [step |-> "idle"]

Init ==
  /\ now = 0
  /\ revoked = {}
  /\ access = ChildPins
  /\ counter = [k \in Pins |-> Fresh]
  /\ unlocks = {}
  /\ tx = [r \in Requests |-> Idle]
  /\ wrong = [k \in Pins |-> <<>>]

-----------------------------------------------------------------------------
(***************************************************************************)
(* Rows and requests.                                                      *)
(***************************************************************************)

\* Who holds the row of a device for update, for share, or the parent's PIN.
Holds(d)  == {r \in Requests : tx[r].step \in {"device", "pin"} /\ tx[r].device = d}
Shares(d) == {r \in Requests : tx[r].step = "granted" /\ tx[r].unlock.device = d}
HoldsPin  == {r \in Requests : tx[r].step = "pin" /\ tx[r].pin = Parent}

GoOn(r, state) == tx' = [tx EXCEPT ![r] = state]

Refuse(r) == GoOn(r, Idle) /\ UNCHANGED <<now, rowVars, wrong>>

\* locked_until against the clock the request read.
IsLocked(row, at)    == row.locked /\ row.until > at
LockIsOver(row, at)  == row.locked /\ row.until <= at

\* Those of a counter's times that are too long ago in a moment, and the rest: the
\* times are in order, so the old ones come first.
Old(times) == {i \in DOMAIN times : now + 1 - times[i] >= LockTime - MaxDelay}
Recent(times) == SubSeq(times, Cardinality(Old(times)) + 1, Len(times))

\* An unlock stays in its table when it is over.  The model forgets it then: no
\* request finds it any more.
Tick ==
  /\ now < MaxTime
  /\ \A r \in Requests : tx[r] # Idle => now < tx[r].at + MaxDelay
  /\ now' = now + 1
  /\ unlocks' = {u \in unlocks : u.expires > now + 1 - MaxDelay}
  /\ wrong' = [k \in Pins |-> Recent(wrong[k])]
  /\ UNCHANGED <<revoked, access, counter, tx>>

-----------------------------------------------------------------------------
(***************************************************************************)
(* A PIN is typed in on a device.                                          *)
(***************************************************************************)

BeginAttempt(r, d, k) ==
  /\ tx[r] = Idle
  /\ k # Parent => k[1] = d
  /\ GoOn(r, [step |-> "started", device |-> d, pin |-> k, at |-> now])
  /\ UNCHANGED <<now, rowVars, wrong>>

LockDevice(r) ==
  /\ tx[r].step = "started"
  /\ Holds(tx[r].device) = {} /\ Shares(tx[r].device) = {}
  /\ \/ /\ tx[r].device \notin revoked
        /\ GoOn(r, [tx[r] EXCEPT !.step = "device"])
        /\ UNCHANGED <<now, rowVars, wrong>>
     \/ /\ tx[r].device \in revoked
        /\ Refuse(r)

State(r) ==
  [step |-> "pin", device |-> tx[r].device, pin |-> tx[r].pin, at |-> tx[r].at,
   row |-> counter[tx[r].pin]]

\* Fault: the row of the parent's PIN is read without a lock.
FaultyReadCounter(r) ==
  /\ tx[r].step = "device"
  /\ tx[r].pin = Parent \/ tx[r].pin \in access
  /\ GoOn(r, State(r))
  /\ UNCHANGED <<now, rowVars, wrong>>

\* The parent's PIN has a row to lock.  That of the child is guarded by the
\* device's; without access there is none.
ReadCounter(r) ==
  /\ tx[r].step = "device"
  /\ tx[r].pin = Parent => HoldsPin = {}
  /\ tx[r].pin = Parent \/ tx[r].pin \in access
  /\ GoOn(r, State(r))
  /\ UNCHANGED <<now, rowVars, wrong>>

\* Access is missing, or no PIN was sent at all.
DenyChild(r) ==
  /\ tx[r].step = "device"
  /\ tx[r].pin # Parent
  /\ Refuse(r)

\* Fault: the first attempt after a lock is not counted.
FaultyAfterWrong(row, at) ==
  LET failed == IF LockIsOver(row, at) THEN 0 ELSE row.failed + 1
  IN  IF failed >= Limit
        THEN [failed |-> failed, locked |-> TRUE, until |-> at + LockTime]
        ELSE [failed |-> failed, locked |-> FALSE, until |-> 0]

\* A lock that is over starts the counter again, with this attempt.
AfterWrong(row, at) ==
  LET failed == IF LockIsOver(row, at) THEN 1 ELSE row.failed + 1
  IN  IF failed >= Limit
        THEN [failed |-> failed, locked |-> TRUE, until |-> at + LockTime]
        ELSE [failed |-> failed, locked |-> FALSE, until |-> 0]

\* While the lock lasts no PIN is looked at.  A wrong one counts although the
\* request is refused; a right one clears the counter, and that of the parent
\* opens the parent mode on this device.
RefuseLocked(r) ==
  /\ tx[r].step = "pin"
  /\ IsLocked(tx[r].row, tx[r].at)
  /\ Refuse(r)

CountWrong(r) ==
  /\ tx[r].step = "pin"
  /\ ~IsLocked(tx[r].row, tx[r].at)
  /\ counter' = [counter EXCEPT ![tx[r].pin] = AfterWrong(tx[r].row, tx[r].at)]
  /\ wrong' = [wrong EXCEPT ![tx[r].pin] = Append(@, now)]
  /\ GoOn(r, Idle)
  /\ UNCHANGED <<now, revoked, access, unlocks>>

AcceptRight(r) ==
  /\ tx[r].step = "pin"
  /\ ~IsLocked(tx[r].row, tx[r].at)
  /\ counter' = [counter EXCEPT ![tx[r].pin] = Fresh]
  /\ wrong' = [wrong EXCEPT ![tx[r].pin] = <<>>]
  /\ unlocks' = unlocks \cup
       (IF tx[r].pin = Parent
          THEN {[device |-> tx[r].device, expires |-> tx[r].at + Lifetime]}
          ELSE {})
  /\ GoOn(r, Idle)
  /\ UNCHANGED <<now, revoked, access>>

-----------------------------------------------------------------------------
(***************************************************************************)
(* A page of the parent mode is asked for: the unlock is found by a        *)
(* statement that then waits for the row of the device, and looks at that  *)
(* row, and no other, once more.                                           *)
(***************************************************************************)

BeginAdmission(r) ==
  /\ tx[r] = Idle
  /\ GoOn(r, [step |-> "asking", at |-> now])
  /\ UNCHANGED <<now, rowVars, wrong>>

FindUnlock(r, u) ==
  /\ tx[r].step = "asking"
  /\ u \in unlocks
  /\ u.expires > tx[r].at
  /\ u.device \notin revoked
  /\ GoOn(r, [step |-> "found", unlock |-> u, at |-> tx[r].at])
  /\ UNCHANGED <<now, rowVars, wrong>>

\* The token is of no unlock, of one that is over, or of another device.
FindNone(r) == tx[r].step = "asking" /\ Refuse(r)

\* Fault: the row of the device is not locked, so nothing is looked at again.
FaultyConfirmDevice(r) ==
  /\ tx[r].step = "found"
  /\ GoOn(r, [tx[r] EXCEPT !.step = "granted"])
  /\ UNCHANGED <<now, rowVars, wrong>>

ConfirmDevice(r) ==
  /\ tx[r].step = "found"
  /\ Holds(tx[r].unlock.device) = {}
  /\ \/ /\ tx[r].unlock.device \notin revoked
        /\ GoOn(r, [tx[r] EXCEPT !.step = "granted"])
        /\ UNCHANGED <<now, rowVars, wrong>>
     \/ /\ tx[r].unlock.device \in revoked
        /\ Refuse(r)

EndAdmission(r) == tx[r].step = "granted" /\ Refuse(r)

\* The parent mode is left: its unlock is deleted.
RevokeUnlock(u) ==
  /\ u \in unlocks
  /\ unlocks' = unlocks \ {u}
  /\ UNCHANGED <<now, revoked, access, counter, tx, wrong>>

-----------------------------------------------------------------------------
(***************************************************************************)
(* What a guardian changes.                                                *)
(***************************************************************************)

\* A new PIN clears the counter; the unlocks that the old one earned stay.
SetParentPin ==
  /\ HoldsPin = {}
  /\ counter' = [counter EXCEPT ![Parent] = Fresh]
  /\ wrong' = [wrong EXCEPT ![Parent] = <<>>]
  /\ UNCHANGED <<now, revoked, access, unlocks, tx>>

\* The row with the child's counter is deleted with its access, and a new one
\* inserted when it comes back.
SetDeviceChildAccess(k) ==
  /\ k[1] \notin revoked
  /\ Holds(k[1]) = {} /\ Shares(k[1]) = {}
  /\ access' = IF k \in access THEN access \ {k} ELSE access \cup {k}
  /\ counter' = [counter EXCEPT ![k] = Fresh]
  /\ wrong' = [wrong EXCEPT ![k] = <<>>]
  /\ UNCHANGED <<now, revoked, unlocks, tx>>

RevokeDevice(d) ==
  /\ Holds(d) = {} /\ Shares(d) = {}
  /\ revoked' = revoked \cup {d}
  /\ UNCHANGED <<now, access, counter, unlocks, tx, wrong>>

-----------------------------------------------------------------------------

Attempt(r) ==
  \/ \E d \in Devices, k \in Pins : BeginAttempt(r, d, k)
  \/ LockDevice(r) \/ ReadCounter(r) \/ DenyChild(r)
  \/ RefuseLocked(r) \/ CountWrong(r) \/ AcceptRight(r)

Admission(r) ==
  \/ BeginAdmission(r)
  \/ \E u \in unlocks : FindUnlock(r, u)
  \/ FindNone(r) \/ ConfirmDevice(r) \/ EndAdmission(r)

Next ==
  \/ Tick
  \/ \E r \in Requests : Attempt(r) \/ Admission(r)
  \/ \E u \in unlocks : RevokeUnlock(u)
  \/ SetParentPin
  \/ \E k \in ChildPins : SetDeviceChildAccess(k)
  \/ \E d \in Devices : RevokeDevice(d)

Spec == Init /\ [][Next]_vars

-----------------------------------------------------------------------------
(***************************************************************************)
(* Properties.                                                             *)
(***************************************************************************)

\* What the tables allow.
RowsOK ==
  /\ now \in Nat
  /\ revoked \subseteq Devices /\ access \subseteq ChildPins
  /\ counter \in [Pins -> Counter]
  /\ unlocks \subseteq Unlock
  /\ wrong \in [Pins -> Seq(Nat)]

\* The counters are those of the attempts: a PIN is locked when they reached the
\* limit and only then, at most as long as a lock lasts from now.
CountersFit ==
  \A k \in Pins :
    /\ counter[k].failed <= Limit
    /\ counter[k].locked <=> counter[k].failed = Limit
    /\ counter[k].locked => counter[k].until <= now + LockTime

\* Whoever holds a counter has read what it still is: the checks of a PIN come one
\* after the other (for update in verifyParentPin, the device's row in selectChild).
ReadIsCurrent ==
  \A r \in Requests : tx[r].step = "pin" => tx[r].row = counter[tx[r].pin]

\* The rows have their types, CountersFit and ReadIsCurrent.
PinInv == RowsOK /\ CountersFit /\ ReadIsCurrent

\* After Limit wrong PINs in a row the next one is looked at only when the lock is
\* over, whatever device each is typed in on and however many at once.  The lock
\* counts from when the last of them began, not from when it was found wrong: it is
\* that much shorter.
WrongPinsAreFew ==
  \A k \in Pins : Len(wrong[k]) <= Limit

\* The parent mode is entered only by an unlock that a PIN earned no longer ago than
\* an unlock lasts, on a device that is not revoked while it is looked up.
ParentModeIsEarned ==
  \A r \in Requests : tx[r].step = "granted" =>
    /\ tx[r].unlock.device \notin revoked
    /\ now < tx[r].unlock.expires + MaxDelay

\* No unlock is earned while the PIN is locked, though the request that earns it
\* looked at the clock before the lock began.
NoUnlockWhileLocked ==
  [][\A u \in unlocks' \ unlocks : ~IsLocked(counter[Parent], u.expires - Lifetime)]_vars
=============================================================================
