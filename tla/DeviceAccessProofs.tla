-------------------------- MODULE DeviceAccessProofs --------------------------
(***************************************************************************)
(* Proofs about DeviceAccess: what a transaction has read and locked stays *)
(* as it was until the transaction ends, however the statements of others  *)
(* fall between its own.  So a device has one live session, a request is   *)
(* admitted only while all its session rests on is in place, and a code    *)
(* makes one device.                                                       *)
(***************************************************************************)
EXTENDS DeviceAccess, FiniteSetTheorems, TLAPS

-----------------------------------------------------------------------------
(***************************************************************************)
(* The inductive invariant.                                                *)
(***************************************************************************)

\* What a request knows at each of its steps.
Claiming     == [step : {"claiming", "pairing"}, code : Codes, children : SUBSET Children]
Selecting    == [step : {"selecting", "selected", "ended"}, device : Devices,
                 child : Children]
Granting     == [step : {"granting", "granted access"}, device : Devices,
                 children : SUBSET Children]
Revoking     == [step : {"revoking"}, device : Devices]
Locking      == [step : {"locking"}, child : Children, devices : SUBSET Devices]
Deactivating == [step : {"deactivating"}, child : Children]
Asking       == [step : {"found", "device", "access", "child", "granted"}, token : Tokens]

States ==
  {Idle} \cup Claiming \cup Selecting \cup Granting \cup Revoking \cup Locking
    \cup Deactivating \cup Asking

\* What a token that was used is of: a session, live or not.
Opened == [device : Devices, child : Children, live : BOOLEAN]

HasLock(r, row, mode) == [by |-> r, row |-> row, mode |-> mode] \in locks

Holding == {"selecting", "selected", "ended", "granting", "granted access", "revoking"}

\* What each step of a request may rely on.  A selection that has ended the sessions of
\* its device has locked all that are live there.
CodeHeld(r) ==
  tx[r].step \in {"claiming", "pairing"} =>
    /\ HasLock(r, CodeRow(tx[r].code), "update")
    /\ \A d \in Devices : pairedBy[d] # tx[r].code

DeviceHeld(r) ==
  /\ tx[r].step \in Holding =>
       /\ HasLock(r, DeviceRow(tx[r].device), "update")
       /\ tx[r].device \in Paired
  /\ tx[r].step \in Holding \ {"revoking"} => tx[r].device \notin revoked

SelectionFits(r) ==
  /\ tx[r].step \in {"selecting", "selected", "ended"} =>
       \A l \in locks : l.by = r => l.mode = "update"
  /\ tx[r].step \in {"selected", "ended"} => <<tx[r].device, tx[r].child>> \in access
  /\ tx[r].step = "ended" =>
       \A t \in SessionsOf(tx[r].device) : HasLock(r, SessionRow(t), "update")

ChildHeld(r) ==
  tx[r].step = "deactivating" => HasLock(r, ChildRow(tx[r].child), "update")

SessionConfirmed(r) ==
  /\ tx[r].step \in {"found", "device", "access", "child", "granted"} =>
       Session(r) \in Opened
  /\ tx[r].step \in {"device", "access", "child", "granted"} =>
       /\ HasLock(r, DeviceRow(Session(r).device), "share")
       /\ Session(r).device \notin revoked
  /\ tx[r].step \in {"access", "child", "granted"} =>
       <<Session(r).device, Session(r).child>> \in access
  /\ tx[r].step \in {"child", "granted"} =>
       /\ HasLock(r, ChildRow(Session(r).child), "share")
       /\ Session(r).child \in active
  /\ tx[r].step = "granted" =>
       /\ HasLock(r, SessionRow(tx[r].token), "share")
       /\ Session(r).live

Fits(r) ==
  /\ tx[r] \in States
  /\ CodeHeld(r) /\ DeviceHeld(r) /\ SelectionFits(r) /\ ChildHeld(r) /\ SessionConfirmed(r)

\* The locks of two requests on one row are both for share, and an idle one has none.
LocksExclude ==
  /\ \A l \in locks : l = [by |-> l.by, row |-> l.row, mode |-> l.mode]
  /\ \A l \in locks, m \in locks :
       l.row = m.row /\ l.by # m.by => l.mode = "share" /\ m.mode = "share"

LocksAreHeld == \A l \in locks : l.by \in Requests /\ tx[l.by] # Idle

SessionsFit ==
  /\ DOMAIN sessions = Tokens
  /\ \A t \in Tokens : /\ "live" \in DOMAIN sessions[t]
                       /\ sessions[t].live => sessions[t] \in Opened

\* A code that may be claimed has made no device.
CodesAreNew == \A k \in Codes : codes[k] # {} => \A d \in Devices : pairedBy[d] # k

RowsFit == RowsOK /\ LiveSessionFits /\ OneLiveSession /\ CodePairsOnce
             /\ SessionsFit /\ CodesAreNew

LocksFit == LocksExclude /\ LocksAreHeld

RequestsFit == DOMAIN tx = Requests /\ \A r \in Requests : Fits(r)

IInv == RowsFit /\ LocksFit /\ RequestsFit

-----------------------------------------------------------------------------
(***************************************************************************)
(* Rows and locks.                                                         *)
(***************************************************************************)

\* An unused token is live on no device, and differs from every session.
LEMMA UnusedIsNone ==
  /\ "live" \in DOMAIN Unused /\ ~Unused.live
  /\ Unused \notin Opened
<1>1. DOMAIN Unused = {"device", "live"}
  BY DEF Unused
<1>2. \A s \in Opened : "child" \in DOMAIN s
  BY DEF Opened
<1>3. "live" \in DOMAIN Unused /\ ~Unused.live
  BY DEF Unused
<1> QED
  BY <1>1, <1>2, <1>3

\* What the end of some sessions leaves of each.
LEMMA EndedKeeps ==
  ASSUME SessionsFit, NEW ts, NEW t \in Tokens
  PROVE  /\ sessions[t] \in Opened =>
              /\ Ended(ts)[t] \in Opened
              /\ Ended(ts)[t].device = sessions[t].device
              /\ Ended(ts)[t].child = sessions[t].child
         /\ "live" \in DOMAIN Ended(ts)[t]
         /\ t \in ts => ~Ended(ts)[t].live
         /\ t \notin ts => Ended(ts)[t] = sessions[t]
<1>1. Ended(ts)[t] = IF t \in ts THEN [sessions[t] EXCEPT !.live = FALSE] ELSE sessions[t]
  BY DEF Ended
<1>2. "live" \in DOMAIN sessions[t]
  BY DEF SessionsFit
<1>3. CASE t \notin ts
  BY <1>1, <1>2, <1>3
<1>4. CASE t \in ts
  <2> DEFINE e == [sessions[t] EXCEPT !.live = FALSE]
  <2>1. "live" \in DOMAIN e /\ ~e.live
    BY <1>2
  <2>2. sessions[t] \in Opened =>
          e \in Opened /\ e.device = sessions[t].device /\ e.child = sessions[t].child
    BY DEF Opened
  <2> QED
    BY <1>1, <1>4, <2>1, <2>2
<1> QED
  BY <1>3, <1>4

\* The step of a request tells what it knows.
LEMMA StepTellsState ==
  ASSUME NEW x \in States
  PROVE  /\ x.step = "idle" => x = Idle
         /\ x.step \in {"claiming", "pairing"} => x \in Claiming
         /\ x.step \in {"selecting", "selected", "ended"} => x \in Selecting
         /\ x.step \in {"granting", "granted access"} => x \in Granting
         /\ x.step \in {"revoking"} => x \in Revoking
         /\ x.step \in {"locking"} => x \in Locking
         /\ x.step \in {"deactivating"} => x \in Deactivating
         /\ x.step \in {"found", "device", "access", "child", "granted"} => x \in Asking
<1>1. Idle.step = "idle"
  BY DEF Idle
<1>2. /\ \A y \in Claiming : y.step \in {"claiming", "pairing"}
      /\ \A y \in Selecting : y.step \in {"selecting", "selected", "ended"}
      /\ \A y \in Granting : y.step \in {"granting", "granted access"}
      /\ \A y \in Revoking : y.step \in {"revoking"}
      /\ \A y \in Locking : y.step \in {"locking"}
      /\ \A y \in Deactivating : y.step \in {"deactivating"}
      /\ \A y \in Asking : y.step \in {"found", "device", "access", "child", "granted"}
  BY DEF Claiming, Selecting, Granting, Revoking, Locking, Deactivating, Asking
<1>3. CASE x = Idle
  BY <1>1, <1>3
<1>4. CASE x \in Claiming
  <2>1. x.step \in {"claiming", "pairing"}
    BY <1>2, <1>4
  <2> QED
    BY <2>1, <1>4
<1>5. CASE x \in Selecting
  <2>1. x.step \in {"selecting", "selected", "ended"}
    BY <1>2, <1>5
  <2> QED
    BY <2>1, <1>5
<1>6. CASE x \in Granting
  <2>1. x.step \in {"granting", "granted access"}
    BY <1>2, <1>6
  <2> QED
    BY <2>1, <1>6
<1>7. CASE x \in Revoking
  <2>1. x.step \in {"revoking"}
    BY <1>2, <1>7
  <2> QED
    BY <2>1, <1>7
<1>8. CASE x \in Locking
  <2>1. x.step \in {"locking"}
    BY <1>2, <1>8
  <2> QED
    BY <2>1, <1>8
<1>9. CASE x \in Deactivating
  <2>1. x.step \in {"deactivating"}
    BY <1>2, <1>9
  <2> QED
    BY <2>1, <1>9
<1>10. CASE x \in Asking
  <2>1. x.step \in {"found", "device", "access", "child", "granted"}
    BY <1>2, <1>10
  <2> QED
    BY <2>1, <1>10
<1> QED
  BY <1>3, <1>4, <1>5, <1>6, <1>7, <1>8, <1>9, <1>10 DEF States

\* A row that one request holds for update is held by no other.
LEMMA UpdateExcludes ==
  ASSUME LocksExclude, NEW r, NEW s, r # s, NEW row, HasLock(r, row, "update")
  PROVE  ~HasLock(s, row, "share") /\ ~HasLock(s, row, "update")
BY DEF LocksExclude, HasLock

\* Nor is one that another may lock for update.
LEMMA MayLockExcludes ==
  ASSUME NEW r, NEW s, r # s, NEW rows, NEW row \in rows, MayLock(r, rows, "update")
  PROVE  ~HasLock(s, row, "share") /\ ~HasLock(s, row, "update")
BY DEF MayLock, HasLock

\* The locks of a request that locks rows it may lock.
LEMMA LockAdds ==
  ASSUME LocksExclude, NEW r \in Requests, NEW rows, NEW mode,
         MayLock(r, rows, mode), Lock(r, rows, mode)
  PROVE  /\ LocksExclude'
         /\ \A row \in rows : HasLock(r, row, mode)'
         /\ \A row, m : HasLock(r, row, m) => HasLock(r, row, m)'
         /\ \A l \in locks' : l.by # r => l \in locks
         /\ \A l \in locks' : l.by = r => l \in locks \/ l.mode = mode
         /\ \A l \in locks : l \in locks'
<1> DEFINE new == {[by |-> r, row |-> x, mode |-> mode] : x \in rows}
<1>1. locks' = locks \cup new
  BY DEF Lock
<1>2. \A l \in new : /\ l.by = r /\ l.row \in rows /\ l.mode = mode
                     /\ l = [by |-> l.by, row |-> l.row, mode |-> l.mode]
  OBVIOUS
<1> HIDE DEF new
<1>3. LocksExclude'
  <2>0. \A l \in locks' : l = [by |-> l.by, row |-> l.row, mode |-> l.mode]
    BY <1>1, <1>2 DEF LocksExclude
  <2> SUFFICES ASSUME NEW l \in locks', NEW m \in locks', l.row = m.row, l.by # m.by
               PROVE  l.mode = "share" /\ m.mode = "share"
    BY <2>0 DEF LocksExclude
  <2>1. CASE l \in locks /\ m \in locks
    BY <2>1 DEF LocksExclude
  <2>2. CASE l \in new /\ m \in locks
    BY <1>2, <2>2 DEF MayLock
  <2>3. CASE l \in locks /\ m \in new
    BY <1>2, <2>3 DEF MayLock
  <2>4. CASE l \in new /\ m \in new
    BY <1>2, <2>4
  <2> QED
    BY <1>1, <2>1, <2>2, <2>3, <2>4
<1>4. \A row \in rows : HasLock(r, row, mode)'
  <2>1. \A row \in rows : [by |-> r, row |-> row, mode |-> mode] \in new
    BY DEF new
  <2> QED
    BY <1>1, <2>1 DEF HasLock
<1> QED
  BY <1>1, <1>2, <1>3, <1>4 DEF HasLock

-----------------------------------------------------------------------------
(***************************************************************************)
(* The steps of one request, as the others see them.                       *)
(***************************************************************************)

\* The rows that a request holds stay as they were: what it may rely on stays so.
LEMMA HeldRowsStay ==
  ASSUME IInv, NEW s \in Requests, tx'[s] = tx[s],
         \A row, m : HasLock(s, row, m) => HasLock(s, row, m)',
         \A l \in locks' : l.by = s => l \in locks,
         Paired \subseteq Paired',
         \A k \in Codes : HasLock(s, CodeRow(k), "update") =>
           \A d \in Devices : pairedBy'[d] = k => pairedBy[d] = k,
         \A d \in Devices \ revoked : 
           HasLock(s, DeviceRow(d), "update") \/ HasLock(s, DeviceRow(d), "share") =>
             d \notin revoked',
         \A d \in Devices, c \in Children :
           /\ <<d, c>> \in access
           /\ HasLock(s, DeviceRow(d), "update") \/ HasLock(s, DeviceRow(d), "share")
           => <<d, c>> \in access',
         \A c \in active : HasLock(s, ChildRow(c), "share") => c \in active',
         \A t \in Tokens : sessions[t] \in Opened =>
           /\ sessions'[t] \in Opened
           /\ sessions'[t].device = sessions[t].device
           /\ sessions'[t].child = sessions[t].child
           /\ sessions[t].live /\ HasLock(s, SessionRow(t), "share") => sessions'[t].live,
         \A d \in Devices : HasLock(s, DeviceRow(d), "update") =>
           SessionsOf(d)' \subseteq SessionsOf(d)
  PROVE  Fits(s)'
<1>1. Fits(s)
  BY DEF IInv, RequestsFit
<1>2. (tx[s] \in States)'
  BY <1>1 DEF Fits, States, Idle, Claiming, Selecting, Granting, Revoking, Locking,
              Deactivating, Asking
<1>3. CodeHeld(s)'
  <2>1. tx[s].step \in {"claiming", "pairing"} => tx[s].code \in Codes
    BY <1>1, StepTellsState DEF Fits, Claiming
  <2> QED
    BY <1>1, <2>1 DEF Fits, CodeHeld
<1>4. tx[s].step \in Holding => tx[s].device \in Devices
  <2>1. tx[s] \in States
    BY <1>1 DEF Fits
  <2> QED
    BY <2>1, StepTellsState DEF Selecting, Granting, Revoking, Holding
<1>5. DeviceHeld(s)'
  BY <1>1, <1>4 DEF Fits, DeviceHeld
<1>6. SelectionFits(s)'
  <2>1. tx[s].step \in {"selecting", "selected", "ended"} =>
          /\ tx[s].device \in Devices /\ tx[s].child \in Children
          /\ HasLock(s, DeviceRow(tx[s].device), "update")
    BY <1>1, StepTellsState DEF Fits, Selecting, DeviceHeld, Holding
  <2> QED
    BY <1>1, <2>1 DEF Fits, SelectionFits
<1>7. ChildHeld(s)'
  BY <1>1 DEF Fits, ChildHeld
<1>8. SessionConfirmed(s)'
  <2>1. CASE tx[s].step \notin {"found", "device", "access", "child", "granted"}
    BY <2>1 DEF SessionConfirmed
  <2>2. CASE tx[s].step \in {"found", "device", "access", "child", "granted"}
    <3>1. tx[s].token \in Tokens /\ Session(s) \in Opened
      <4>1. tx[s].token \in Tokens
        BY <1>1, <2>2, StepTellsState DEF Fits, Asking
      <4> QED
        BY <1>1, <2>2, <4>1 DEF Fits, SessionConfirmed
    <3>2. Session(s)' = sessions'[tx[s].token]
      BY DEF Session
    <3>3. /\ Session(s)' \in Opened
          /\ Session(s)'.device = Session(s).device
          /\ Session(s)'.child = Session(s).child
          /\ Session(s).live /\ HasLock(s, SessionRow(tx[s].token), "share") =>
               Session(s)'.live
      BY <3>1, <3>2 DEF Session
    <3>4. Session(s).device \in Devices /\ Session(s).child \in Children
      BY <3>1 DEF Opened
    <3> QED
      BY <1>1, <3>3, <3>4 DEF Fits, SessionConfirmed
  <2> QED
    BY <2>1, <2>2
<1> QED
  BY <1>2, <1>3, <1>5, <1>6, <1>7, <1>8 DEF Fits

\* A request that goes on and writes no row.
LEMMA GoOnKeepsInv ==
  ASSUME IInv, NEW r \in Requests, NEW state, GoOn(r, state), UNCHANGED rowVars,
         LocksExclude',
         \A l \in locks' : l.by = r \/ l \in locks,
         \A l \in locks : l.by = r \/ l \in locks',
         (\E l \in locks' : l.by = r) => state # Idle,
         Fits(r)'
  PROVE  IInv'
<1>1. /\ DOMAIN tx' = Requests /\ tx'[r] = state
      /\ \A s \in Requests \ {r} : tx'[s] = tx[s]
  BY DEF IInv, RequestsFit, GoOn
<1>2. RowsFit'
  <2>1. RowsOK' /\ LiveSessionFits'
    BY DEF IInv, RowsFit, rowVars, RowsOK, LiveSessionFits, LiveSessions, Paired
  <2>2. OneLiveSession' /\ CodePairsOnce' /\ SessionsFit' /\ CodesAreNew'
    BY DEF IInv, RowsFit, rowVars, OneLiveSession, CodePairsOnce, SessionsFit,
           CodesAreNew, LiveSessions, Paired
  <2> QED
    BY <2>1, <2>2 DEF RowsFit
<1>3. LocksFit'
  <2>1. LocksAreHeld'
    BY <1>1 DEF IInv, LocksFit, LocksAreHeld
  <2> QED
    BY <2>1 DEF LocksFit
<1>4. ASSUME NEW s \in Requests \ {r}
      PROVE  Fits(s)'
  <2>1. tx'[s] = tx[s] /\ UNCHANGED <<active, codes, pairedBy, revoked, access, sessions>>
    BY <1>1 DEF rowVars
  <2>2. \A row, m : HasLock(s, row, m) => HasLock(s, row, m)'
    BY DEF HasLock
  <2>3. Paired' = Paired /\ \A d \in Devices : SessionsOf(d)' = SessionsOf(d)
    BY <2>1 DEF Paired, SessionsOf
  <2> QED
    BY <2>1, <2>2, <2>3, HeldRowsStay
<1> QED
  BY <1>1, <1>2, <1>3, <1>4 DEF IInv, RequestsFit

\* A request that ends and has written its rows.
LEMMA FinishKeepsInv ==
  ASSUME IInv, NEW r \in Requests, Finish(r), RowsFit',
         \A s \in Requests \ {r} : Fits(s)'
  PROVE  IInv'
<1>1. /\ DOMAIN tx' = Requests /\ tx'[r] = Idle
      /\ \A s \in Requests \ {r} : tx'[s] = tx[s]
      /\ locks' = {l \in locks : l.by # r}
  BY DEF IInv, RequestsFit, Finish, GoOn
<1>2. LocksFit'
  BY <1>1 DEF IInv, LocksFit, LocksExclude, LocksAreHeld
<1>3. Fits(r)'
  <2>1. tx'[r].step = "idle" /\ tx'[r] = Idle
    BY <1>1 DEF Idle
  <2> QED
    BY <2>1 DEF Fits, States, CodeHeld, DeviceHeld, SelectionFits, ChildHeld,
                SessionConfirmed, Holding
<1> QED
  BY <1>1, <1>2, <1>3 DEF IInv, RequestsFit

\* The locks of the others when a request ends.
LEMMA FinishKeepsLocks ==
  ASSUME NEW r, Finish(r), NEW s, s # r
  PROVE  /\ \A row, m : HasLock(s, row, m) => HasLock(s, row, m)'
         /\ \A l \in locks' : l.by = s => l \in locks
BY DEF Finish, HasLock

LEMMA RefuseKeepsInv ==
  ASSUME IInv, NEW r \in Requests, Refuse(r)
  PROVE  IInv'
<1>1. GoOn(r, Idle) /\ locks' = {l \in locks : l.by # r} /\ UNCHANGED rowVars
  BY DEF Refuse, Finish
<1>2. LocksExclude'
  BY <1>1 DEF IInv, LocksFit, LocksExclude
<1>3. Fits(r)'
  <2>1. tx'[r].step = "idle" /\ tx'[r] = Idle
    BY <1>1 DEF Idle, GoOn, IInv, RequestsFit
  <2> QED
    BY <2>1 DEF Fits, States, CodeHeld, DeviceHeld, SelectionFits, ChildHeld,
                SessionConfirmed, Holding
<1> QED
  BY <1>1, <1>2, <1>3, GoOnKeepsInv

\* A request that goes on without a lock more, or with one more.
LEMMA MoveKeepsInv ==
  ASSUME IInv, NEW r \in Requests, NEW state, GoOn(r, state), UNCHANGED <<rowVars, locks>>,
         state # Idle, Fits(r)'
  PROVE  IInv'
<1>1. LocksExclude'
  BY DEF IInv, LocksFit, LocksExclude
<1> QED
  BY <1>1, GoOnKeepsInv

LEMMA LockKeepsInv ==
  ASSUME IInv, NEW r \in Requests, NEW state, GoOn(r, state), UNCHANGED rowVars,
         NEW rows, NEW mode, MayLock(r, rows, mode), Lock(r, rows, mode),
         state # Idle, Fits(r)'
  PROVE  IInv'
<1>1. LocksExclude
  BY DEF IInv, LocksFit
<1>2. /\ LocksExclude'
      /\ \A l \in locks' : l.by = r \/ l \in locks
      /\ \A l \in locks : l \in locks'
  BY <1>1, LockAdds
<1> QED
  BY <1>2, GoOnKeepsInv

\* The request that has just begun has no lock yet.
LEMMA IdleHasNoLock ==
  ASSUME IInv, NEW r \in Requests, tx[r] = Idle
  PROVE  \A l \in locks : l.by # r
BY DEF IInv, LocksFit, LocksAreHeld

-----------------------------------------------------------------------------
(***************************************************************************)
(* Pairing.                                                                *)
(***************************************************************************)

\* A code that comes or goes: no request looks at it again but by its lock.
LEMMA CodeChangeKeepsInv ==
  ASSUME IInv, codes' \in [Codes -> SUBSET Children], CodesAreNew',
         UNCHANGED <<active, pairedBy, revoked, access, sessions, tx, locks>>
  PROVE  IInv'
<1>1. RowsFit'
  <2>1. RowsOK' /\ LiveSessionFits'
    BY DEF IInv, RowsFit, RowsOK, LiveSessionFits, LiveSessions, Paired
  <2>2. OneLiveSession' /\ CodePairsOnce' /\ SessionsFit'
    BY DEF IInv, RowsFit, OneLiveSession, CodePairsOnce, SessionsFit, LiveSessions, Paired
  <2> QED
    BY <2>1, <2>2 DEF RowsFit
<1>2. LocksFit'
  BY DEF IInv, LocksFit, LocksExclude, LocksAreHeld
<1>3. ASSUME NEW s \in Requests
      PROVE  Fits(s)'
  <2>1. \A row, m : HasLock(s, row, m) => HasLock(s, row, m)'
    BY DEF HasLock
  <2>2. Paired' = Paired /\ \A d \in Devices : SessionsOf(d)' = SessionsOf(d)
    BY DEF Paired, SessionsOf
  <2> QED
    BY <2>1, <2>2, HeldRowsStay
<1> QED
  BY <1>1, <1>2, <1>3 DEF IInv, RequestsFit

LEMMA CreatePairingCodeKeepsInv ==
  ASSUME IInv, NEW k \in Codes, NEW cs \in SUBSET Children, CreatePairingCode(k, cs)
  PROVE  IInv'
<1>1. codes' \in [Codes -> SUBSET Children]
  BY DEF CreatePairingCode, IInv, RowsFit, RowsOK
<1>2. CodesAreNew'
  BY DEF CreatePairingCode, IInv, RowsFit, RowsOK, CodesAreNew
<1> QED
  BY <1>1, <1>2, CodeChangeKeepsInv DEF CreatePairingCode

LEMMA ExpireCodeKeepsInv ==
  ASSUME IInv, NEW k \in Codes, ExpireCode(k)
  PROVE  IInv'
<1>1. codes' \in [Codes -> SUBSET Children]
  BY DEF ExpireCode, IInv, RowsFit, RowsOK
<1>2. CodesAreNew'
  BY DEF ExpireCode, IInv, RowsFit, RowsOK, CodesAreNew
<1> QED
  BY <1>1, <1>2, CodeChangeKeepsInv DEF ExpireCode

\* A request that claims or pairs is of the steps of no other handler.
LEMMA ClaimingFits ==
  ASSUME NEW r, (tx[r] \in Claiming)', CodeHeld(r)'
  PROVE  Fits(r)' /\ tx'[r] # Idle
<1>1. tx'[r].step \in {"claiming", "pairing"} /\ Idle.step = "idle"
  BY DEF Claiming, Idle
<1>2. (tx[r] \in States)'
  BY DEF States
<1> QED
  BY <1>1, <1>2 DEF Fits, DeviceHeld, SelectionFits, ChildHeld, SessionConfirmed, Holding

LEMMA ClaimCodeKeepsInv ==
  ASSUME IInv, NEW r \in Requests, NEW k \in Codes, ClaimCode(r, k)
  PROVE  IInv'
<1> DEFINE state == [step |-> "claiming", code |-> k, children |-> codes[k]]
<1>1. state \in Claiming /\ tx'[r] = state
  BY DEF ClaimCode, Claiming, IInv, RowsFit, RowsOK, RequestsFit, GoOn
<1>2. /\ LocksExclude
      /\ MayLock(r, {CodeRow(k)}, "update") /\ Lock(r, {CodeRow(k)}, "update")
      /\ GoOn(r, state) /\ UNCHANGED rowVars
  BY DEF ClaimCode, IInv, LocksFit
<1>3. CodeHeld(r)'
  <2>1. HasLock(r, CodeRow(k), "update")'
    BY <1>2, LockAdds
  <2>2. \A d \in Devices : pairedBy'[d] # k
    BY <1>2 DEF ClaimCode, IInv, RowsFit, CodesAreNew, rowVars
  <2>3. tx'[r].code = k
    BY <1>1
  <2> QED
    BY <2>1, <2>2, <2>3 DEF CodeHeld
<1>4. Fits(r)' /\ tx'[r] # Idle
  BY <1>1, <1>3, ClaimingFits
<1> QED
  BY <1>1, <1>2, <1>4, LockKeepsInv

LEMMA CheckCodeChildrenKeepsInv ==
  ASSUME IInv, NEW r \in Requests, CheckCodeChildren(r)
  PROVE  IInv'
<1>1. CASE Refuse(r)
  BY <1>1, RefuseKeepsInv
<1>2. CASE GoOn(r, [tx[r] EXCEPT !.step = "pairing"]) /\ UNCHANGED <<rowVars, locks>>
  <2> DEFINE state == [tx[r] EXCEPT !.step = "pairing"]
  <2>1. tx[r] \in Claiming /\ CodeHeld(r)
    BY StepTellsState DEF CheckCodeChildren, IInv, RequestsFit, Fits
  <2>2. state \in Claiming /\ state.code = tx[r].code /\ tx'[r] = state
    BY <1>2, <2>1 DEF Claiming, GoOn, IInv, RequestsFit
  <2>3. CodeHeld(r)'
    <3>1. tx[r].step = "claiming"
      BY DEF CheckCodeChildren
    <3> QED
      BY <1>2, <2>1, <2>2, <3>1 DEF CodeHeld, HasLock, rowVars
  <2>4. Fits(r)' /\ tx'[r] # Idle
    BY <2>2, <2>3, ClaimingFits
  <2> QED
    BY <1>2, <2>2, <2>4, MoveKeepsInv
<1> QED
  BY <1>1, <1>2 DEF CheckCodeChildren

\* The device of a code: nobody else has the code, as its row is locked.
LEMMA PairDeviceKeepsInv ==
  ASSUME IInv, NEW r \in Requests, NEW d \in Devices, PairDevice(r, d)
  PROVE  IInv'
<1> USE CodesAssumption
<1> DEFINE k == tx[r].code
           cs == tx[r].children
<1>1. /\ k \in Codes /\ cs \subseteq Children
      /\ HasLock(r, CodeRow(k), "update")
      /\ \A e \in Devices : pairedBy[e] # k
  <2>1. tx[r] \in Claiming /\ CodeHeld(r) /\ tx[r].step = "pairing"
    BY StepTellsState DEF PairDevice, IInv, RequestsFit, Fits
  <2> QED
    BY <2>1 DEF Claiming, CodeHeld
<1>2. /\ pairedBy[d] = "none"
      /\ codes' = [codes EXCEPT ![k] = {}]
      /\ pairedBy' = [pairedBy EXCEPT ![d] = k]
      /\ access' = access \cup ({d} \X cs)
      /\ Finish(r) /\ UNCHANGED <<active, revoked, sessions>>
  BY DEF PairDevice, Paired
<1>3. /\ RowsOK /\ LiveSessionFits /\ OneLiveSession /\ CodePairsOnce
      /\ SessionsFit /\ CodesAreNew /\ LocksExclude
  BY DEF IInv, RowsFit, LocksFit
<1>4. /\ pairedBy' \in [Devices -> Codes \cup {"none"}]
      /\ pairedBy'[d] = k
      /\ \A e \in Devices \ {d} : pairedBy'[e] = pairedBy[e]
  BY <1>1, <1>2, <1>3 DEF RowsOK
<1>5. Paired' = Paired \cup {d} /\ d \notin Paired
  BY <1>1, <1>2, <1>4 DEF Paired
<1>6. RowsFit'
  <2>1. RowsOK'
    <3>1. codes' \in [Codes -> SUBSET Children]
      BY <1>2, <1>3 DEF RowsOK
    <3>2. access' \subseteq Paired' \X Children
      BY <1>1, <1>2, <1>3, <1>5 DEF RowsOK
    <3> QED
      BY <1>2, <1>3, <1>4, <1>5, <3>1, <3>2 DEF RowsOK, LiveSessions
  <2>2. LiveSessionFits'
    BY <1>2, <1>3, <1>5 DEF LiveSessionFits, LiveSessions
  <2>3. OneLiveSession' /\ SessionsFit'
    BY <1>2, <1>3 DEF OneLiveSession, SessionsFit, LiveSessions
  <2>4. CodePairsOnce'
    BY <1>1, <1>3, <1>4, <1>5 DEF CodePairsOnce, Paired
  <2>5. CodesAreNew'
    <3>1. \A j \in Codes : codes'[j] # {} => j # k /\ codes[j] # {}
      BY <1>2, <1>3 DEF RowsOK
    <3> QED
      BY <1>3, <1>4, <3>1 DEF CodesAreNew
  <2> QED
    BY <2>1, <2>2, <2>3, <2>4, <2>5 DEF RowsFit
<1>7. ASSUME NEW s \in Requests \ {r}
      PROVE  Fits(s)'
  <2>1. tx'[s] = tx[s]
    BY <1>2 DEF Finish, GoOn, IInv, RequestsFit
  <2>2. /\ \A row, m : HasLock(s, row, m) => HasLock(s, row, m)'
        /\ \A l \in locks' : l.by = s => l \in locks
    BY <1>2, FinishKeepsLocks
  <2>3. \A j \in Codes : HasLock(s, CodeRow(j), "update") =>
          \A e \in Devices : pairedBy'[e] = j => pairedBy[e] = j
    <3>1. ~HasLock(s, CodeRow(k), "update")
      BY <1>1, <1>3, UpdateExcludes
    <3> QED
      BY <1>4, <3>1
  <2>4. \A e \in Devices : SessionsOf(e)' = SessionsOf(e)
    BY <1>2 DEF SessionsOf
  <2> QED
    BY <1>2, <1>5, <2>1, <2>2, <2>3, <2>4, HeldRowsStay
<1> QED
  BY <1>2, <1>6, <1>7, FinishKeepsInv

-----------------------------------------------------------------------------
(***************************************************************************)
(* A child is selected on a device.                                        *)
(***************************************************************************)

LEMMA SelectingFits ==
  ASSUME NEW r, (tx[r] \in Selecting)', DeviceHeld(r)', SelectionFits(r)'
  PROVE  Fits(r)' /\ tx'[r] # Idle
<1>1. tx'[r].step \in {"selecting", "selected", "ended"} /\ Idle.step = "idle"
  BY DEF Selecting, Idle
<1>2. (tx[r] \in States)'
  BY DEF States
<1> QED
  BY <1>1, <1>2 DEF Fits, CodeHeld, ChildHeld, SessionConfirmed

LEMMA LockForSelectKeepsInv ==
  ASSUME IInv, NEW r \in Requests, NEW d \in Devices, NEW c \in Children,
         LockForSelect(r, d, c)
  PROVE  IInv'
<1> DEFINE state == [step |-> "selecting", device |-> d, child |-> c]
<1>1. state \in Selecting /\ tx'[r] = state
  BY DEF LockForSelect, Selecting, IInv, RequestsFit, GoOn
<1>2. /\ LocksExclude
      /\ MayLock(r, {DeviceRow(d)}, "update") /\ Lock(r, {DeviceRow(d)}, "update")
      /\ GoOn(r, state) /\ UNCHANGED rowVars
      /\ d \in Paired \ revoked /\ tx[r] = Idle
  BY DEF LockForSelect, IInv, LocksFit
<1>3. DeviceHeld(r)'
  <2>1. HasLock(r, DeviceRow(d), "update")'
    BY <1>2, LockAdds
  <2>2. d \in Paired' \ revoked'
    BY <1>2 DEF Paired, rowVars
  <2> QED
    BY <1>1, <2>1, <2>2 DEF DeviceHeld
<1>4. SelectionFits(r)'
  <2>1. \A l \in locks' : l.by = r => l.mode = "update"
    BY <1>2, LockAdds, IdleHasNoLock
  <2> QED
    BY <1>1, <2>1 DEF SelectionFits
<1>5. Fits(r)' /\ tx'[r] # Idle
  BY <1>1, <1>3, <1>4, SelectingFits
<1> QED
  BY <1>1, <1>2, <1>5, LockKeepsInv

LEMMA CheckAccessKeepsInv ==
  ASSUME IInv, NEW r \in Requests, CheckAccess(r)
  PROVE  IInv'
<1>1. CASE Refuse(r)
  BY <1>1, RefuseKeepsInv
<1>2. CASE /\ <<tx[r].device, tx[r].child>> \in access
           /\ GoOn(r, [tx[r] EXCEPT !.step = "selected"]) /\ UNCHANGED <<rowVars, locks>>
  <2> DEFINE state == [tx[r] EXCEPT !.step = "selected"]
  <2>1. /\ tx[r] \in Selecting /\ DeviceHeld(r) /\ SelectionFits(r)
        /\ tx[r].step = "selecting"
    BY StepTellsState DEF CheckAccess, IInv, RequestsFit, Fits
  <2>2. /\ state \in Selecting /\ state.device = tx[r].device /\ state.child = tx[r].child
        /\ state.step = "selected" /\ tx'[r] = state
    BY <1>2, <2>1 DEF Selecting, GoOn, IInv, RequestsFit
  <2>3. DeviceHeld(r)'
    BY <1>2, <2>1, <2>2 DEF DeviceHeld, HasLock, Holding, Paired, rowVars
  <2>4. SelectionFits(r)'
    BY <1>2, <2>1, <2>2 DEF SelectionFits, rowVars
  <2>5. Fits(r)' /\ tx'[r] # Idle
    BY <2>2, <2>3, <2>4, SelectingFits
  <2> QED
    BY <1>2, <2>2, <2>5, MoveKeepsInv
<1> QED
  BY <1>1, <1>2 DEF CheckAccess

LEMMA EndSessionsKeepsInv ==
  ASSUME IInv, NEW r \in Requests, EndSessions(r)
  PROVE  IInv'
<1> DEFINE state == [tx[r] EXCEPT !.step = "ended"]
           rows == SessionRows(SessionsOf(tx[r].device))
<1>1. /\ LocksExclude
      /\ MayLock(r, rows, "update") /\ Lock(r, rows, "update")
      /\ GoOn(r, state) /\ UNCHANGED rowVars
  BY DEF EndSessions, IInv, LocksFit
<1>2. /\ tx[r] \in Selecting /\ DeviceHeld(r) /\ SelectionFits(r)
      /\ tx[r].step = "selected"
  BY StepTellsState DEF EndSessions, IInv, RequestsFit, Fits
<1>3. /\ state \in Selecting /\ state.device = tx[r].device /\ state.child = tx[r].child
      /\ state.step = "ended" /\ tx'[r] = state
  BY <1>1, <1>2 DEF Selecting, GoOn, IInv, RequestsFit
<1>4. /\ \A row \in rows : HasLock(r, row, "update")'
      /\ \A row, m : HasLock(r, row, m) => HasLock(r, row, m)'
      /\ \A l \in locks' : l.by = r => l \in locks \/ l.mode = "update"
  BY <1>1, LockAdds
<1>5. DeviceHeld(r)'
  BY <1>1, <1>2, <1>3, <1>4 DEF DeviceHeld, Holding, Paired, rowVars
<1>6. SelectionFits(r)'
  <2>1. \A t \in SessionsOf(tx[r].device) : SessionRow(t) \in rows
    BY DEF SessionRows
  <2>2. SessionsOf(tx[r].device)' = SessionsOf(tx[r].device)
    BY <1>1, <1>3 DEF SessionsOf, rowVars
  <2>3. (\A t \in SessionsOf(tx[r].device) : HasLock(r, SessionRow(t), "update"))'
    BY <1>4, <2>1, <2>2
  <2>4. \A l \in locks' : l.by = r => l.mode = "update"
    BY <1>2, <1>4 DEF SelectionFits
  <2>5. <<tx'[r].device, tx'[r].child>> \in access'
    BY <1>1, <1>2, <1>3 DEF SelectionFits, rowVars
  <2> QED
    BY <2>3, <2>4, <2>5 DEF SelectionFits
<1>7. Fits(r)' /\ tx'[r] # Idle
  BY <1>3, <1>5, <1>6, SelectingFits
<1> QED
  BY <1>1, <1>3, <1>7, LockKeepsInv

\* What the rows still say when some sessions end: those that are left are as they were.
LEMMA EndingKeepsRows ==
  ASSUME IInv, NEW ts, sessions' = Ended(ts)
  PROVE  /\ SessionsFit'
         /\ LiveSessions' = LiveSessions \ ts
         /\ \A t \in LiveSessions' : sessions'[t] = sessions[t]
         /\ \A d \in Devices : SessionsOf(d)' \subseteq SessionsOf(d)
         /\ OneLiveSession'
<1>1. SessionsFit /\ OneLiveSession
  BY DEF IInv, RowsFit
<1>2. \A t \in Tokens : /\ "live" \in DOMAIN sessions'[t]
                        /\ t \in ts => ~sessions'[t].live
                        /\ t \notin ts => sessions'[t] = sessions[t]
  BY <1>1, EndedKeeps
<1>3. SessionsFit'
  <2>1. DOMAIN sessions' = Tokens
    BY DEF Ended
  <2> QED
    BY <1>1, <1>2, <2>1 DEF SessionsFit
<1>4. /\ LiveSessions' = LiveSessions \ ts
      /\ \A t \in LiveSessions' : sessions'[t] = sessions[t]
  BY <1>2 DEF LiveSessions
<1>5. \A d \in Devices : SessionsOf(d)' \subseteq SessionsOf(d)
  BY <1>2 DEF SessionsOf
<1>6. OneLiveSession'
  BY <1>1, <1>4 DEF OneLiveSession
<1> QED
  BY <1>3, <1>4, <1>5, <1>6

\* The session that is opened: the device is held, so no other has been opened on it
\* since its sessions were locked, and nothing it rests on has been withdrawn.
LEMMA OpenSessionKeepsInv ==
  ASSUME IInv, NEW r \in Requests, NEW t \in Tokens, OpenSession(r, t)
  PROVE  IInv'
<1> DEFINE d == tx[r].device
           c == tx[r].child
           ended == {s \in Tokens : \E l \in locks : l.by = r /\ l.row = SessionRow(s)}
           new == [device |-> d, child |-> c, live |-> TRUE]
<1>1. /\ d \in Devices /\ c \in Children /\ d \in Paired \ revoked
      /\ <<d, c>> \in access
      /\ HasLock(r, DeviceRow(d), "update")
      /\ \A l \in locks : l.by = r => l.mode = "update"
      /\ \A s \in SessionsOf(d) : HasLock(r, SessionRow(s), "update")
  <2>1. /\ tx[r] \in Selecting /\ tx[r].step = "ended"
        /\ DeviceHeld(r) /\ SelectionFits(r)
    BY StepTellsState DEF OpenSession, IInv, RequestsFit, Fits
  <2> QED
    BY <2>1 DEF Selecting, DeviceHeld, SelectionFits, Holding
<1>2. /\ sessions[t] = Unused
      /\ sessions' = [Ended(ended) EXCEPT ![t] = new]
      /\ Finish(r) /\ UNCHANGED <<active, codes, pairedBy, revoked, access>>
  BY DEF OpenSession
<1>3. /\ RowsOK /\ LiveSessionFits /\ OneLiveSession /\ CodePairsOnce
      /\ SessionsFit /\ CodesAreNew /\ LocksExclude
  BY DEF IInv, RowsFit, LocksFit
<1>4. new \in Opened /\ new.live /\ new.device = d /\ new.child = c /\ "live" \in DOMAIN new
  BY <1>1 DEF Opened
<1>5. ended \subseteq Tokens /\ SessionsOf(d) \subseteq ended
  BY <1>1 DEF HasLock, SessionsOf
<1>6. \A s \in ended : HasLock(r, SessionRow(s), "update")
  <2>1. ASSUME NEW l \in locks, l.by = r
        PROVE  HasLock(r, l.row, "update")
    BY <1>1, <1>3, <2>1 DEF HasLock, LocksExclude
  <2> QED
    BY <2>1 DEF ended
<1> HIDE DEF new, ended
<1>7. /\ DOMAIN sessions' = Tokens
      /\ sessions'[t] = new
      /\ \A s \in Tokens \ {t} : sessions'[s] = Ended(ended)[s]
  BY <1>2 DEF Ended
<1>8. \A s \in Tokens \ {t} : /\ s \in ended => ~sessions'[s].live
                              /\ s \notin ended => sessions'[s] = sessions[s]
                              /\ "live" \in DOMAIN sessions'[s]
                              /\ sessions[s] \in Opened =>
                                   /\ sessions'[s] \in Opened
                                   /\ sessions'[s].device = sessions[s].device
                                   /\ sessions'[s].child = sessions[s].child
  BY <1>3, <1>7, EndedKeeps
<1>9. \A s \in LiveSessions' \ {t} : /\ s \in LiveSessions /\ s \notin ended
                                     /\ sessions'[s] = sessions[s]
                                     /\ sessions[s].device # d
  <2>1. \A s \in LiveSessions' \ {t} : s \in LiveSessions /\ s \notin ended
                                       /\ sessions'[s] = sessions[s]
    BY <1>8 DEF LiveSessions
  <2>2. \A s \in LiveSessions : s \notin ended => sessions[s].device # d
    BY <1>5 DEF LiveSessions, SessionsOf
  <2> QED
    BY <2>1, <2>2
<1>10. RowsFit'
  <2>1. RowsOK'
    <3>1. \A s \in LiveSessions' : sessions'[s].device \in Devices
                                   /\ sessions'[s].child \in Children
      BY <1>1, <1>3, <1>4, <1>7, <1>9 DEF RowsOK
    <3> QED
      BY <1>2, <1>3, <3>1 DEF RowsOK, Paired
  <2>2. LiveSessionFits'
    BY <1>1, <1>2, <1>3, <1>4, <1>7, <1>9 DEF LiveSessionFits, Paired
  <2>3. OneLiveSession'
    BY <1>3, <1>4, <1>7, <1>9 DEF OneLiveSession
  <2>4. CodePairsOnce' /\ CodesAreNew'
    BY <1>2, <1>3 DEF CodePairsOnce, CodesAreNew, Paired
  <2>5. SessionsFit'
    <3>1. \A s \in Tokens : "live" \in DOMAIN sessions'[s]
      BY <1>4, <1>7, <1>8
    <3>2. \A s \in Tokens : sessions'[s].live => sessions'[s] \in Opened
      BY <1>3, <1>4, <1>7, <1>8 DEF SessionsFit
    <3> QED
      BY <1>7, <3>1, <3>2 DEF SessionsFit
  <2> QED
    BY <2>1, <2>2, <2>3, <2>4, <2>5 DEF RowsFit
<1>11. ASSUME NEW s \in Requests \ {r}
       PROVE  Fits(s)'
  <2>1. tx'[s] = tx[s] /\ Paired' = Paired
    BY <1>2 DEF Finish, GoOn, IInv, RequestsFit, Paired
  <2>2. /\ \A row, m : HasLock(s, row, m) => HasLock(s, row, m)'
        /\ \A l \in locks' : l.by = s => l \in locks
    BY <1>2, FinishKeepsLocks
  <2>3. ASSUME NEW u \in Tokens, sessions[u] \in Opened
        PROVE  /\ sessions'[u] \in Opened
               /\ sessions'[u].device = sessions[u].device
               /\ sessions'[u].child = sessions[u].child
               /\ sessions[u].live /\ HasLock(s, SessionRow(u), "share") => sessions'[u].live
    <3>1. u # t
      BY <1>2, <2>3, UnusedIsNone
    <3>2. HasLock(s, SessionRow(u), "share") => u \notin ended
      BY <1>3, <1>6, UpdateExcludes
    <3>3. HasLock(s, SessionRow(u), "share") => sessions'[u] = sessions[u]
      BY <1>8, <3>1, <3>2
    <3> QED
      BY <1>8, <2>3, <3>1, <3>3
  <2>4. ASSUME NEW e \in Devices, HasLock(s, DeviceRow(e), "update")
        PROVE  SessionsOf(e)' \subseteq SessionsOf(e)
    <3>1. e # d
      BY <1>1, <1>3, <2>4, UpdateExcludes
    <3>2. ASSUME NEW u \in SessionsOf(e)'
          PROVE  u \in SessionsOf(e)
      <4>1. u \in LiveSessions' /\ sessions'[u].device = e
        BY DEF SessionsOf, LiveSessions
      <4>2. u # t
        BY <1>4, <1>7, <3>1, <4>1
      <4> QED
        BY <1>9, <4>1, <4>2 DEF LiveSessions, SessionsOf
    <3> QED
      BY <3>2
  <2> QED
    BY <1>2, <2>1, <2>2, <2>3, <2>4, HeldRowsStay
<1> QED
  BY <1>2, <1>10, <1>11, FinishKeepsInv

-----------------------------------------------------------------------------
(***************************************************************************)
(* What a guardian changes.                                                *)
(***************************************************************************)

LEMMA GrantingFits ==
  ASSUME NEW r, (tx[r] \in Granting \cup Revoking)', DeviceHeld(r)'
  PROVE  Fits(r)' /\ tx'[r] # Idle
<1>1. /\ tx'[r].step \in {"granting", "granted access", "revoking"}
      /\ Idle.step = "idle"
  BY DEF Granting, Revoking, Idle
<1>2. (tx[r] \in States)'
  BY DEF States
<1> QED
  BY <1>1, <1>2 DEF Fits, CodeHeld, SelectionFits, ChildHeld, SessionConfirmed

LEMMA LockForAccessKeepsInv ==
  ASSUME IInv, NEW r \in Requests, NEW d \in Devices, NEW cs \in SUBSET Children,
         LockForAccess(r, d, cs)
  PROVE  IInv'
<1> DEFINE state == [step |-> "granting", device |-> d, children |-> cs]
<1>1. state \in Granting /\ tx'[r] = state
  BY DEF LockForAccess, Granting, IInv, RequestsFit, GoOn
<1>2. /\ LocksExclude
      /\ MayLock(r, {DeviceRow(d)}, "update") /\ Lock(r, {DeviceRow(d)}, "update")
      /\ GoOn(r, state) /\ UNCHANGED rowVars
      /\ d \in Paired \ revoked
  BY DEF LockForAccess, IInv, LocksFit
<1>3. DeviceHeld(r)'
  <2>1. HasLock(r, DeviceRow(d), "update")'
    BY <1>2, LockAdds
  <2>2. d \in Paired' \ revoked'
    BY <1>2 DEF Paired, rowVars
  <2> QED
    BY <1>1, <2>1, <2>2 DEF DeviceHeld
<1>4. Fits(r)' /\ tx'[r] # Idle
  BY <1>1, <1>3, GrantingFits
<1> QED
  BY <1>1, <1>2, <1>4, LockKeepsInv

LEMMA ShareChildrenKeepsInv ==
  ASSUME IInv, NEW r \in Requests, ShareChildren(r)
  PROVE  IInv'
<1> DEFINE state == [tx[r] EXCEPT !.step = "granted access"]
           rows == {ChildRow(c) : c \in tx[r].children \cap active}
<1>1. CASE Refuse(r)
  BY <1>1, RefuseKeepsInv
<1>2. CASE /\ MayLock(r, rows, "share") /\ Lock(r, rows, "share")
           /\ GoOn(r, state) /\ UNCHANGED rowVars
  <2>1. tx[r] \in Granting /\ DeviceHeld(r) /\ tx[r].step = "granting"
    BY StepTellsState DEF ShareChildren, IInv, RequestsFit, Fits
  <2>2. /\ state \in Granting /\ state.device = tx[r].device
        /\ state.step = "granted access" /\ tx'[r] = state
    BY <1>2, <2>1 DEF Granting, GoOn, IInv, RequestsFit
  <2>3. \A row, m : HasLock(r, row, m) => HasLock(r, row, m)'
    BY <1>2, LockAdds DEF IInv, LocksFit
  <2>4. DeviceHeld(r)'
    BY <1>2, <2>1, <2>2, <2>3 DEF DeviceHeld, Holding, Paired, rowVars
  <2>5. Fits(r)' /\ tx'[r] # Idle
    BY <2>2, <2>4, GrantingFits
  <2> QED
    BY <1>2, <2>2, <2>5, LockKeepsInv
<1> QED
  BY <1>1, <1>2 DEF ShareChildren

\* What others rely on of the sessions: those that end were locked by none of them.
LEMMA EndingSparesOthers ==
  ASSUME IInv, NEW r \in Requests, NEW s \in Requests \ {r},
         NEW ts, MayLock(r, SessionRows(ts), "update"),
         sessions' = Ended(ts)
  PROVE  \A t \in Tokens : sessions[t] \in Opened =>
           /\ sessions'[t] \in Opened
           /\ sessions'[t].device = sessions[t].device
           /\ sessions'[t].child = sessions[t].child
           /\ sessions[t].live /\ HasLock(s, SessionRow(t), "share") => sessions'[t].live
<1> SUFFICES ASSUME NEW t \in Tokens, sessions[t] \in Opened
             PROVE  /\ sessions'[t] \in Opened
                    /\ sessions'[t].device = sessions[t].device
                    /\ sessions'[t].child = sessions[t].child
                    /\ sessions[t].live /\ HasLock(s, SessionRow(t), "share") =>
                         sessions'[t].live
  OBVIOUS
<1>1. /\ sessions'[t] \in Opened
      /\ sessions'[t].device = sessions[t].device
      /\ sessions'[t].child = sessions[t].child
      /\ t \notin ts => sessions'[t] = sessions[t]
  BY EndedKeeps DEF IInv, RowsFit
<1>2. t \in ts => ~HasLock(s, SessionRow(t), "share")
  <2>1. t \in ts => SessionRow(t) \in SessionRows(ts)
    BY DEF SessionRows
  <2> QED
    BY <2>1, MayLockExcludes
<1> QED
  BY <1>1, <1>2

\* The children of a device: whoever looks at the access of a session has the device
\* locked meanwhile.
LEMMA SetAccessKeepsInv ==
  ASSUME IInv, NEW r \in Requests, SetAccess(r)
  PROVE  IInv'
<1> DEFINE d == tx[r].device
           cs == tx[r].children
           gone == {t \in SessionsOf(d) : sessions[t].child \notin cs}
<1>1. /\ d \in Devices /\ cs \subseteq Children /\ d \in Paired \ revoked
      /\ HasLock(r, DeviceRow(d), "update")
  <2>1. tx[r] \in Granting /\ DeviceHeld(r) /\ tx[r].step = "granted access"
    BY StepTellsState DEF SetAccess, IInv, RequestsFit, Fits
  <2> QED
    BY <2>1 DEF Granting, DeviceHeld, Holding
<1>2. /\ MayLock(r, SessionRows(gone), "update")
      /\ access' = {a \in access : a[1] # d} \cup ({d} \X cs)
      /\ sessions' = Ended(gone)
      /\ Finish(r) /\ UNCHANGED <<active, codes, pairedBy, revoked>>
  BY DEF SetAccess
<1>3. /\ RowsOK /\ LiveSessionFits /\ CodePairsOnce /\ CodesAreNew /\ LocksExclude
  BY DEF IInv, RowsFit, LocksFit
<1>4. /\ SessionsFit' /\ OneLiveSession'
      /\ LiveSessions' = LiveSessions \ gone
      /\ \A t \in LiveSessions' : sessions'[t] = sessions[t]
      /\ \A e \in Devices : SessionsOf(e)' \subseteq SessionsOf(e)
  BY <1>2, EndingKeepsRows
<1>5. \A e \in Devices \ {d}, c \in Children : <<e, c>> \in access => <<e, c>> \in access'
  BY <1>2
<1>6. RowsFit'
  <2>1. RowsOK'
    <3>1. access' \subseteq Paired' \X Children
      BY <1>1, <1>2, <1>3 DEF RowsOK, Paired
    <3>2. \A t \in LiveSessions' : sessions'[t].device \in Devices
                                   /\ sessions'[t].child \in Children
      BY <1>3, <1>4 DEF RowsOK
    <3> QED
      BY <1>2, <1>3, <3>1, <3>2 DEF RowsOK, Paired
  <2>2. LiveSessionFits'
    <3>1. ASSUME NEW t \in LiveSessions'
          PROVE  /\ sessions'[t].device \in Paired' \ revoked'
                 /\ <<sessions'[t].device, sessions'[t].child>> \in access'
      <4>1. t \in LiveSessions /\ t \notin gone /\ sessions'[t] = sessions[t]
        BY <1>4
      <4>2. /\ sessions[t].device \in Paired \ revoked /\ sessions[t].device \in Devices
            /\ sessions[t].child \in Children
            /\ <<sessions[t].device, sessions[t].child>> \in access
        BY <1>3, <4>1 DEF LiveSessionFits, RowsOK
      <4>3. CASE sessions[t].device = d
        <5>1. sessions[t].child \in cs
          BY <4>1, <4>3 DEF LiveSessions, SessionsOf
        <5> QED
          BY <1>1, <1>2, <4>1, <4>3, <5>1 DEF Paired
      <4>4. CASE sessions[t].device # d
        BY <1>2, <1>5, <4>1, <4>2, <4>4 DEF Paired
      <4> QED
        BY <4>3, <4>4
    <3> QED
      BY <3>1 DEF LiveSessionFits
  <2>3. CodePairsOnce' /\ CodesAreNew'
    BY <1>2, <1>3 DEF CodePairsOnce, CodesAreNew, Paired
  <2> QED
    BY <1>4, <2>1, <2>2, <2>3 DEF RowsFit
<1>7. ASSUME NEW s \in Requests \ {r}
      PROVE  Fits(s)'
  <2>1. tx'[s] = tx[s] /\ Paired' = Paired
    BY <1>2 DEF Finish, GoOn, IInv, RequestsFit, Paired
  <2>2. /\ \A row, m : HasLock(s, row, m) => HasLock(s, row, m)'
        /\ \A l \in locks' : l.by = s => l \in locks
    BY <1>2, FinishKeepsLocks
  <2>3. ~HasLock(s, DeviceRow(d), "update") /\ ~HasLock(s, DeviceRow(d), "share")
    BY <1>1, <1>3, UpdateExcludes
  <2>4. \A t \in Tokens : sessions[t] \in Opened =>
          /\ sessions'[t] \in Opened
          /\ sessions'[t].device = sessions[t].device
          /\ sessions'[t].child = sessions[t].child
          /\ sessions[t].live /\ HasLock(s, SessionRow(t), "share") => sessions'[t].live
    BY <1>2, EndingSparesOthers
  <2>5. \A e \in Devices, c \in Children :
          /\ <<e, c>> \in access
          /\ HasLock(s, DeviceRow(e), "update") \/ HasLock(s, DeviceRow(e), "share")
          => <<e, c>> \in access'
    BY <1>5, <2>3
  <2> QED
    BY <1>2, <1>4, <2>1, <2>2, <2>4, <2>5, HeldRowsStay
<1> QED
  BY <1>2, <1>6, <1>7, FinishKeepsInv

LEMMA LockForRevokeKeepsInv ==
  ASSUME IInv, NEW r \in Requests, NEW d \in Devices, LockForRevoke(r, d)
  PROVE  IInv'
<1> DEFINE state == [step |-> "revoking", device |-> d]
<1>1. state \in Revoking /\ tx'[r] = state
  BY DEF LockForRevoke, Revoking, IInv, RequestsFit, GoOn
<1>2. /\ LocksExclude
      /\ MayLock(r, {DeviceRow(d)}, "update") /\ Lock(r, {DeviceRow(d)}, "update")
      /\ GoOn(r, state) /\ UNCHANGED rowVars
      /\ d \in Paired
  BY DEF LockForRevoke, IInv, LocksFit
<1>3. DeviceHeld(r)'
  <2>1. HasLock(r, DeviceRow(d), "update")'
    BY <1>2, LockAdds
  <2>2. d \in Paired'
    BY <1>2 DEF Paired, rowVars
  <2> QED
    BY <1>1, <2>1, <2>2 DEF DeviceHeld
<1>4. Fits(r)' /\ tx'[r] # Idle
  BY <1>1, <1>3, GrantingFits
<1> QED
  BY <1>1, <1>2, <1>4, LockKeepsInv

LEMMA RevokeDeviceKeepsInv ==
  ASSUME IInv, NEW r \in Requests, RevokeDevice(r)
  PROVE  IInv'
<1> DEFINE d == tx[r].device
           gone == SessionsOf(d)
<1>1. d \in Devices /\ d \in Paired /\ HasLock(r, DeviceRow(d), "update")
  <2>1. tx[r] \in Revoking /\ DeviceHeld(r) /\ tx[r].step = "revoking"
    BY StepTellsState DEF RevokeDevice, IInv, RequestsFit, Fits
  <2> QED
    BY <2>1 DEF Revoking, DeviceHeld, Holding
<1>2. /\ MayLock(r, SessionRows(gone), "update")
      /\ revoked' = revoked \cup {d}
      /\ sessions' = Ended(gone)
      /\ Finish(r) /\ UNCHANGED <<active, codes, pairedBy, access>>
  BY DEF RevokeDevice
<1>3. /\ RowsOK /\ LiveSessionFits /\ CodePairsOnce /\ CodesAreNew /\ LocksExclude
  BY DEF IInv, RowsFit, LocksFit
<1>4. /\ SessionsFit' /\ OneLiveSession'
      /\ LiveSessions' = LiveSessions \ gone
      /\ \A t \in LiveSessions' : sessions'[t] = sessions[t]
      /\ \A e \in Devices : SessionsOf(e)' \subseteq SessionsOf(e)
  BY <1>2, EndingKeepsRows
<1>5. RowsFit'
  <2>1. RowsOK'
    <3>1. \A t \in LiveSessions' : sessions'[t].device \in Devices
                                   /\ sessions'[t].child \in Children
      BY <1>3, <1>4 DEF RowsOK
    <3> QED
      BY <1>1, <1>2, <1>3, <3>1 DEF RowsOK, Paired
  <2>2. LiveSessionFits'
    <3>1. \A t \in LiveSessions' : t \in LiveSessions /\ sessions[t].device # d
      BY <1>4 DEF LiveSessions, SessionsOf
    <3> QED
      BY <1>2, <1>3, <1>4, <3>1 DEF LiveSessionFits, Paired
  <2>3. CodePairsOnce' /\ CodesAreNew'
    BY <1>2, <1>3 DEF CodePairsOnce, CodesAreNew, Paired
  <2> QED
    BY <1>4, <2>1, <2>2, <2>3 DEF RowsFit
<1>6. ASSUME NEW s \in Requests \ {r}
      PROVE  Fits(s)'
  <2>1. tx'[s] = tx[s] /\ Paired' = Paired
    BY <1>2 DEF Finish, GoOn, IInv, RequestsFit, Paired
  <2>2. /\ \A row, m : HasLock(s, row, m) => HasLock(s, row, m)'
        /\ \A l \in locks' : l.by = s => l \in locks
    BY <1>2, FinishKeepsLocks
  <2>3. ~HasLock(s, DeviceRow(d), "update") /\ ~HasLock(s, DeviceRow(d), "share")
    BY <1>1, <1>3, UpdateExcludes
  <2>4. \A t \in Tokens : sessions[t] \in Opened =>
          /\ sessions'[t] \in Opened
          /\ sessions'[t].device = sessions[t].device
          /\ sessions'[t].child = sessions[t].child
          /\ sessions[t].live /\ HasLock(s, SessionRow(t), "share") => sessions'[t].live
    BY <1>2, EndingSparesOthers
  <2>5. \A e \in Devices \ revoked :
          HasLock(s, DeviceRow(e), "update") \/ HasLock(s, DeviceRow(e), "share") =>
            e \notin revoked'
    BY <1>2, <2>3
  <2> QED
    BY <1>2, <1>4, <2>1, <2>2, <2>4, <2>5, HeldRowsStay
<1> QED
  BY <1>2, <1>5, <1>6, FinishKeepsInv

\* A child is deactivated: the devices are locked for the order of locks alone.
LEMMA LockingFits ==
  ASSUME NEW r, (tx[r] \in Locking \cup Deactivating)', ChildHeld(r)'
  PROVE  Fits(r)' /\ tx'[r] # Idle
<1>1. tx'[r].step \in {"locking", "deactivating"} /\ Idle.step = "idle"
  BY DEF Locking, Deactivating, Idle
<1>2. (tx[r] \in States)'
  BY DEF States
<1> QED
  BY <1>1, <1>2 DEF Fits, CodeHeld, DeviceHeld, SelectionFits, SessionConfirmed, Holding

LEMMA BeginDeactivateKeepsInv ==
  ASSUME IInv, NEW r \in Requests, NEW c \in Children, BeginDeactivate(r, c)
  PROVE  IInv'
<1> DEFINE state == [step |-> "locking", child |-> c,
                     devices |-> {d \in Devices : <<d, c>> \in access}]
<1>1. /\ state \in Locking /\ state.step = "locking" /\ tx'[r] = state
      /\ GoOn(r, state) /\ UNCHANGED <<rowVars, locks>>
  BY DEF BeginDeactivate, Locking, IInv, RequestsFit, GoOn
<1>2. Fits(r)' /\ tx'[r] # Idle
  BY <1>1, LockingFits DEF ChildHeld
<1> QED
  BY <1>1, <1>2, MoveKeepsInv

LEMMA LockNextDeviceKeepsInv ==
  ASSUME IInv, NEW r \in Requests, NEW d \in Devices, LockNextDevice(r, d)
  PROVE  IInv'
<1> DEFINE state == [tx[r] EXCEPT !.devices = @ \ {d}]
<1>1. tx[r] \in Locking
  BY StepTellsState DEF LockNextDevice, IInv, RequestsFit, Fits
<1>2. /\ MayLock(r, {DeviceRow(d)}, "update") /\ Lock(r, {DeviceRow(d)}, "update")
      /\ GoOn(r, state) /\ UNCHANGED rowVars
  BY DEF LockNextDevice
<1>3. state \in Locking /\ state.step = "locking" /\ tx'[r] = state
  BY <1>1, <1>2 DEF Locking, IInv, RequestsFit, GoOn
<1>4. Fits(r)' /\ tx'[r] # Idle
  BY <1>3, LockingFits DEF ChildHeld
<1> QED
  BY <1>2, <1>3, <1>4, LockKeepsInv

LEMMA UpdateChildKeepsInv ==
  ASSUME IInv, NEW r \in Requests, UpdateChild(r)
  PROVE  IInv'
<1> DEFINE c == tx[r].child
           state == [step |-> "deactivating", child |-> c]
<1>1. tx[r] \in Locking
  BY StepTellsState DEF UpdateChild, IInv, RequestsFit, Fits
<1>2. /\ LocksExclude
      /\ MayLock(r, {ChildRow(c)}, "update") /\ Lock(r, {ChildRow(c)}, "update")
      /\ GoOn(r, state) /\ UNCHANGED rowVars
  BY DEF UpdateChild, IInv, LocksFit
<1>3. state \in Deactivating /\ state.child = c /\ tx'[r] = state
  BY <1>1, <1>2 DEF Locking, Deactivating, IInv, RequestsFit, GoOn
<1>4. ChildHeld(r)'
  <2>1. \A row \in {ChildRow(c)} : HasLock(r, row, "update")'
    BY <1>2, LockAdds
  <2>2. ChildRow(tx'[r].child) = ChildRow(c)
    BY <1>3
  <2> QED
    BY <2>1, <2>2 DEF ChildHeld
<1>5. Fits(r)' /\ tx'[r] # Idle
  BY <1>3, <1>4, LockingFits
<1> QED
  BY <1>2, <1>3, <1>5, LockKeepsInv

LEMMA DeactivateKeepsInv ==
  ASSUME IInv, NEW r \in Requests, Deactivate(r)
  PROVE  IInv'
<1> DEFINE c == tx[r].child
           gone == SessionsOfChild(c)
<1>1. HasLock(r, ChildRow(c), "update")
  <2>1. ChildHeld(r) /\ tx[r].step = "deactivating"
    BY DEF Deactivate, IInv, RequestsFit, Fits
  <2> QED
    BY <2>1 DEF ChildHeld
<1>2. /\ MayLock(r, SessionRows(gone), "update")
      /\ active' = active \ {c}
      /\ sessions' = Ended(gone)
      /\ Finish(r) /\ UNCHANGED <<codes, pairedBy, revoked, access>>
  BY DEF Deactivate
<1>3. /\ RowsOK /\ LiveSessionFits /\ CodePairsOnce /\ CodesAreNew /\ LocksExclude
  BY DEF IInv, RowsFit, LocksFit
<1>4. /\ SessionsFit' /\ OneLiveSession'
      /\ LiveSessions' = LiveSessions \ gone
      /\ \A t \in LiveSessions' : sessions'[t] = sessions[t]
      /\ \A e \in Devices : SessionsOf(e)' \subseteq SessionsOf(e)
  BY <1>2, EndingKeepsRows
<1>5. RowsFit'
  <2>1. RowsOK'
    <3>1. \A t \in LiveSessions' : sessions'[t].device \in Devices
                                   /\ sessions'[t].child \in Children
      BY <1>3, <1>4 DEF RowsOK
    <3> QED
      BY <1>2, <1>3, <3>1 DEF RowsOK, Paired
  <2>2. LiveSessionFits'
    <3>1. \A t \in LiveSessions' : t \in LiveSessions
      BY <1>4
    <3> QED
      BY <1>2, <1>3, <1>4, <3>1 DEF LiveSessionFits, Paired
  <2>3. CodePairsOnce' /\ CodesAreNew'
    BY <1>2, <1>3 DEF CodePairsOnce, CodesAreNew, Paired
  <2> QED
    BY <1>4, <2>1, <2>2, <2>3 DEF RowsFit
<1>6. ASSUME NEW s \in Requests \ {r}
      PROVE  Fits(s)'
  <2>1. tx'[s] = tx[s] /\ Paired' = Paired
    BY <1>2 DEF Finish, GoOn, IInv, RequestsFit, Paired
  <2>2. /\ \A row, m : HasLock(s, row, m) => HasLock(s, row, m)'
        /\ \A l \in locks' : l.by = s => l \in locks
    BY <1>2, FinishKeepsLocks
  <2>3. \A e \in active : HasLock(s, ChildRow(e), "share") => e \in active'
    <3>1. ~HasLock(s, ChildRow(c), "share")
      BY <1>1, <1>3, UpdateExcludes
    <3> QED
      BY <1>2, <3>1
  <2>4. \A t \in Tokens : sessions[t] \in Opened =>
          /\ sessions'[t] \in Opened
          /\ sessions'[t].device = sessions[t].device
          /\ sessions'[t].child = sessions[t].child
          /\ sessions[t].live /\ HasLock(s, SessionRow(t), "share") => sessions'[t].live
    BY <1>2, EndingSparesOthers
  <2> QED
    BY <1>2, <1>4, <2>1, <2>2, <2>3, <2>4, HeldRowsStay
<1> QED
  BY <1>2, <1>5, <1>6, FinishKeepsInv

-----------------------------------------------------------------------------
(***************************************************************************)
(* A request of a child.                                                   *)
(***************************************************************************)

LEMMA AskingFits ==
  ASSUME NEW r, (tx[r] \in Asking)', SessionConfirmed(r)'
  PROVE  Fits(r)' /\ tx'[r] # Idle
<1>1. /\ tx'[r].step \in {"found", "device", "access", "child", "granted"}
      /\ Idle.step = "idle"
  BY DEF Asking, Idle
<1>2. (tx[r] \in States)'
  BY DEF States
<1> QED
  BY <1>1, <1>2 DEF Fits, CodeHeld, DeviceHeld, SelectionFits, ChildHeld, Holding

LEMMA FindSessionKeepsInv ==
  ASSUME IInv, NEW r \in Requests, NEW t \in Tokens, FindSession(r, t)
  PROVE  IInv'
<1> DEFINE state == [step |-> "found", token |-> t]
<1>1. /\ state \in Asking /\ state.step = "found" /\ state.token = t /\ tx'[r] = state
      /\ GoOn(r, state) /\ UNCHANGED <<rowVars, locks>>
  BY DEF FindSession, Asking, IInv, RequestsFit, GoOn
<1>2. SessionConfirmed(r)'
  <2>1. sessions'[t] \in Opened
    BY <1>1 DEF FindSession, IInv, RowsFit, SessionsFit, rowVars
  <2>2. Session(r)' = sessions'[t]
    BY <1>1 DEF Session
  <2> QED
    BY <1>1, <2>1, <2>2 DEF SessionConfirmed
<1>3. Fits(r)' /\ tx'[r] # Idle
  BY <1>1, <1>2, AskingFits
<1> QED
  BY <1>1, <1>3, MoveKeepsInv

\* One more row is locked and still says yes: the request may rely on it from now on.
LEMMA ConfirmedKeepsInv ==
  ASSUME IInv, NEW r \in Requests, NEW row, NEW next,
         tx[r] \in Asking, next \in {"device", "access", "child", "granted"},
         MayLock(r, {row}, "share"), Lock(r, {row}, "share"),
         GoOn(r, [tx[r] EXCEPT !.step = next]), UNCHANGED rowVars,
         SessionConfirmed(r)'
  PROVE  IInv'
<1> DEFINE state == [tx[r] EXCEPT !.step = next]
<1>1. state \in Asking /\ tx'[r] = state
  BY DEF Asking, IInv, RequestsFit, GoOn
<1>2. Fits(r)' /\ tx'[r] # Idle
  BY <1>1, AskingFits
<1> QED
  BY <1>1, <1>2, LockKeepsInv

\* What it has then: that lock, the locks of before, and the session it has found.
LEMMA ConfirmedKnows ==
  ASSUME IInv, NEW r \in Requests, NEW row, NEW next,
         tx[r] \in Asking, next \in {"device", "access", "child", "granted"},
         MayLock(r, {row}, "share"), Lock(r, {row}, "share"),
         GoOn(r, [tx[r] EXCEPT !.step = next]), UNCHANGED rowVars
  PROVE  /\ HasLock(r, row, "share")'
         /\ \A x, m : HasLock(r, x, m) => HasLock(r, x, m)'
         /\ tx'[r].step = next /\ tx'[r].token = tx[r].token
         /\ Session(r)' = Session(r)
<1>1. /\ tx'[r].step = next /\ tx'[r].token = tx[r].token
  BY DEF Asking, IInv, RequestsFit, GoOn
<1>2. Session(r)' = Session(r)
  BY <1>1 DEF Session, rowVars
<1>3. /\ HasLock(r, row, "share")'
      /\ \A x, m : HasLock(r, x, m) => HasLock(r, x, m)'
  BY LockAdds DEF IInv, LocksFit
<1> QED
  BY <1>1, <1>2, <1>3

LEMMA ConfirmDeviceKeepsInv ==
  ASSUME IInv, NEW r \in Requests, ConfirmDevice(r)
  PROVE  IInv'
<1> DEFINE row == DeviceRow(Session(r).device)
<1>1. tx[r] \in Asking /\ tx[r].step = "found" /\ SessionConfirmed(r)
  BY StepTellsState DEF ConfirmDevice, IInv, RequestsFit, Fits
<1>2. CASE Refuse(r)
  BY <1>2, RefuseKeepsInv
<1>3. CASE /\ Session(r).device \notin revoked
           /\ MayLock(r, {row}, "share") /\ Lock(r, {row}, "share")
           /\ GoOn(r, [tx[r] EXCEPT !.step = "device"]) /\ UNCHANGED rowVars
  <2>1. /\ HasLock(r, row, "share")'
        /\ \A x, m : HasLock(r, x, m) => HasLock(r, x, m)'
        /\ tx'[r].step = "device" /\ tx'[r].token = tx[r].token
        /\ Session(r)' = Session(r)
    BY <1>1, <1>3, ConfirmedKnows
  <2>2. SessionConfirmed(r)'
    BY <1>1, <1>3, <2>1 DEF SessionConfirmed, rowVars
  <2> QED
    BY <1>1, <1>3, <2>2, ConfirmedKeepsInv
<1> QED
  BY <1>2, <1>3 DEF ConfirmDevice, Confirm

LEMMA ConfirmAccessKeepsInv ==
  ASSUME IInv, NEW r \in Requests, ConfirmAccess(r)
  PROVE  IInv'
<1> DEFINE row == AccessRow(Session(r).device, Session(r).child)
<1>1. tx[r] \in Asking /\ tx[r].step = "device" /\ SessionConfirmed(r)
  BY StepTellsState DEF ConfirmAccess, IInv, RequestsFit, Fits
<1>2. CASE Refuse(r)
  BY <1>2, RefuseKeepsInv
<1>3. CASE /\ <<Session(r).device, Session(r).child>> \in access
           /\ MayLock(r, {row}, "share") /\ Lock(r, {row}, "share")
           /\ GoOn(r, [tx[r] EXCEPT !.step = "access"]) /\ UNCHANGED rowVars
  <2>1. /\ HasLock(r, row, "share")'
        /\ \A x, m : HasLock(r, x, m) => HasLock(r, x, m)'
        /\ tx'[r].step = "access" /\ tx'[r].token = tx[r].token
        /\ Session(r)' = Session(r)
    BY <1>1, <1>3, ConfirmedKnows
  <2>2. SessionConfirmed(r)'
    BY <1>1, <1>3, <2>1 DEF SessionConfirmed, rowVars
  <2> QED
    BY <1>1, <1>3, <2>2, ConfirmedKeepsInv
<1> QED
  BY <1>2, <1>3 DEF ConfirmAccess, Confirm

LEMMA ConfirmChildKeepsInv ==
  ASSUME IInv, NEW r \in Requests, ConfirmChild(r)
  PROVE  IInv'
<1> DEFINE row == ChildRow(Session(r).child)
<1>1. tx[r] \in Asking /\ tx[r].step = "access" /\ SessionConfirmed(r)
  BY StepTellsState DEF ConfirmChild, IInv, RequestsFit, Fits
<1>2. CASE Refuse(r)
  BY <1>2, RefuseKeepsInv
<1>3. CASE /\ Session(r).child \in active
           /\ MayLock(r, {row}, "share") /\ Lock(r, {row}, "share")
           /\ GoOn(r, [tx[r] EXCEPT !.step = "child"]) /\ UNCHANGED rowVars
  <2>1. /\ HasLock(r, row, "share")'
        /\ \A x, m : HasLock(r, x, m) => HasLock(r, x, m)'
        /\ tx'[r].step = "child" /\ tx'[r].token = tx[r].token
        /\ Session(r)' = Session(r)
    BY <1>1, <1>3, ConfirmedKnows
  <2>2. SessionConfirmed(r)'
    BY <1>1, <1>3, <2>1 DEF SessionConfirmed, rowVars
  <2> QED
    BY <1>1, <1>3, <2>2, ConfirmedKeepsInv
<1> QED
  BY <1>2, <1>3 DEF ConfirmChild, Confirm

LEMMA ConfirmSessionKeepsInv ==
  ASSUME IInv, NEW r \in Requests, ConfirmSession(r)
  PROVE  IInv'
<1> DEFINE row == SessionRow(tx[r].token)
<1>1. tx[r] \in Asking /\ tx[r].step = "child" /\ SessionConfirmed(r)
  BY StepTellsState DEF ConfirmSession, IInv, RequestsFit, Fits
<1>2. CASE Refuse(r)
  BY <1>2, RefuseKeepsInv
<1>3. CASE /\ Session(r).live
           /\ MayLock(r, {row}, "share") /\ Lock(r, {row}, "share")
           /\ GoOn(r, [tx[r] EXCEPT !.step = "granted"]) /\ UNCHANGED rowVars
  <2>1. /\ HasLock(r, row, "share")'
        /\ \A x, m : HasLock(r, x, m) => HasLock(r, x, m)'
        /\ tx'[r].step = "granted" /\ tx'[r].token = tx[r].token
        /\ Session(r)' = Session(r)
    BY <1>1, <1>3, ConfirmedKnows
  <2>2. SessionConfirmed(r)'
    BY <1>1, <1>3, <2>1 DEF SessionConfirmed, rowVars
  <2> QED
    BY <1>1, <1>3, <2>2, ConfirmedKeepsInv
<1> QED
  BY <1>2, <1>3 DEF ConfirmSession, Confirm

-----------------------------------------------------------------------------
(***************************************************************************)
(* The order of the locks.                                                 *)
(***************************************************************************)

\* What a request that is at t holds: a session only when it locks nothing more, a
\* child only when sessions are all it may still lock, a row of access only for
\* share, and a device as long as the devices it may still lock come later.
InOrder(l, t) ==
  /\ l.row[1] = "session" => t.step \in {"ended", "granted"}
  /\ l.row[1] = "child" => t.step \in {"granted access", "deactivating", "child", "granted"}
  /\ l.row[1] = "access" => l.mode = "share"
  /\ l.row[1] = "device" =>
       /\ t.step \notin {"claiming", "pairing", "found"}
       /\ t.step = "locking" => \A d \in t.devices : l.row[2] < d

LocksInOrder == \A l \in locks : InOrder(l, tx[l.by])

LEMMA RowKinds ==
  /\ \A d : DeviceRow(d)[1] = "device" /\ DeviceRow(d)[2] = d
  /\ \A c : ChildRow(c)[1] = "child"
  /\ \A t : SessionRow(t)[1] = "session"
  /\ \A d, c : AccessRow(d, c)[1] = "access"
  /\ \A k : CodeRow(k)[1] = "code"
BY DEF DeviceRow, ChildRow, SessionRow, AccessRow, CodeRow

LEMMA OrderKept ==
  ASSUME IInv, LocksInOrder, NEW r \in Requests, NEW state, GoOn(r, state),
         \A l \in locks' : l.by # r => l \in locks,
         \A l \in locks' : l.by = r => InOrder(l, state)
  PROVE  LocksInOrder'
<1>1. /\ tx'[r] = state
      /\ \A s \in Requests \ {r} : tx'[s] = tx[s]
  BY DEF IInv, RequestsFit, GoOn
<1>2. ASSUME NEW l \in locks' PROVE InOrder(l, tx'[l.by])
  <2>1. CASE l.by = r
    BY <1>1, <2>1
  <2>2. CASE l.by # r
    <3>1. l \in locks /\ l.by \in Requests
      BY <2>2 DEF IInv, LocksFit, LocksAreHeld
    <3> QED
      BY <1>1, <2>2, <3>1 DEF LocksInOrder
  <2> QED
    BY <2>1, <2>2
<1>3. \A l \in locks' : InOrder(l, tx'[l.by])
  BY <1>2
<1> QED
  BY <1>3 DEF LocksInOrder, InOrder

LEMMA FinishInOrder ==
  ASSUME IInv, LocksInOrder, NEW r \in Requests, Finish(r)
  PROVE  LocksInOrder'
BY OrderKept DEF Finish

\* The locks of a request stay in order when it goes on.
LEMMA StepInOrder ==
  ASSUME IInv, LocksInOrder, NEW r \in Requests, NEW state, GoOn(r, state),
         locks' = locks,
         \A l : InOrder(l, tx[r]) => InOrder(l, state)
  PROVE  LocksInOrder'
<1>1. \A l \in locks : l.by = r => InOrder(l, state)
  BY DEF LocksInOrder
<1> QED
  BY <1>1, OrderKept

LEMMA LockInOrder ==
  ASSUME IInv, LocksInOrder, NEW r \in Requests, NEW state, GoOn(r, state),
         NEW rows, NEW mode, Lock(r, rows, mode),
         \A l : InOrder(l, tx[r]) => InOrder(l, state),
         \A row \in rows : InOrder([by |-> r, row |-> row, mode |-> mode], state)
  PROVE  LocksInOrder'
<1>1. \A l \in locks : l.by = r => InOrder(l, state)
  BY DEF LocksInOrder
<1>2. \A l \in locks' : l \in locks
        \/ \E row \in rows : l = [by |-> r, row |-> row, mode |-> mode]
  BY DEF Lock
<1>3. \A l \in locks' : l.by = r => InOrder(l, state)
  BY <1>1, <1>2
<1>4. \A l \in locks' : l.by # r => l \in locks
  BY <1>2
<1> QED
  BY <1>3, <1>4, OrderKept

\* The first lock of a request.
LEMMA FirstInOrder ==
  ASSUME IInv, LocksInOrder, NEW r \in Requests, tx[r] = Idle, NEW state, GoOn(r, state),
         NEW row, NEW mode, Lock(r, {row}, mode),
         InOrder([by |-> r, row |-> row, mode |-> mode], state)
  PROVE  LocksInOrder'
<1>1. \A l \in locks' : l.by = r => InOrder(l, state)
  BY IdleHasNoLock DEF Lock
<1>2. \A l \in locks' : l.by # r => l \in locks
  BY DEF Lock
<1> QED
  BY <1>1, <1>2, OrderKept

LEMMA BeginInOrder ==
  ASSUME IInv, LocksInOrder, NEW r \in Requests, Begin(r)
  PROVE  LocksInOrder'
<1>1. ASSUME NEW k \in Codes, ClaimCode(r, k)
      PROVE  LocksInOrder'
  <2> DEFINE state == [step |-> "claiming", code |-> k, children |-> codes[k]]
  <2>1. InOrder([by |-> r, row |-> CodeRow(k), mode |-> "update"], state)
    BY RowKinds DEF InOrder
  <2> QED
    BY <1>1, <2>1, FirstInOrder DEF ClaimCode
<1>2. ASSUME NEW d \in Devices, NEW c \in Children, LockForSelect(r, d, c)
      PROVE  LocksInOrder'
  <2> DEFINE state == [step |-> "selecting", device |-> d, child |-> c]
  <2>1. InOrder([by |-> r, row |-> DeviceRow(d), mode |-> "update"], state)
    BY RowKinds DEF InOrder
  <2> QED
    BY <1>2, <2>1, FirstInOrder DEF LockForSelect
<1>3. ASSUME NEW d \in Devices, NEW cs \in SUBSET Children, LockForAccess(r, d, cs)
      PROVE  LocksInOrder'
  <2> DEFINE state == [step |-> "granting", device |-> d, children |-> cs]
  <2>1. InOrder([by |-> r, row |-> DeviceRow(d), mode |-> "update"], state)
    BY RowKinds DEF InOrder
  <2> QED
    BY <1>3, <2>1, FirstInOrder DEF LockForAccess
<1>4. ASSUME NEW d \in Devices, LockForRevoke(r, d)
      PROVE  LocksInOrder'
  <2> DEFINE state == [step |-> "revoking", device |-> d]
  <2>1. InOrder([by |-> r, row |-> DeviceRow(d), mode |-> "update"], state)
    BY RowKinds DEF InOrder
  <2> QED
    BY <1>4, <2>1, FirstInOrder DEF LockForRevoke
<1>5. ASSUME NEW c \in Children, BeginDeactivate(r, c)
      PROVE  LocksInOrder'
  BY <1>5, IdleHasNoLock, OrderKept DEF BeginDeactivate
<1>6. ASSUME NEW t \in Tokens, FindSession(r, t)
      PROVE  LocksInOrder'
  BY <1>6, IdleHasNoLock, OrderKept DEF FindSession
<1> QED
  BY <1>1, <1>2, <1>3, <1>4, <1>5, <1>6 DEF Begin

\* The steps that one transaction takes after another.
Successions ==
  { <<"claiming", "pairing">>,
    <<"selecting", "selected">>, <<"selected", "ended">>,
    <<"granting", "granted access">>,
    <<"locking", "deactivating">>,
    <<"found", "device">>, <<"device", "access">>, <<"access", "child">>,
    <<"child", "granted">> }

LEMMA OrderGoesOn ==
  ASSUME NEW t, NEW u, <<t.step, u.step>> \in Successions
  PROVE  \A l : InOrder(l, t) => InOrder(l, u)
BY DEF Successions, InOrder

\* What [tx[r] EXCEPT !.step = next] is, for a request that is under way.
LEMMA NextStep ==
  ASSUME IInv, NEW r \in Requests, NEW next,
         tx[r].step \in {"claiming", "selecting", "selected", "granting", "found", "device",
                         "access", "child"}
  PROVE  [tx[r] EXCEPT !.step = next].step = next
<1>1. tx[r] \in Claiming \cup Selecting \cup Granting \cup Asking
  BY StepTellsState DEF IInv, RequestsFit, Fits
<1>2. tx[r] \in Claiming => [tx[r] EXCEPT !.step = next].step = next
  BY DEF Claiming
<1>3. tx[r] \in Selecting => [tx[r] EXCEPT !.step = next].step = next
  BY DEF Selecting
<1>4. tx[r] \in Granting => [tx[r] EXCEPT !.step = next].step = next
  BY DEF Granting
<1>5. tx[r] \in Asking => [tx[r] EXCEPT !.step = next].step = next
  BY DEF Asking
<1> QED
  BY <1>1, <1>2, <1>3, <1>4, <1>5

LEMMA MovesInOrder ==
  ASSUME IInv, NEW r \in Requests, NEW step, NEW next, tx[r].step = step,
         <<step, next>> \in Successions, step # "locking"
  PROVE  /\ [tx[r] EXCEPT !.step = next].step = next
         /\ \A l : InOrder(l, tx[r]) => InOrder(l, [tx[r] EXCEPT !.step = next])
<1> DEFINE state == [tx[r] EXCEPT !.step = next]
<1>1. tx[r].step \in {"claiming", "selecting", "selected", "granting", "found", "device",
                      "access", "child"}
  BY DEF Successions
<1>2. state.step = next
  BY <1>1, NextStep
<1> HIDE DEF state
<1>3. <<tx[r].step, state.step>> \in Successions
  BY <1>2
<1>4. \A l : InOrder(l, tx[r]) => InOrder(l, state)
  BY <1>3, OrderGoesOn
<1> QED
  BY <1>2, <1>4 DEF state

LEMMA ConfirmInOrder ==
  ASSUME IInv, LocksInOrder, NEW r \in Requests, NEW row, NEW yes, NEW next,
         Confirm(r, row, yes, next),
         tx[r].step \in {"found", "device", "access", "child"},
         <<tx[r].step, next>> \in Successions,
         \A t : t.step = next => InOrder([by |-> r, row |-> row, mode |-> "share"], t)
  PROVE  LocksInOrder'
<1> DEFINE state == [tx[r] EXCEPT !.step = next]
<1>1. state.step = next
  BY NextStep
<1>2. \A l : InOrder(l, tx[r]) => InOrder(l, state)
  BY MovesInOrder
<1>3. InOrder([by |-> r, row |-> row, mode |-> "share"], state)
  BY <1>1
<1>4. CASE GoOn(r, state) /\ Lock(r, {row}, "share")
  <2> HIDE DEF state
  <2>1. \A x \in {row} : InOrder([by |-> r, row |-> x, mode |-> "share"], state)
    BY <1>3
  <2> QED
    BY <1>2, <1>4, <2>1, LockInOrder
<1>5. CASE Refuse(r)
  BY <1>5, FinishInOrder DEF Refuse
<1> QED
  BY <1>4, <1>5 DEF Confirm

\* The devices of a child are locked by their ids.
LEMMA DevicesInOrder ==
  ASSUME IInv, LocksInOrder, NEW r \in Requests, NEW d \in Devices, LockNextDevice(r, d)
  PROVE  LocksInOrder'
<1> DEFINE state == [tx[r] EXCEPT !.devices = @ \ {d}]
<1>1. tx[r].step = "locking" /\ tx[r] \in Locking
  BY StepTellsState DEF LockNextDevice, IInv, RequestsFit, Fits
<1>2. state.step = "locking" /\ state.devices = tx[r].devices \ {d}
  BY <1>1 DEF Locking
<1>3. \A e \in state.devices : d < e
  <2>1. tx[r].devices \subseteq Devices /\ d \in NextDevices(tx[r].devices)
    BY <1>1 DEF Locking, LockNextDevice
  <2>2. \A e \in tx[r].devices : d <= e
    BY <2>1 DEF NextDevices
  <2> QED
    BY <1>2, <2>1, <2>2, DevicesAssumption
<1>4. GoOn(r, state) /\ Lock(r, {DeviceRow(d)}, "update")
  BY DEF LockNextDevice
<1> HIDE DEF state
<1>5. \A l : InOrder(l, tx[r]) => InOrder(l, state)
  BY <1>1, <1>2 DEF InOrder
<1>6. \A x \in {DeviceRow(d)} : InOrder([by |-> r, row |-> x, mode |-> "update"], state)
  BY <1>2, <1>3, RowKinds DEF InOrder
<1> QED
  BY <1>4, <1>5, <1>6, LockInOrder

LEMMA ProceedInOrder ==
  ASSUME IInv, LocksInOrder, NEW r \in Requests, Proceed(r)
  PROVE  LocksInOrder'
<1>1. CASE CheckCodeChildren(r)
  <2> DEFINE state == [tx[r] EXCEPT !.step = "pairing"]
  <2>1. CASE GoOn(r, state) /\ locks' = locks
    <3>1. \A l : InOrder(l, tx[r]) => InOrder(l, state)
      <4>1. tx[r].step = "claiming" /\ <<"claiming", "pairing">> \in Successions
        BY <1>1 DEF CheckCodeChildren, Successions
      <4> QED
        BY <4>1, MovesInOrder
    <3> QED
      BY <2>1, <3>1, StepInOrder
  <2>2. CASE Refuse(r)
    BY <2>2, FinishInOrder DEF Refuse
  <2> QED
    BY <1>1, <2>1, <2>2 DEF CheckCodeChildren
<1>2. CASE CheckAccess(r)
  <2> DEFINE state == [tx[r] EXCEPT !.step = "selected"]
  <2>1. CASE GoOn(r, state) /\ locks' = locks
    <3>1. \A l : InOrder(l, tx[r]) => InOrder(l, state)
      <4>1. tx[r].step = "selecting" /\ <<"selecting", "selected">> \in Successions
        BY <1>2 DEF CheckAccess, Successions
      <4> QED
        BY <4>1, MovesInOrder
    <3> QED
      BY <2>1, <3>1, StepInOrder
  <2>2. CASE Refuse(r)
    BY <2>2, FinishInOrder DEF Refuse
  <2> QED
    BY <1>2, <2>1, <2>2 DEF CheckAccess
<1>3. CASE EndSessions(r)
  <2> DEFINE state == [tx[r] EXCEPT !.step = "ended"]
             rows == SessionRows(SessionsOf(tx[r].device))
  <2>1. state.step = "ended" /\ \A l : InOrder(l, tx[r]) => InOrder(l, state)
    <3>1. tx[r].step = "selected" /\ <<"selected", "ended">> \in Successions
      BY <1>3 DEF EndSessions, Successions
    <3> QED
      BY <3>1, MovesInOrder
  <2>2. GoOn(r, state) /\ Lock(r, rows, "update")
    BY <1>3 DEF EndSessions
  <2> HIDE DEF state
  <2>3. \A row \in rows : InOrder([by |-> r, row |-> row, mode |-> "update"], state)
    BY <2>1, RowKinds DEF InOrder, SessionRows
  <2> QED
    BY <2>1, <2>2, <2>3, LockInOrder
<1>4. CASE ShareChildren(r)
  <2> DEFINE state == [tx[r] EXCEPT !.step = "granted access"]
             rows == {ChildRow(c) : c \in tx[r].children \cap active}
  <2>1. CASE GoOn(r, state) /\ Lock(r, rows, "share")
    <3>1. state.step = "granted access" /\ \A l : InOrder(l, tx[r]) => InOrder(l, state)
      <4>1. tx[r].step = "granting" /\ <<"granting", "granted access">> \in Successions
        BY <1>4 DEF ShareChildren, Successions
      <4> QED
        BY <4>1, MovesInOrder
    <3> HIDE DEF state
    <3>2. \A row \in rows : InOrder([by |-> r, row |-> row, mode |-> "share"], state)
      BY <3>1, RowKinds DEF InOrder
    <3> QED
      BY <2>1, <3>1, <3>2, LockInOrder
  <2>2. CASE Refuse(r)
    BY <2>2, FinishInOrder DEF Refuse
  <2> QED
    BY <1>4, <2>1, <2>2 DEF ShareChildren
<1>5. CASE UpdateChild(r)
  <2> DEFINE state == [step |-> "deactivating", child |-> tx[r].child]
  <2>1. state.step = "deactivating" /\ \A l : InOrder(l, tx[r]) => InOrder(l, state)
    <3>1. tx[r].step = "locking" /\ state.step = "deactivating"
      BY <1>5 DEF UpdateChild
    <3> HIDE DEF state
    <3>2. <<tx[r].step, state.step>> \in Successions
      BY <3>1 DEF Successions
    <3> QED
      BY <3>1, <3>2, OrderGoesOn
  <2>2. GoOn(r, state) /\ Lock(r, {ChildRow(tx[r].child)}, "update")
    BY <1>5 DEF UpdateChild
  <2> HIDE DEF state
  <2>3. \A row \in {ChildRow(tx[r].child)} :
          InOrder([by |-> r, row |-> row, mode |-> "update"], state)
    BY <2>1, RowKinds DEF InOrder
  <2> QED
    BY <2>1, <2>2, <2>3, LockInOrder
<1>6. CASE ConfirmDevice(r)
  <2>1. /\ tx[r].step = "found" /\ <<"found", "device">> \in Successions
        /\ Confirm(r, DeviceRow(Session(r).device),
                   Session(r).device \notin revoked, "device")
    BY <1>6 DEF ConfirmDevice, Successions
  <2>2. \A t : t.step = "device" =>
          InOrder([by |-> r, row |-> DeviceRow(Session(r).device),
                   mode |-> "share"], t)
    BY RowKinds DEF InOrder
  <2> QED
    BY <2>1, <2>2, ConfirmInOrder
<1>7. CASE ConfirmAccess(r)
  <2>1. /\ tx[r].step = "device" /\ <<"device", "access">> \in Successions
        /\ Confirm(r, AccessRow(Session(r).device, Session(r).child),
                   <<Session(r).device, Session(r).child>> \in access, "access")
    BY <1>7 DEF ConfirmAccess, Successions
  <2>2. \A t : t.step = "access" =>
          InOrder([by |-> r, row |-> AccessRow(Session(r).device, Session(r).child),
                   mode |-> "share"], t)
    BY RowKinds DEF InOrder
  <2> QED
    BY <2>1, <2>2, ConfirmInOrder
<1>8. CASE ConfirmChild(r)
  <2>1. /\ tx[r].step = "access" /\ <<"access", "child">> \in Successions
        /\ Confirm(r, ChildRow(Session(r).child),
                   Session(r).child \in active, "child")
    BY <1>8 DEF ConfirmChild, Successions
  <2>2. \A t : t.step = "child" =>
          InOrder([by |-> r, row |-> ChildRow(Session(r).child),
                   mode |-> "share"], t)
    BY RowKinds DEF InOrder
  <2> QED
    BY <2>1, <2>2, ConfirmInOrder
<1>9. CASE ConfirmSession(r)
  <2>1. /\ tx[r].step = "child" /\ <<"child", "granted">> \in Successions
        /\ Confirm(r, SessionRow(tx[r].token),
                   Session(r).live, "granted")
    BY <1>9 DEF ConfirmSession, Successions
  <2>2. \A t : t.step = "granted" =>
          InOrder([by |-> r, row |-> SessionRow(tx[r].token),
                   mode |-> "share"], t)
    BY RowKinds DEF InOrder
  <2> QED
    BY <2>1, <2>2, ConfirmInOrder
<1>10. CASE \E d \in Devices : LockNextDevice(r, d)
  BY <1>10, DevicesInOrder
<1>11. CASE \/ \E d \in Devices : PairDevice(r, d)
            \/ \E t \in Tokens : OpenSession(r, t)
            \/ SetAccess(r) \/ RevokeDevice(r) \/ Deactivate(r) \/ EndAdmission(r)
  <2>1. Finish(r)
    BY <1>11 DEF PairDevice, OpenSession, SetAccess, RevokeDevice, Deactivate, EndAdmission,
                 Refuse
  <2> QED
    BY <2>1, FinishInOrder
<1> QED
  BY <1>1, <1>2, <1>3, <1>4, <1>5, <1>6, <1>7, <1>8, <1>9, <1>10, <1>11 DEF Proceed

LEMMA NextInOrder ==
  ASSUME IInv, LocksInOrder, [Next]_vars
  PROVE  LocksInOrder'
<1>1. CASE \/ \E k \in Codes, cs \in SUBSET Children : CreatePairingCode(k, cs)
           \/ \E k \in Codes : ExpireCode(k)
           \/ UNCHANGED vars
  <2>1. tx' = tx /\ locks' = locks
    BY <1>1 DEF CreatePairingCode, ExpireCode, vars
  <2> QED
    BY <2>1 DEF LocksInOrder, InOrder
<1>2. ASSUME NEW r \in Requests, Begin(r) \/ Proceed(r)
      PROVE  LocksInOrder'
  BY <1>2, BeginInOrder, ProceedInOrder
<1> QED
  BY <1>1, <1>2 DEF Next

\* Of some devices one is the last.
LEMMA LastDevice ==
  ASSUME NEW S \in SUBSET Devices, S # {}
  PROVE  \E d \in S : \A e \in S : e <= d
<1> DEFINE Above(d) == {e \in S : e > d}
           T == {Above(d) : d \in S}
           R == StrictSubsetOrdering(S)
<1>1. /\ IsFiniteSet(S) /\ \A d \in S : d \in Nat
  BY FS_Subset, DevicesAssumption
<1>2. T \subseteq FiniteSubsetsOf(S) /\ T # {}
  <2>1. ASSUME NEW d \in S PROVE Above(d) \in FiniteSubsetsOf(S)
    <3>1. Above(d) \in SUBSET S
      OBVIOUS
    <3> HIDE DEF Above
    <3>2. IsFiniteSet(Above(d))
      BY <1>1, <3>1, FS_Subset
    <3> QED
      BY <3>1, <3>2 DEF FiniteSubsetsOf
  <2> QED
    BY <2>1
<1>3. IsWellFoundedOn(R, FiniteSubsetsOf(S))
  BY FS_StrictSubsetOrderingWellFounded
<1> HIDE DEF R
<1>4. PICK x \in T : \A y \in T : <<y, x>> \notin R
  BY <1>2, <1>3, WFMin
<1>5. PICK d \in S : x = Above(d)
  BY <1>4
<1>6. ASSUME NEW e \in S, e > d PROVE FALSE
  <2>1. e \in Above(d) /\ e \notin Above(e)
    BY <1>1, <1>6
  <2>2. \A f \in Above(e) : f \in Above(d)
    BY <1>1, <1>6
  <2>3. Above(e) \in SUBSET S /\ Above(d) \in SUBSET S /\ Above(e) \in T
    OBVIOUS
  <2> HIDE DEF Above, T
  <2>4. <<Above(e), Above(d)>> \in R
    BY <2>1, <2>2, <2>3 DEF R, StrictSubsetOrdering
  <2> QED
    BY <1>4, <1>5, <2>3, <2>4
<1> QED
  BY <1>1, <1>6

\* Who waits for a session, a child or a device finds a lock on one.
LEMMA WaitsForLock ==
  ASSUME NEW r, NEW rows, NEW mode, ~MayLock(r, rows, mode)
  PROVE  \E l \in locks : l.by # r /\ l.row \in rows /\ ~(l.mode = "share" /\ mode = "share")
BY DEF MayLock

HeldRow(type) == \E l \in locks : l.row[1] = type

LEMMA WaitsForSession ==
  ASSUME NEW r, Waits(r),
         tx[r].step \in {"selected", "revoking", "granted access", "deactivating", "child"}
  PROVE  HeldRow("session")
<1>1. ASSUME NEW ts, ~MayLock(r, SessionRows(ts), "update")
      PROVE  HeldRow("session")
  <2>1. PICK l \in locks : l.row \in SessionRows(ts)
    BY <1>1, WaitsForLock
  <2>2. l.row[1] = "session"
    BY <2>1, RowKinds DEF SessionRows
  <2> QED
    BY <2>2 DEF HeldRow
<1>2. ASSUME ~MayLock(r, {SessionRow(tx[r].token)}, "share")
      PROVE  HeldRow("session")
  <2>1. PICK l \in locks : l.row \in {SessionRow(tx[r].token)}
    BY <1>2, WaitsForLock
  <2>2. l.row[1] = "session"
    BY <2>1, RowKinds
  <2> QED
    BY <2>2 DEF HeldRow
<1> QED
  BY <1>1, <1>2 DEF Waits

LEMMA WaitsForChild ==
  ASSUME NEW r, Waits(r), tx[r].step \in {"granting", "access"}
  PROVE  HeldRow("child")
<1>1. ASSUME ~MayLock(r, {ChildRow(c) : c \in tx[r].children \cap active}, "share")
      PROVE  HeldRow("child")
  BY <1>1, WaitsForLock, RowKinds DEF HeldRow
<1>2. ASSUME ~MayLock(r, {ChildRow(Session(r).child)}, "share")
      PROVE  HeldRow("child")
  BY <1>2, WaitsForLock, RowKinds DEF HeldRow
<1> QED
  BY <1>1, <1>2 DEF Waits

\* The rows of access are locked for share only.
LEMMA NobodyWaitsForAccess ==
  ASSUME LocksInOrder, NEW r, tx[r].step = "device"
  PROVE  ~Waits(r)
<1>1. ASSUME NEW l \in locks, l.row = AccessRow(Session(r).device, Session(r).child)
      PROVE  l.mode = "share"
  <2>1. l.row[1] = "access"
    BY <1>1, RowKinds
  <2> QED
    BY <2>1 DEF LocksInOrder, InOrder
<1>2. MayLock(r, {AccessRow(Session(r).device, Session(r).child)}, "share")
  BY <1>1 DEF MayLock
<1> QED
  BY <1>2 DEF Waits

\* r waits for the device d.
WaitsAt(r, d) ==
  /\ tx[r].step = "locking" /\ d \in NextDevices(tx[r].devices)
  /\ \E l \in locks : l.by # r /\ l.row = DeviceRow(d)

LEMMA WaitsForDevice ==
  ASSUME NEW r, Waits(r)
  PROVE  /\ tx[r].step = "found" => HeldRow("device")
         /\ tx[r].step = "locking" => HeldRow("child") \/ \E d : WaitsAt(r, d)
<1>1. ASSUME ~MayLock(r, {DeviceRow(Session(r).device)}, "share")
      PROVE  HeldRow("device")
  BY <1>1, WaitsForLock, RowKinds DEF HeldRow
<1>2. ASSUME ~MayLock(r, {ChildRow(tx[r].child)}, "update")
      PROVE  HeldRow("child")
  BY <1>2, WaitsForLock, RowKinds DEF HeldRow
<1>3. ASSUME tx[r].step = "locking", NEW d \in NextDevices(tx[r].devices),
             ~MayLock(r, {DeviceRow(d)}, "update")
      PROVE  WaitsAt(r, d)
  BY <1>3, WaitsForLock DEF WaitsAt
<1> QED
  BY <1>1, <1>2, <1>3 DEF Waits

LEMMA NoCircleInv ==
  ASSUME IInv, LocksInOrder
  PROVE  NoCircle
<1> SUFFICES ASSUME NEW any \in UnderWay, \A r \in UnderWay : Waits(r)
             PROVE  FALSE
  BY DEF NoCircle
<1>1. \A l \in locks : l.by \in UnderWay /\ InOrder(l, tx[l.by])
  BY DEF IInv, LocksFit, LocksAreHeld, UnderWay, LocksInOrder
<1>2. ASSUME NEW r \in UnderWay
      PROVE  tx[r].step \in {"selected", "revoking", "granting", "granted access", "locking",
                             "deactivating", "found", "access", "child"}
  <2>1. Waits(r) /\ tx[r].step # "device"
    BY <1>2, NobodyWaitsForAccess
  <2> QED
    BY <2>1 DEF Waits
<1>3. ~HeldRow("session")
  <2>1. ASSUME NEW l \in locks, l.row[1] = "session" PROVE FALSE
    BY <1>1, <1>2, <2>1 DEF InOrder
  <2> QED
    BY <2>1 DEF HeldRow
<1>4. ~HeldRow("child")
  <2>1. ASSUME NEW l \in locks, l.row[1] = "child" PROVE FALSE
    BY <1>1, <1>2, <1>3, <2>1, WaitsForSession DEF InOrder
  <2> QED
    BY <2>1 DEF HeldRow
<1>5. ASSUME NEW r \in UnderWay PROVE tx[r].step \in {"found", "locking"}
  BY <1>2, <1>3, <1>4, WaitsForSession, WaitsForChild
<1>6. ASSUME NEW r \in UnderWay, tx[r].step = "locking" PROVE \E d : WaitsAt(r, d)
  BY <1>4, <1>6, WaitsForDevice
<1>7. ASSUME NEW l \in locks, l.row[1] = "device"
      PROVE  tx[l.by].step = "locking" /\ \A d \in tx[l.by].devices : l.row[2] < d
  BY <1>1, <1>5, <1>7 DEF InOrder
<1> DEFINE S == {d \in Devices : \E r \in UnderWay : WaitsAt(r, d)}
<1>8. \A r \in UnderWay : \A d : WaitsAt(r, d) => d \in S /\ d \in tx[r].devices
  <2>1. ASSUME NEW r \in UnderWay, tx[r].step = "locking" PROVE tx[r].devices \subseteq Devices
    <3>1. tx[r] \in Locking
      BY <2>1, StepTellsState DEF UnderWay, IInv, RequestsFit, Fits
    <3> QED
      BY <3>1 DEF Locking
  <2> QED
    BY <2>1 DEF WaitsAt, NextDevices
<1>9. S # {}
  <2>1. CASE tx[any].step = "locking"
    BY <1>6, <1>8, <2>1
  <2>2. CASE tx[any].step = "found"
    <3>1. PICK l \in locks : l.row[1] = "device"
      BY <2>2, WaitsForDevice DEF HeldRow
    <3>2. l.by \in UnderWay /\ tx[l.by].step = "locking"
      BY <1>1, <1>7, <3>1
    <3> QED
      BY <1>6, <1>8, <3>2
  <2> QED
    BY <1>5, <2>1, <2>2
<1>10. PICK d \in S : \A e \in S : e <= d
  BY <1>9, LastDevice
<1>11. PICK l \in locks : l.row = DeviceRow(d)
  BY <1>10 DEF WaitsAt
<1>12. /\ l.by \in UnderWay /\ tx[l.by].step = "locking"
       /\ \A e \in tx[l.by].devices : d < e
  BY <1>1, <1>7, <1>11, RowKinds
<1>13. PICK e : WaitsAt(l.by, e)
  BY <1>6, <1>12
<1>14. e \in S /\ d < e /\ e <= d
  BY <1>8, <1>10, <1>12, <1>13
<1> QED
  BY <1>10, <1>14, DevicesAssumption

-----------------------------------------------------------------------------
(***************************************************************************)
(* Theorems.                                                               *)
(***************************************************************************)

LEMMA InitInv == Init => IInv
<1> SUFFICES ASSUME Init PROVE IInv
  OBVIOUS
<1>1. LiveSessions = {} /\ Paired = {}
  BY UnusedIsNone DEF Init, LiveSessions, Paired
<1>2. RowsFit
  <2>1. RowsOK /\ LiveSessionFits /\ OneLiveSession /\ CodePairsOnce
    BY <1>1 DEF Init, RowsOK, LiveSessionFits, OneLiveSession, CodePairsOnce
  <2>2. SessionsFit /\ CodesAreNew
    BY UnusedIsNone DEF Init, SessionsFit, CodesAreNew
  <2> QED
    BY <2>1, <2>2 DEF RowsFit
<1>3. LocksFit
  BY DEF Init, LocksFit, LocksExclude, LocksAreHeld
<1>4. RequestsFit
  <2>1. \A r \in Requests : tx[r] = Idle /\ tx[r].step = "idle" /\ DOMAIN tx = Requests
    BY DEF Init, Idle
  <2>2. \A r \in Requests : Fits(r)
    BY <2>1 DEF Fits, States, CodeHeld, DeviceHeld, SelectionFits, ChildHeld,
                SessionConfirmed, Holding
  <2> QED
    BY <2>2 DEF RequestsFit, Init
<1> QED
  BY <1>2, <1>3, <1>4 DEF IInv

LEMMA BeginKeepsInv ==
  ASSUME IInv, NEW r \in Requests, Begin(r)
  PROVE  IInv'
<1>1. ASSUME NEW k \in Codes, ClaimCode(r, k)
      PROVE  IInv'
  BY <1>1, ClaimCodeKeepsInv
<1>2. ASSUME NEW d \in Devices, NEW c \in Children, LockForSelect(r, d, c)
      PROVE  IInv'
  BY <1>2, LockForSelectKeepsInv
<1>3. ASSUME NEW d \in Devices, NEW cs \in SUBSET Children, LockForAccess(r, d, cs)
      PROVE  IInv'
  BY <1>3, LockForAccessKeepsInv
<1>4. ASSUME NEW d \in Devices, LockForRevoke(r, d)
      PROVE  IInv'
  BY <1>4, LockForRevokeKeepsInv
<1>5. ASSUME NEW c \in Children, BeginDeactivate(r, c)
      PROVE  IInv'
  BY <1>5, BeginDeactivateKeepsInv
<1>6. ASSUME NEW t \in Tokens, FindSession(r, t)
      PROVE  IInv'
  BY <1>6, FindSessionKeepsInv
<1> QED
  BY <1>1, <1>2, <1>3, <1>4, <1>5, <1>6 DEF Begin

LEMMA ProceedKeepsInv ==
  ASSUME IInv, NEW r \in Requests, Proceed(r)
  PROVE  IInv'
<1>1. CASE CheckCodeChildren(r)
  BY <1>1, CheckCodeChildrenKeepsInv
<1>2. ASSUME NEW d \in Devices, PairDevice(r, d)
      PROVE  IInv'
  BY <1>2, PairDeviceKeepsInv
<1>3. CASE CheckAccess(r)
  BY <1>3, CheckAccessKeepsInv
<1>4. CASE EndSessions(r)
  BY <1>4, EndSessionsKeepsInv
<1>5. ASSUME NEW t \in Tokens, OpenSession(r, t)
      PROVE  IInv'
  BY <1>5, OpenSessionKeepsInv
<1>6. CASE ShareChildren(r)
  BY <1>6, ShareChildrenKeepsInv
<1>7. CASE SetAccess(r)
  BY <1>7, SetAccessKeepsInv
<1>8. CASE RevokeDevice(r)
  BY <1>8, RevokeDeviceKeepsInv
<1>9. ASSUME NEW d \in Devices, LockNextDevice(r, d)
      PROVE  IInv'
  BY <1>9, LockNextDeviceKeepsInv
<1>10. CASE UpdateChild(r)
  BY <1>10, UpdateChildKeepsInv
<1>11. CASE Deactivate(r)
  BY <1>11, DeactivateKeepsInv
<1>12. CASE ConfirmDevice(r)
  BY <1>12, ConfirmDeviceKeepsInv
<1>13. CASE ConfirmAccess(r)
  BY <1>13, ConfirmAccessKeepsInv
<1>14. CASE ConfirmChild(r)
  BY <1>14, ConfirmChildKeepsInv
<1>15. CASE ConfirmSession(r)
  BY <1>15, ConfirmSessionKeepsInv
<1>16. CASE EndAdmission(r)
  BY <1>16, RefuseKeepsInv DEF EndAdmission
<1> QED
  BY <1>1, <1>2, <1>3, <1>4, <1>5, <1>6, <1>7, <1>8, <1>9, <1>10, <1>11, <1>12, <1>13,
     <1>14, <1>15, <1>16 DEF Proceed

\* Every step, whoever takes it, keeps the invariant.
LEMMA NextKeepsInv ==
  ASSUME IInv, [Next]_vars
  PROVE  IInv'
<1>1. ASSUME NEW k \in Codes, NEW cs \in SUBSET Children, CreatePairingCode(k, cs)
      PROVE  IInv'
  BY <1>1, CreatePairingCodeKeepsInv
<1>2. ASSUME NEW k \in Codes, ExpireCode(k)
      PROVE  IInv'
  BY <1>2, ExpireCodeKeepsInv
<1>3. ASSUME NEW r \in Requests, Begin(r) \/ Proceed(r)
      PROVE  IInv'
  BY <1>3, BeginKeepsInv, ProceedKeepsInv
<1>4. CASE UNCHANGED vars
  <2>1. UNCHANGED <<active, codes, pairedBy, revoked, access, sessions, tx, locks>>
    BY <1>4 DEF vars, rowVars
  <2>2. codes' \in [Codes -> SUBSET Children] /\ CodesAreNew'
    BY <2>1 DEF IInv, RowsFit, RowsOK, CodesAreNew
  <2> QED
    BY <2>1, <2>2, CodeChangeKeepsInv
<1> QED
  BY <1>1, <1>2, <1>3, <1>4 DEF Next

THEOREM SpecIInv == Spec => []IInv
<1>1. Init => IInv
  BY InitInv
<1>2. IInv /\ [Next]_vars => IInv'
  BY NextKeepsInv
<1> QED
  BY <1>1, <1>2, PTL DEF Spec

\* No transactions wait for each other in a circle, so that the database would have to
\* refuse one of them: whatever is under way, one of them waits for no lock.
THEOREM NobodyWaitsInACircle == Spec => []NoCircle
<1>1. Init => IInv /\ LocksInOrder
  BY InitInv DEF Init, LocksInOrder
<1>2. IInv /\ LocksInOrder /\ [Next]_vars => (IInv /\ LocksInOrder)'
  BY NextKeepsInv, NextInOrder
<1>3. IInv /\ LocksInOrder => NoCircle
  BY NoCircleInv
<1> QED
  BY <1>1, <1>2, <1>3, PTL DEF Spec

\* No two requests hold locks that exclude each other, whoever changes what a device may
\* do has the device to itself, no session outlives the access it was opened on, and
\* nobody waits in a circle.
THEOREM AccessInvHolds == Spec => []AccessInv
<1>1. IInv /\ NoCircle => AccessInv
  <2> SUFFICES ASSUME IInv, NoCircle PROVE AccessInv
    OBVIOUS
  <2>1. RowsOK /\ LiveSessionFits
    BY DEF IInv, RowsFit
  <2>2. LocksHold
    <3>1. \A r \in Requests :
            tx[r].step \in {"selecting", "selected", "ended", "granting", "granted access",
                            "revoking"} =>
              [by |-> r, row |-> DeviceRow(tx[r].device), mode |-> "update"] \in locks
      BY DEF IInv, RequestsFit, Fits, DeviceHeld, HasLock, Holding
    <3>2. /\ \A l \in locks, m \in locks :
               l.row = m.row /\ l.by # m.by => l.mode = "share" /\ m.mode = "share"
          /\ \A l \in locks : tx[l.by] # Idle
      BY DEF IInv, LocksFit, LocksExclude, LocksAreHeld
    <3> QED
      BY <3>1, <3>2 DEF LocksHold
  <2> QED
    BY <2>1, <2>2 DEF AccessInv
<1> QED
  BY <1>1, SpecIInv, NobodyWaitsInACircle, PTL

\* A device is for one child at a time, however many requests select on it at once.
THEOREM OneLiveSessionAlways == Spec => []OneLiveSession
<1>1. IInv => OneLiveSession
  BY DEF IInv, RowsFit
<1> QED
  BY <1>1, SpecIInv, PTL

\* A request of a child is admitted only while its session is live, its device not
\* revoked, its access in place and the child active, all at once, until the
\* admission commits.
THEOREM ActorIsEntitledAlways == Spec => []ActorIsEntitled
<1>1. IInv => ActorIsEntitled
  BY DEF IInv, RequestsFit, Fits, SessionConfirmed, ActorIsEntitled
<1> QED
  BY <1>1, SpecIInv, PTL

\* A pairing code makes one device, however many type it in at once.
THEOREM CodePairsOnceAlways == Spec => []CodePairsOnce
<1>1. IInv => CodePairsOnce
  BY DEF IInv, RowsFit
<1> QED
  BY <1>1, SpecIInv, PTL

-----------------------------------------------------------------------------
(***************************************************************************)
(* The devices implement FamilyAccess: the invariant that the steps of a   *)
(* request rest on when they come to take effect.                          *)
(***************************************************************************)

Claims(r, k) == tx[r].step \in {"claiming", "pairing"} /\ tx[r].code = k

\* What a request claimed is what the code was for, if the code has not expired since.
ClaimFits(r) ==
  tx[r].step \in {"claiming", "pairing"} =>
    /\ tx[r].children # {}
    /\ codes[tx[r].code] \in {tx[r].children, {}}

\* The children that are given are active, and held.
GrantFits(r) ==
  /\ tx[r].step \in {"granting", "granted access"} => tx[r].children # {}
  /\ tx[r].step = "granted access" =>
       \A c \in tx[r].children : c \in active /\ HasLock(r, ChildRow(c), "share")

\* A selection ends sessions of its own device only.
EndsOwn(r) ==
  tx[r].step = "ended" =>
    \A t \in Tokens : HasLock(r, SessionRow(t), "update") =>
      sessions[t] \in Opened /\ sessions[t].device = tx[r].device

Purpose(r) == ClaimFits(r) /\ GrantFits(r) /\ EndsOwn(r)

FInv == IInv /\ LocksInOrder /\ \A r \in Requests : Purpose(r)

\* A lock is one of the request that takes it.
LEMMA LockFrame ==
  ASSUME NEW r, NEW rows, NEW mode, Lock(r, rows, mode)
  PROVE  /\ \A l \in locks' : l.by = r \/ l \in locks
         /\ \A l \in locks : l \in locks'
<1>1. locks' = locks \cup {[by |-> r, row |-> x, mode |-> mode] : x \in rows}
  BY DEF Lock
<1>2. \A l \in {[by |-> r, row |-> x, mode |-> mode] : x \in rows} : l.by = r
  OBVIOUS
<1> QED
  BY <1>1, <1>2

\* Most steps have no such purpose.
LEMMA NoPurpose ==
  ASSUME NEW r,
         tx[r].step \notin {"claiming", "pairing", "granting", "granted access", "ended"}
  PROVE  Purpose(r)
BY DEF Purpose, ClaimFits, GrantFits, EndsOwn

\* What the others hold serves its purpose still.
LEMMA PurposeStays ==
  ASSUME FInv, NEW s \in Requests, tx'[s] = tx[s],
         \A row, m : HasLock(s, row, m) <=> HasLock(s, row, m)',
         \A k \in Codes : HasLock(s, CodeRow(k), "update") => codes'[k] \in {codes[k], {}},
         \A c \in active : HasLock(s, ChildRow(c), "share") => c \in active',
         \A t \in Tokens : sessions[t] \in Opened =>
           sessions'[t] \in Opened /\ sessions'[t].device = sessions[t].device
  PROVE  Purpose(s)'
<1>1. Purpose(s) /\ Fits(s)
  BY DEF FInv, IInv, RequestsFit
<1>2. ClaimFits(s)'
  <2> SUFFICES ASSUME tx[s].step \in {"claiming", "pairing"}
               PROVE  /\ tx[s].children # {}
                      /\ codes'[tx[s].code] \in {tx[s].children, {}}
    BY DEF ClaimFits
  <2>1. tx[s].code \in Codes
    BY <1>1, StepTellsState DEF Fits, Claiming
  <2>2. HasLock(s, CodeRow(tx[s].code), "update")
    BY <1>1 DEF Fits, CodeHeld
  <2> QED
    BY <1>1, <2>1, <2>2 DEF Purpose, ClaimFits
<1>3. GrantFits(s)'
  BY <1>1 DEF Purpose, GrantFits
<1>4. EndsOwn(s)'
  BY <1>1 DEF Purpose, EndsOwn
<1> QED
  BY <1>2, <1>3, <1>4 DEF Purpose

\* A request that writes no row disturbs the purpose of none.
LEMMA QuietKeepsPurposes ==
  ASSUME FInv, NEW r \in Requests, NEW state, GoOn(r, state), UNCHANGED rowVars,
         \A l \in locks' : l.by = r \/ l \in locks,
         \A l \in locks : l.by = r \/ l \in locks',
         Purpose(r)'
  PROVE  \A s \in Requests : Purpose(s)'
<1> SUFFICES ASSUME NEW s \in Requests \ {r} PROVE Purpose(s)'
  OBVIOUS
<1>1. tx'[s] = tx[s]
  BY DEF FInv, IInv, RequestsFit, GoOn
<1>2. \A row, m : HasLock(s, row, m) <=> HasLock(s, row, m)'
  BY DEF HasLock
<1> QED
  BY <1>1, <1>2, PurposeStays DEF rowVars

LEMMA RefuseKeepsPurposes ==
  ASSUME FInv, NEW r \in Requests, Refuse(r)
  PROVE  \A s \in Requests : Purpose(s)'
<1>1. tx'[r].step = "idle"
  BY DEF Refuse, Finish, GoOn, FInv, IInv, RequestsFit, Idle
<1>2. Purpose(r)'
  BY <1>1 DEF Purpose, ClaimFits, GrantFits, EndsOwn
<1>3. /\ GoOn(r, Idle) /\ UNCHANGED rowVars
      /\ locks' = {l \in locks : l.by # r}
  BY DEF Refuse, Finish
<1> QED
  BY <1>2, <1>3, QuietKeepsPurposes

\* A request that goes on to a step without purpose, with a lock more or without.
LEMMA MoveKeepsPurposes ==
  ASSUME FInv, NEW r \in Requests, NEW state, GoOn(r, state), UNCHANGED rowVars,
         locks' = locks \/ \E rows, mode : Lock(r, rows, mode),
         state.step \notin {"claiming", "pairing", "granting", "granted access", "ended"}
  PROVE  \A s \in Requests : Purpose(s)'
<1>1. tx'[r].step = state.step
  BY DEF GoOn, FInv, IInv, RequestsFit
<1>2. Purpose(r)'
  BY <1>1 DEF Purpose, ClaimFits, GrantFits, EndsOwn
<1>3. ASSUME NEW rows, NEW mode, Lock(r, rows, mode)
      PROVE  /\ \A l \in locks' : l.by = r \/ l \in locks
             /\ \A l \in locks : l \in locks'
  BY <1>3, LockFrame
<1>4. /\ \A l \in locks' : l.by = r \/ l \in locks
      /\ \A l \in locks : l.by = r \/ l \in locks'
  BY <1>3
<1> QED
  BY <1>2, <1>4, QuietKeepsPurposes

\* A request that has written its rows.
LEMMA FinishKeepsPurposes ==
  ASSUME FInv, NEW r \in Requests, Finish(r),
         \A s \in Requests \ {r} : Purpose(s)'
  PROVE  \A s \in Requests : Purpose(s)'
<1>1. tx'[r].step = "idle"
  BY DEF Finish, GoOn, FInv, IInv, RequestsFit, Idle
<1>2. Purpose(r)'
  BY <1>1 DEF Purpose, ClaimFits, GrantFits, EndsOwn
<1> QED
  BY <1>2

\* What a request that ends leaves the others.
LEMMA FinishSparesOthers ==
  ASSUME FInv, NEW r \in Requests, Finish(r), NEW s \in Requests \ {r}
  PROVE  /\ tx'[s] = tx[s]
         /\ \A row, m : HasLock(s, row, m) <=> HasLock(s, row, m)'
BY DEF Finish, GoOn, FInv, IInv, RequestsFit, HasLock

-----------------------------------------------------------------------------
LEMMA ClaimCodeKeepsPurposes ==
  ASSUME FInv, NEW r \in Requests, NEW k \in Codes, ClaimCode(r, k)
  PROVE  \A s \in Requests : Purpose(s)'
<1>1. tx'[r] = [step |-> "claiming", code |-> k, children |-> codes[k]]
  BY DEF ClaimCode, GoOn, FInv, IInv, RequestsFit
<1>2. codes[k] # {} /\ codes' = codes
  BY DEF ClaimCode, rowVars
<1>3. Purpose(r)'
  BY <1>1, <1>2 DEF Purpose, ClaimFits, GrantFits, EndsOwn
<1>4. /\ \A l \in locks' : l.by = r \/ l \in locks
      /\ \A l \in locks : l.by = r \/ l \in locks'
  BY DEF ClaimCode, Lock
<1> QED
  BY <1>3, <1>4, QuietKeepsPurposes DEF ClaimCode

LEMMA CheckCodeChildrenKeepsPurposes ==
  ASSUME FInv, NEW r \in Requests, CheckCodeChildren(r)
  PROVE  \A s \in Requests : Purpose(s)'
<1>1. CASE Refuse(r)
  BY <1>1, RefuseKeepsPurposes
<1>2. CASE GoOn(r, [tx[r] EXCEPT !.step = "pairing"]) /\ UNCHANGED <<rowVars, locks>>
  <2>1. tx[r] \in Claiming /\ tx[r].step = "claiming" /\ Purpose(r)
    BY StepTellsState DEF CheckCodeChildren, FInv, IInv, RequestsFit, Fits
  <2>2. /\ tx'[r].step = "pairing"
        /\ tx'[r].code = tx[r].code
        /\ tx'[r].children = tx[r].children
    BY <1>2, <2>1 DEF Claiming, GoOn, FInv, IInv, RequestsFit
  <2>3. Purpose(r)'
    BY <1>2, <2>1, <2>2 DEF Purpose, ClaimFits, GrantFits, EndsOwn, rowVars
  <2> QED
    BY <1>2, <2>3, QuietKeepsPurposes
<1> QED
  BY <1>1, <1>2 DEF CheckCodeChildren

LEMMA CodeChangeKeepsPurposes ==
  ASSUME FInv, UNCHANGED <<active, pairedBy, revoked, access, sessions, tx, locks>>,
         NEW k \in Codes, codes' = [codes EXCEPT ![k] = codes'[k]],
         codes'[k] = {} \/ \A l \in locks : l.row # CodeRow(k)
  PROVE  \A s \in Requests : Purpose(s)'
<1> SUFFICES ASSUME NEW s \in Requests PROVE Purpose(s)'
  OBVIOUS
<1>1. DOMAIN codes = Codes
  BY DEF FInv, IInv, RowsFit, RowsOK
<1>2. \A j \in Codes : HasLock(s, CodeRow(j), "update") => codes'[j] \in {codes[j], {}}
  BY <1>1 DEF HasLock
<1>3. \A row, m : HasLock(s, row, m) <=> HasLock(s, row, m)'
  BY DEF HasLock
<1> QED
  BY <1>2, <1>3, PurposeStays

LEMMA PairDeviceKeepsPurposes ==
  ASSUME FInv, NEW r \in Requests, NEW d \in Devices, PairDevice(r, d)
  PROVE  \A s \in Requests : Purpose(s)'
<1>1. /\ Finish(r) /\ codes' = [codes EXCEPT ![tx[r].code] = {}]
      /\ UNCHANGED <<active, revoked, sessions>>
  BY DEF PairDevice
<1>2. ASSUME NEW s \in Requests \ {r} PROVE Purpose(s)'
  <2>1. \A k \in Codes : codes'[k] \in {codes[k], {}}
    BY <1>1 DEF FInv, IInv, RowsFit, RowsOK
  <2> QED
    BY <1>1, <2>1, FinishSparesOthers, PurposeStays
<1> QED
  BY <1>1, <1>2, FinishKeepsPurposes

LEMMA EndSessionsKeepsPurposes ==
  ASSUME FInv, NEW r \in Requests, EndSessions(r)
  PROVE  \A s \in Requests : Purpose(s)'
<1> DEFINE rows == SessionRows(SessionsOf(tx[r].device))
<1>1. /\ Lock(r, rows, "update") /\ UNCHANGED rowVars
      /\ GoOn(r, [tx[r] EXCEPT !.step = "ended"]) /\ tx[r].step = "selected"
  BY DEF EndSessions
<1>2. tx[r] \in Selecting
  BY <1>1, StepTellsState DEF FInv, IInv, RequestsFit, Fits
<1>3. tx'[r].step = "ended" /\ tx'[r].device = tx[r].device
  BY <1>1, <1>2 DEF Selecting, GoOn, FInv, IInv, RequestsFit
<1>4. ASSUME NEW t \in Tokens, HasLock(r, SessionRow(t), "update")'
      PROVE  t \in SessionsOf(tx[r].device)
  <2>1. ~HasLock(r, SessionRow(t), "update")
    <3>1. ASSUME HasLock(r, SessionRow(t), "update") PROVE FALSE
      <4>1. InOrder([by |-> r, row |-> SessionRow(t), mode |-> "update"], tx[r])
        BY <3>1 DEF FInv, LocksInOrder, HasLock
      <4> QED
        BY <1>1, <4>1, RowKinds DEF InOrder
    <3> QED
      BY <3>1
  <2>2. SessionRow(t) \in rows
    BY <1>1, <1>4, <2>1 DEF Lock, HasLock
  <2> QED
    BY <2>2 DEF SessionRows, SessionRow
<1>5. \A t \in SessionsOf(tx[r].device) : sessions[t] \in Opened /\ sessions[t].device = tx[r].device
  BY DEF SessionsOf, FInv, IInv, RowsFit, SessionsFit
<1>6. Purpose(r)'
  BY <1>1, <1>3, <1>4, <1>5 DEF Purpose, ClaimFits, GrantFits, EndsOwn, rowVars
<1>7. /\ \A l \in locks' : l.by = r \/ l \in locks
      /\ \A l \in locks : l.by = r \/ l \in locks'
  BY <1>1 DEF Lock
<1> QED
  BY <1>1, <1>6, <1>7, QuietKeepsPurposes

\* The ends of a transaction that withdraws: no other relied on what it takes.
LEMMA EndingKeepsPurposes ==
  ASSUME FInv, NEW r \in Requests, Finish(r), NEW ts, sessions' = Ended(ts),
         codes' = codes,
         \A s \in Requests \ {r}, c \in active :
           HasLock(s, ChildRow(c), "share") => c \in active'
  PROVE  \A s \in Requests : Purpose(s)'
<1>1. \A t \in Tokens : sessions[t] \in Opened =>
        sessions'[t] \in Opened /\ sessions'[t].device = sessions[t].device
  BY EndedKeeps DEF FInv, IInv, RowsFit
<1>2. ASSUME NEW s \in Requests \ {r} PROVE Purpose(s)'
  <2>1. /\ tx'[s] = tx[s]
        /\ \A row, m : HasLock(s, row, m) <=> HasLock(s, row, m)'
    BY FinishSparesOthers
  <2>2. \A c \in active : HasLock(s, ChildRow(c), "share") => c \in active'
    OBVIOUS
  <2> QED
    BY <1>1, <2>1, <2>2, PurposeStays
<1> QED
  BY <1>2, FinishKeepsPurposes

\* The sessions that a selection has locked are those of its device.
LEMMA EndedAreOwn ==
  ASSUME FInv, NEW r \in Requests, tx[r].step = "ended",
         NEW t \in Tokens, NEW l \in locks, l.by = r, l.row = SessionRow(t)
  PROVE  /\ sessions[t] \in Opened /\ sessions[t].device = tx[r].device
         /\ HasLock(r, SessionRow(t), "update")
<1>1. l = [by |-> l.by, row |-> l.row, mode |-> l.mode]
  BY DEF FInv, IInv, LocksFit, LocksExclude
<1>2. l.mode = "update"
  BY DEF FInv, IInv, RequestsFit, Fits, SelectionFits
<1>3. HasLock(r, SessionRow(t), "update")
  BY <1>1, <1>2 DEF HasLock
<1> QED
  BY <1>3 DEF FInv, Purpose, EndsOwn

LEMMA OpenSessionKeepsPurposes ==
  ASSUME FInv, NEW r \in Requests, NEW t \in Tokens, OpenSession(r, t)
  PROVE  \A s \in Requests : Purpose(s)'
<1> DEFINE ended == {s \in Tokens : \E l \in locks : l.by = r /\ l.row = SessionRow(s)}
           new == [device |-> tx[r].device, child |-> tx[r].child, live |-> TRUE]
<1>1. /\ sessions' = [Ended(ended) EXCEPT ![t] = new]
      /\ sessions[t] = Unused
      /\ Finish(r) /\ UNCHANGED <<active, codes, pairedBy, revoked, access>>
  BY DEF OpenSession
<1> HIDE DEF ended, new
<1>2. ASSUME NEW u \in Tokens, sessions[u] \in Opened
      PROVE  sessions'[u] \in Opened /\ sessions'[u].device = sessions[u].device
  <2>1. u # t
    BY <1>1, <1>2, UnusedIsNone
  <2>2. sessions'[u] = Ended(ended)[u]
    BY <1>1, <2>1 DEF Ended
  <2> QED
    BY <1>2, <2>2, EndedKeeps DEF FInv, IInv, RowsFit
<1>3. ASSUME NEW s \in Requests \ {r} PROVE Purpose(s)'
  BY <1>1, <1>2, FinishSparesOthers, PurposeStays
<1> QED
  BY <1>1, <1>3, FinishKeepsPurposes

LEMMA LockForAccessKeepsPurposes ==
  ASSUME FInv, NEW r \in Requests, NEW d \in Devices, NEW cs \in SUBSET Children,
         LockForAccess(r, d, cs)
  PROVE  \A s \in Requests : Purpose(s)'
<1>1. tx'[r] = [step |-> "granting", device |-> d, children |-> cs]
  BY DEF LockForAccess, GoOn, FInv, IInv, RequestsFit
<1>2. cs # {}
  BY DEF LockForAccess
<1>3. Purpose(r)'
  BY <1>1, <1>2 DEF Purpose, ClaimFits, GrantFits, EndsOwn
<1>4. /\ \A l \in locks' : l.by = r \/ l \in locks
      /\ \A l \in locks : l.by = r \/ l \in locks'
  BY DEF LockForAccess, Lock
<1> QED
  BY <1>3, <1>4, QuietKeepsPurposes DEF LockForAccess

LEMMA ShareChildrenKeepsPurposes ==
  ASSUME FInv, NEW r \in Requests, ShareChildren(r)
  PROVE  \A s \in Requests : Purpose(s)'
<1> DEFINE rows == {ChildRow(c) : c \in tx[r].children \cap active}
           state == [tx[r] EXCEPT !.step = "granted access"]
<1>1. CASE Refuse(r)
  BY <1>1, RefuseKeepsPurposes
<1>2. CASE /\ tx[r].children \subseteq active
           /\ Lock(r, rows, "share") /\ GoOn(r, state) /\ UNCHANGED rowVars
  <2>1. tx[r] \in Granting /\ tx[r].step = "granting" /\ Purpose(r)
    BY StepTellsState DEF ShareChildren, FInv, IInv, RequestsFit, Fits
  <2>2. tx'[r].step = "granted access" /\ tx'[r].children = tx[r].children
    BY <1>2, <2>1 DEF Granting, GoOn, FInv, IInv, RequestsFit
  <2>3. \A c \in tx[r].children : c \in active' /\ HasLock(r, ChildRow(c), "share")'
    BY <1>2 DEF Lock, HasLock, rowVars
  <2>4. Purpose(r)'
    BY <2>1, <2>2, <2>3 DEF Purpose, ClaimFits, GrantFits, EndsOwn
  <2>5. /\ \A l \in locks' : l.by = r \/ l \in locks
        /\ \A l \in locks : l.by = r \/ l \in locks'
    BY <1>2, LockFrame
  <2> QED
    BY <1>2, <2>4, <2>5, QuietKeepsPurposes
<1> QED
  BY <1>1, <1>2 DEF ShareChildren

LEMMA DeactivateKeepsPurposes ==
  ASSUME FInv, NEW r \in Requests, Deactivate(r)
  PROVE  \A s \in Requests : Purpose(s)'
<1>1. HasLock(r, ChildRow(tx[r].child), "update")
  BY DEF Deactivate, FInv, IInv, RequestsFit, Fits, ChildHeld
<1>2. /\ active' = active \ {tx[r].child}
      /\ sessions' = Ended(SessionsOfChild(tx[r].child))
      /\ Finish(r) /\ codes' = codes
  BY DEF Deactivate
<1>3. \A s \in Requests \ {r}, c \in active : HasLock(s, ChildRow(c), "share") => c \in active'
  BY <1>1, <1>2, UpdateExcludes DEF FInv, IInv, LocksFit
<1> QED
  BY <1>2, <1>3, EndingKeepsPurposes

LEMMA SetAccessKeepsPurposes ==
  ASSUME FInv, NEW r \in Requests, SetAccess(r)
  PROVE  \A s \in Requests : Purpose(s)'
<1> DEFINE gone == {t \in SessionsOf(tx[r].device) : sessions[t].child \notin tx[r].children}
<1>1. Finish(r) /\ sessions' = Ended(gone) /\ codes' = codes /\ active' = active
  BY DEF SetAccess
<1> HIDE DEF gone
<1> QED
  BY <1>1, EndingKeepsPurposes

LEMMA RevokeDeviceKeepsPurposes ==
  ASSUME FInv, NEW r \in Requests, RevokeDevice(r)
  PROVE  \A s \in Requests : Purpose(s)'
BY EndingKeepsPurposes DEF RevokeDevice

\* The steps without purpose.
LEMMA ConfirmKeepsPurposes ==
  ASSUME FInv, NEW r \in Requests, NEW row, NEW yes, NEW next,
         Confirm(r, row, yes, next),
         tx[r].step \in {"found", "device", "access", "child"},
         next \in {"device", "access", "child", "granted"}
  PROVE  \A s \in Requests : Purpose(s)'
<1> DEFINE state == [tx[r] EXCEPT !.step = next]
<1>1. state.step = next
  BY NextStep DEF FInv
<1> HIDE DEF state
<1>2. CASE GoOn(r, state) /\ Lock(r, {row}, "share") /\ UNCHANGED rowVars
  BY <1>1, <1>2, MoveKeepsPurposes
<1>3. CASE Refuse(r)
  BY <1>3, RefuseKeepsPurposes
<1> QED
  BY <1>2, <1>3 DEF Confirm, state

LEMMA BeginKeepsPurposes ==
  ASSUME FInv, NEW r \in Requests, Begin(r)
  PROVE  \A s \in Requests : Purpose(s)'
<1>1. ASSUME NEW k \in Codes, ClaimCode(r, k)
      PROVE  \A s \in Requests : Purpose(s)'
  BY <1>1, ClaimCodeKeepsPurposes
<1>2. ASSUME NEW d \in Devices, NEW c \in Children, LockForSelect(r, d, c)
      PROVE  \A s \in Requests : Purpose(s)'
  BY <1>2, MoveKeepsPurposes DEF LockForSelect
<1>3. ASSUME NEW d \in Devices, NEW cs \in SUBSET Children, LockForAccess(r, d, cs)
      PROVE  \A s \in Requests : Purpose(s)'
  BY <1>3, LockForAccessKeepsPurposes
<1>4. ASSUME NEW d \in Devices, LockForRevoke(r, d)
      PROVE  \A s \in Requests : Purpose(s)'
  BY <1>4, MoveKeepsPurposes DEF LockForRevoke
<1>5. ASSUME NEW c \in Children, BeginDeactivate(r, c)
      PROVE  \A s \in Requests : Purpose(s)'
  BY <1>5, MoveKeepsPurposes DEF BeginDeactivate
<1>6. ASSUME NEW t \in Tokens, FindSession(r, t)
      PROVE  \A s \in Requests : Purpose(s)'
  BY <1>6, MoveKeepsPurposes DEF FindSession
<1> QED
  BY <1>1, <1>2, <1>3, <1>4, <1>5, <1>6 DEF Begin

LEMMA ProceedKeepsPurposes ==
  ASSUME FInv, NEW r \in Requests, Proceed(r)
  PROVE  \A s \in Requests : Purpose(s)'
<1>1. CASE CheckCodeChildren(r)
  BY <1>1, CheckCodeChildrenKeepsPurposes
<1>2. ASSUME NEW d \in Devices, PairDevice(r, d)
      PROVE  \A s \in Requests : Purpose(s)'
  BY <1>2, PairDeviceKeepsPurposes
<1>3. CASE CheckAccess(r)
  <2> DEFINE state == [tx[r] EXCEPT !.step = "selected"]
  <2>1. state.step = "selected"
    BY <1>3, NextStep DEF CheckAccess, FInv
  <2> HIDE DEF state
  <2>2. CASE GoOn(r, state) /\ UNCHANGED <<rowVars, locks>>
    BY <2>1, <2>2, MoveKeepsPurposes
  <2> QED
    BY <1>3, <2>2, RefuseKeepsPurposes DEF CheckAccess, state
<1>4. CASE EndSessions(r)
  BY <1>4, EndSessionsKeepsPurposes
<1>5. ASSUME NEW t \in Tokens, OpenSession(r, t)
      PROVE  \A s \in Requests : Purpose(s)'
  BY <1>5, OpenSessionKeepsPurposes
<1>6. CASE ShareChildren(r)
  BY <1>6, ShareChildrenKeepsPurposes
<1>7. CASE SetAccess(r)
  BY <1>7, SetAccessKeepsPurposes
<1>8. CASE RevokeDevice(r)
  BY <1>8, RevokeDeviceKeepsPurposes
<1>9. ASSUME NEW d \in Devices, LockNextDevice(r, d)
      PROVE  \A s \in Requests : Purpose(s)'
  <2> DEFINE state == [tx[r] EXCEPT !.devices = @ \ {d}]
  <2>1. tx[r] \in Locking /\ tx[r].step = "locking"
    BY <1>9, StepTellsState DEF LockNextDevice, FInv, IInv, RequestsFit, Fits
  <2>2. state.step = "locking"
    BY <2>1 DEF Locking
  <2> HIDE DEF state
  <2>3. GoOn(r, state) /\ Lock(r, {DeviceRow(d)}, "update") /\ UNCHANGED rowVars
    BY <1>9 DEF LockNextDevice, state
  <2> QED
    BY <2>2, <2>3, MoveKeepsPurposes
<1>10. CASE UpdateChild(r)
  BY <1>10, MoveKeepsPurposes DEF UpdateChild
<1>11. CASE Deactivate(r)
  BY <1>11, DeactivateKeepsPurposes
<1>12. CASE ConfirmDevice(r)
  BY <1>12, ConfirmKeepsPurposes DEF ConfirmDevice
<1>13. CASE ConfirmAccess(r)
  BY <1>13, ConfirmKeepsPurposes DEF ConfirmAccess
<1>14. CASE ConfirmChild(r)
  BY <1>14, ConfirmKeepsPurposes DEF ConfirmChild
<1>15. CASE ConfirmSession(r)
  BY <1>15, ConfirmKeepsPurposes DEF ConfirmSession
<1>16. CASE EndAdmission(r)
  BY <1>16, RefuseKeepsPurposes DEF EndAdmission
<1> QED
  BY <1>1, <1>2, <1>3, <1>4, <1>5, <1>6, <1>7, <1>8, <1>9, <1>10, <1>11, <1>12, <1>13,
     <1>14, <1>15, <1>16 DEF Proceed

LEMMA NextKeepsFInv ==
  ASSUME FInv, [Next]_vars
  PROVE  FInv'
<1>1. IInv' /\ LocksInOrder'
  BY NextKeepsInv, NextInOrder DEF FInv
<1>2. \A s \in Requests : Purpose(s)'
  <2>1. ASSUME NEW k \in Codes, NEW cs \in SUBSET Children, CreatePairingCode(k, cs)
        PROVE  \A s \in Requests : Purpose(s)'
    <3>1. codes' = [codes EXCEPT ![k] = codes'[k]]
      BY <2>1 DEF CreatePairingCode, FInv, IInv, RowsFit, RowsOK
    <3> QED
      BY <2>1, <3>1, CodeChangeKeepsPurposes DEF CreatePairingCode
  <2>2. ASSUME NEW k \in Codes, ExpireCode(k)
        PROVE  \A s \in Requests : Purpose(s)'
    <3>1. codes' = [codes EXCEPT ![k] = codes'[k]] /\ codes'[k] = {}
      BY <2>2 DEF ExpireCode, FInv, IInv, RowsFit, RowsOK
    <3> QED
      BY <2>2, <3>1, CodeChangeKeepsPurposes DEF ExpireCode
  <2>3. ASSUME NEW r \in Requests, Begin(r) \/ Proceed(r)
        PROVE  \A s \in Requests : Purpose(s)'
    BY <2>3, BeginKeepsPurposes, ProceedKeepsPurposes
  <2>4. CASE UNCHANGED vars
    BY <2>4 DEF vars, rowVars, FInv, Purpose, ClaimFits, GrantFits, EndsOwn, HasLock
  <2> QED
    BY <2>1, <2>2, <2>3, <2>4 DEF Next
<1> QED
  BY <1>1, <1>2 DEF FInv

-----------------------------------------------------------------------------
(***************************************************************************)
(* What the family sees of a state, and of a step.                         *)
(***************************************************************************)

\* A code is locked by one request at most: it is open for the children that one knows.
LEMMA ClaimedCode ==
  ASSUME FInv, NEW r \in Requests, NEW k \in Codes, Claims(r, k)
  PROVE  OpenCodes[k] = tx[r].children /\ tx[r].children # {}
<1>1. ASSUME NEW q \in Requests, Claims(q, k) PROVE HasLock(q, CodeRow(k), "update")
  BY <1>1 DEF Claims, FInv, IInv, RequestsFit, Fits, CodeHeld
<1>2. ASSUME NEW q \in Requests, Claims(q, k) PROVE q = r
  BY <1>1, <1>2, UpdateExcludes DEF FInv, IInv, LocksFit
<1>3. {q \in Requests : Claims(q, k)} = {r}
  BY <1>2
<1>4. OpenCodes[k] = codes[k] \cup UNION {tx[q].children : q \in {q \in Requests : Claims(q, k)}}
  BY DEF OpenCodes, Claims
<1>5. codes[k] \in {tx[r].children, {}} /\ tx[r].children # {}
  BY DEF FInv, Purpose, ClaimFits, Claims
<1>6. UNION {tx[q].children : q \in {r}} = tx[r].children
  OBVIOUS
<1> QED
  BY <1>3, <1>4, <1>5, <1>6

LEMMA UnclaimedCode ==
  ASSUME NEW k \in Codes, \A q \in Requests : ~Claims(q, k)
  PROVE  OpenCodes[k] = codes[k]
<1>1. {q \in Requests : Claims(q, k)} = {}
  OBVIOUS
<1>2. OpenCodes[k] = codes[k] \cup UNION {tx[q].children : q \in {q \in Requests : Claims(q, k)}}
  BY DEF OpenCodes, Claims
<1>3. UNION {tx[q].children : q \in {}} = {}
  OBVIOUS
<1> QED
  BY <1>1, <1>2, <1>3

\* The same of the state after a step.
ClaimedCodesFit ==
  \A r \in Requests, k \in Codes : Claims(r, k) => OpenCodes[k] = tx[r].children

LEMMA ClaimedCodes == FInv => ClaimedCodesFit
BY ClaimedCode DEF ClaimedCodesFit

LEMMA ClaimedCodesThen == FInv' => ClaimedCodesFit'
BY ClaimedCodes, PTL

LEMMA UnclaimedCodeThen ==
  ASSUME NEW k \in Codes, \A q \in Requests : ~Claims(q, k)'
  PROVE  OpenCodes'[k] = codes'[k]
<1>1. {q \in Requests : Claims(q, k)'} = {}
  OBVIOUS
<1>2. OpenCodes'[k] = codes'[k] \cup
        UNION {tx'[q].children : q \in {q \in Requests : Claims(q, k)'}}
  BY DEF OpenCodes, Claims
<1>3. UNION {tx'[q].children : q \in {}} = {}
  OBVIOUS
<1> QED
  BY <1>1, <1>2, <1>3

\* A code that no request comes to claim or gives up, and that stays as it was.
LEMMA CodeStays ==
  ASSUME NEW r \in Requests, \A s \in Requests \ {r} : tx'[s] = tx[s],
         NEW k \in Codes, codes'[k] = codes[k],
         Claims(r, k)' <=> Claims(r, k),
         Claims(r, k) => tx'[r].children = tx[r].children
  PROVE  OpenCodes'[k] = OpenCodes[k]
<1> DEFINE claim(q) == tx[q].children
           claimThen(q) == tx'[q].children
<1>1. \A q \in Requests : Claims(q, k)' <=> Claims(q, k)
  BY DEF Claims
<1>2. {q \in Requests : Claims(q, k)'} = {q \in Requests : Claims(q, k)}
  BY <1>1
<1>3. \A q \in {q \in Requests : Claims(q, k)} : claimThen(q) = claim(q)
  OBVIOUS
<1>4. OpenCodes[k] = codes[k] \cup UNION {claim(q) : q \in {q \in Requests : Claims(q, k)}}
  BY DEF OpenCodes, Claims
<1>5. OpenCodes'[k] = codes'[k] \cup
        UNION {claimThen(q) : q \in {q \in Requests : Claims(q, k)'}}
  BY DEF OpenCodes, Claims
<1> HIDE DEF claim, claimThen
<1>6. {claimThen(q) : q \in {q \in Requests : Claims(q, k)}}
        = {claim(q) : q \in {q \in Requests : Claims(q, k)}}
  BY <1>3
<1> QED
  BY <1>2, <1>4, <1>5, <1>6

LEMMA CodesStay ==
  ASSUME NEW r \in Requests, \A s \in Requests \ {r} : tx'[s] = tx[s],
         codes' = codes,
         tx[r].step \notin {"claiming", "pairing"},
         tx'[r].step \notin {"claiming", "pairing"}
  PROVE  OpenCodes' = OpenCodes
<1>1. \A k \in Codes : OpenCodes'[k] = OpenCodes[k]
  BY CodeStays DEF Claims
<1>2. OpenCodes = [k \in Codes |-> OpenCodes[k]] /\ OpenCodes' = [k \in Codes |-> OpenCodes'[k]]
  BY DEF OpenCodes
<1> QED
  BY <1>1, <1>2

\* What is selected once some sessions have ended.
LEMMA SelectedEnds ==
  ASSUME FInv, NEW ts, sessions' = Ended(ts), NEW gone,
         \A t \in LiveSessions :
           t \in ts <=> <<sessions[t].device, sessions[t].child>> \in gone
  PROVE  Selected' = Selected \ gone
<1>1. /\ LiveSessions' = LiveSessions \ ts
      /\ \A t \in LiveSessions' : sessions'[t] = sessions[t]
  BY EndingKeepsRows DEF FInv
<1>2. Selected' = {<<sessions'[t].device, sessions'[t].child>> : t \in LiveSessions'}
  BY DEF Selected
<1>3. \A t \in LiveSessions' : sessions'[t].device = sessions[t].device
                               /\ sessions'[t].child = sessions[t].child
  BY <1>1
<1>4. Selected' = {<<sessions[t].device, sessions[t].child>> : t \in LiveSessions \ ts}
  BY <1>1, <1>2, <1>3
<1> QED
  BY <1>4 DEF Selected

\* Nobody comes or goes.
LEMMA ActingStays ==
  ASSUME FInv, NEW r \in Requests, \A s \in Requests \ {r} : tx'[s] = tx[s],
         tx[r].step # "granted", tx'[r].step # "granted",
         \A t \in Tokens : sessions[t] \in Opened => sessions'[t].device = sessions[t].device
  PROVE  Admitting' = Admitting
<1>1. ASSUME NEW s \in Requests, tx[s].step = "granted"
      PROVE  tx'[s].step = "granted" /\ Session(s)'.device = Session(s).device
  <2>1. tx'[s] = tx[s] /\ Fits(s)
    BY <1>1 DEF FInv, IInv, RequestsFit
  <2>2. tx[s].token \in Tokens /\ Session(s) \in Opened
    BY <1>1, <2>1, StepTellsState DEF Fits, Asking, SessionConfirmed
  <2> QED
    BY <1>1, <2>1, <2>2 DEF Session
<1>2. ASSUME NEW s \in Requests, tx'[s].step = "granted" PROVE tx[s].step = "granted"
  BY <1>2
<1>3. {q \in Requests : tx'[q].step = "granted"} = {q \in Requests : tx[q].step = "granted"}
  BY <1>1, <1>2
<1>4. Admitting' = {Session(q)'.device : q \in {q \in Requests : tx'[q].step = "granted"}}
  BY DEF Admitting
<1>5. \A q \in {q \in Requests : tx[q].step = "granted"} : Session(q)'.device = Session(q).device
  BY <1>1
<1> QED
  BY <1>3, <1>4, <1>5 DEF Admitting

\* Who is being admitted on a device is so by the session that is live on it, and has
\* it locked.
LEMMA AdmittedByLiveSession ==
  ASSUME FInv, NEW s \in Requests, tx[s].step = "granted",
         NEW t \in LiveSessions, Session(s).device = sessions[t].device
  PROVE  tx[s].token = t /\ HasLock(s, SessionRow(t), "share")
<1>1. Fits(s)
  BY DEF FInv, IInv, RequestsFit
<1>2. tx[s].token \in Tokens
  BY <1>1, StepTellsState DEF Fits, Asking
<1>3. Session(s).live /\ HasLock(s, SessionRow(tx[s].token), "share")
  BY <1>1 DEF Fits, SessionConfirmed
<1>4. tx[s].token \in LiveSessions /\ sessions[tx[s].token].device = sessions[t].device
  BY <1>2, <1>3 DEF Session, LiveSessions
<1>5. tx[s].token = t
  BY <1>4 DEF FInv, IInv, RowsFit, OneLiveSession
<1> QED
  BY <1>3, <1>5

\* So nobody is being admitted by the sessions that a request may lock for update.
LEMMA NobodyIsAdmittedBy ==
  ASSUME FInv, NEW r \in Requests, tx[r].step # "granted",
         NEW t \in LiveSessions,
         \A s \in Requests \ {r} : ~HasLock(s, SessionRow(t), "share")
  PROVE  sessions[t].device \notin Admitting
<1> SUFFICES ASSUME NEW s \in Requests, tx[s].step = "granted",
                    Session(s).device = sessions[t].device
             PROVE  FALSE
  BY DEF Admitting
<1> QED
  BY AdmittedByLiveSession

-----------------------------------------------------------------------------
(***************************************************************************)
(* Every step is a step of the family or none.                             *)
(***************************************************************************)

Unseen ==
  UNCHANGED <<active, OpenCodes, pairedBy, revoked, access, Selected, Admitting>>

\* Between its first statement and its last a request changes nothing for the family.
LEMMA QuietIsUnseen ==
  ASSUME FInv, NEW r \in Requests, NEW state, GoOn(r, state), UNCHANGED rowVars,
         tx[r].step \notin {"claiming", "pairing", "granted"},
         state.step \notin {"claiming", "pairing", "granted"}
  PROVE  Unseen
<1>1. /\ tx'[r].step = state.step
      /\ \A s \in Requests \ {r} : tx'[s] = tx[s]
  BY DEF GoOn, FInv, IInv, RequestsFit
<1>2. UNCHANGED <<active, codes, pairedBy, revoked, access, sessions>>
  BY DEF rowVars
<1>3. OpenCodes' = OpenCodes
  BY <1>1, <1>2, CodesStay
<1>4. Selected' = Selected
  BY <1>2 DEF Selected, LiveSessions
<1>5. Admitting' = Admitting
  BY <1>1, <1>2, ActingStays
<1> QED
  BY <1>2, <1>3, <1>4, <1>5 DEF Unseen

LEMMA RefuseIsUnseen ==
  ASSUME FInv, NEW r \in Requests, Refuse(r),
         tx[r].step \notin {"claiming", "pairing", "granted"}
  PROVE  Unseen
BY QuietIsUnseen DEF Refuse, Finish, Idle

LEMMA ClaimCodeIsUnseen ==
  ASSUME FInv, FInv', NEW r \in Requests, NEW k \in Codes, ClaimCode(r, k)
  PROVE  Unseen
<1>1. /\ tx'[r] = [step |-> "claiming", code |-> k, children |-> codes[k]]
      /\ \A s \in Requests \ {r} : tx'[s] = tx[s]
      /\ tx[r] = Idle
  BY DEF ClaimCode, GoOn, FInv, IInv, RequestsFit
<1>2. UNCHANGED <<active, codes, pairedBy, revoked, access, sessions>>
  BY DEF ClaimCode, rowVars
<1>3. tx[r].step = "idle" /\ tx'[r].step = "claiming"
  BY <1>1 DEF Idle
<1>4. OpenCodes'[k] = OpenCodes[k]
  <2>1. Claims(r, k)'
    BY <1>1 DEF Claims
  <2>2. OpenCodes'[k] = codes[k]
    BY <1>1, <2>1, ClaimedCodesThen DEF ClaimedCodesFit
  <2>3. ASSUME NEW q \in Requests, Claims(q, k) PROVE FALSE
    <3>1. q # r
      BY <1>3, <2>3 DEF Claims
    <3>2. HasLock(q, CodeRow(k), "update")
      BY <2>3 DEF Claims, FInv, IInv, RequestsFit, Fits, CodeHeld
    <3> QED
      BY <3>1, <3>2, MayLockExcludes DEF ClaimCode
  <2>4. OpenCodes[k] = codes[k]
    BY <2>3, UnclaimedCode
  <2> QED
    BY <2>2, <2>4
<1>5. \A j \in Codes \ {k} : OpenCodes'[j] = OpenCodes[j]
  <2>1. \A j \in Codes \ {k} : ~Claims(r, j) /\ ~Claims(r, j)'
    BY <1>1, <1>3 DEF Claims
  <2> QED
    BY <1>1, <1>2, <2>1, CodeStays
<1>6. OpenCodes' = OpenCodes
  <2>1. OpenCodes = [j \in Codes |-> OpenCodes[j]] /\ OpenCodes' = [j \in Codes |-> OpenCodes'[j]]
    BY DEF OpenCodes
  <2> QED
    BY <1>4, <1>5, <2>1
<1>7. Selected' = Selected /\ Admitting' = Admitting
  BY <1>1, <1>2, <1>3, ActingStays DEF Selected, LiveSessions
<1> QED
  BY <1>2, <1>6, <1>7 DEF Unseen

\* A claim that is refused leaves its code as it was, or lets it expire.
LEMMA CheckCodeChildrenImplements ==
  ASSUME FInv, NEW r \in Requests, CheckCodeChildren(r)
  PROVE  Unseen \/ \E k \in Codes : Family!LetCodeExpire(k)
<1>1. PICK k \in Codes :
        k = tx[r].code /\ tx[r] \in Claiming /\ tx[r].step = "claiming"
  <2>1. tx[r] \in Claiming /\ tx[r].step = "claiming"
    BY StepTellsState DEF CheckCodeChildren, FInv, IInv, RequestsFit, Fits
  <2> QED
    BY <2>1 DEF Claiming
<1>2. UNCHANGED <<active, codes, pairedBy, revoked, access, sessions>>
  BY DEF CheckCodeChildren, Refuse, rowVars
<1>3. \A s \in Requests \ {r} : tx'[s] = tx[s]
  BY DEF CheckCodeChildren, Refuse, Finish, GoOn, FInv, IInv, RequestsFit
<1>4. \/ tx'[r] = Idle
      \/ tx'[r].step = "pairing" /\ tx'[r].code = k /\ tx'[r].children = tx[r].children
  BY <1>1 DEF CheckCodeChildren, Refuse, Finish, Claiming, GoOn, FInv, IInv, RequestsFit
<1>5. Selected' = Selected /\ Admitting' = Admitting
  <2>1. tx'[r].step # "granted"
    BY <1>4 DEF Idle
  <2> QED
    BY <1>1, <1>2, <1>3, <2>1, ActingStays DEF Selected, LiveSessions
<1>6. \A j \in Codes \ {k} : OpenCodes'[j] = OpenCodes[j]
  <2>1. \A j \in Codes \ {k} : ~Claims(r, j) /\ ~Claims(r, j)'
    BY <1>1, <1>4 DEF Claims, Idle
  <2> QED
    BY <1>2, <1>3, <2>1, CodeStays
<1>7. /\ OpenCodes = [j \in Codes |-> OpenCodes[j]]
      /\ OpenCodes' = [j \in Codes |-> OpenCodes'[j]]
  BY DEF OpenCodes
<1>8. OpenCodes[k] = tx[r].children /\ OpenCodes[k] # {}
  BY <1>1, ClaimedCode DEF Claims
<1>9. CASE tx'[r].step = "pairing" /\ tx'[r].code = k /\ tx'[r].children = tx[r].children
  <2>1. Claims(r, k)' /\ Claims(r, k)
    BY <1>1, <1>9 DEF Claims
  <2>2. OpenCodes'[k] = OpenCodes[k]
    BY <1>1, <1>2, <1>3, <1>9, <2>1, CodeStays
  <2>3. OpenCodes' = OpenCodes
    BY <1>6, <1>7, <2>2
  <2> QED
    BY <1>2, <1>5, <2>3 DEF Unseen
<1>10. CASE tx'[r] = Idle
  <2>1. codes[k] \in {tx[r].children, {}}
    BY <1>1 DEF FInv, Purpose, ClaimFits
  <2>2. OpenCodes'[k] = codes[k]
    <3>1. ASSUME NEW q \in Requests, Claims(q, k)' PROVE FALSE
      <4>1. q # r /\ Claims(q, k)
        BY <1>3, <1>10, <3>1 DEF Claims, Idle
      <4>2. HasLock(q, CodeRow(k), "update") /\ HasLock(r, CodeRow(k), "update")
        BY <1>1, <4>1 DEF Claims, FInv, IInv, RequestsFit, Fits, CodeHeld
      <4> QED
        BY <4>1, <4>2, UpdateExcludes DEF FInv, IInv, LocksFit
    <3> QED
      BY <1>1, <1>2, <3>1, UnclaimedCodeThen
  <2>3. CASE codes[k] = tx[r].children
    <3>1. OpenCodes' = OpenCodes
      BY <1>6, <1>7, <1>8, <2>2, <2>3
    <3> QED
      BY <1>2, <1>5, <3>1 DEF Unseen
  <2>4. CASE codes[k] = {}
    <3>1. OpenCodes' = [OpenCodes EXCEPT ![k] = {}]
      BY <1>6, <1>7, <2>2, <2>4
    <3>2. Family!LetCodeExpire(k)
      BY <1>2, <1>5, <1>8, <3>1 DEF Family!LetCodeExpire
    <3> QED
      BY <1>1, <3>2
  <2> QED
    BY <2>1, <2>3, <2>4
<1> QED
  BY <1>4, <1>9, <1>10

LEMMA CreatePairingCodeImplements ==
  ASSUME FInv, NEW k \in Codes, NEW cs \in SUBSET Children, CreatePairingCode(k, cs)
  PROVE  Family!IssueCode(k, cs)
<1>1. /\ codes[k] = {} /\ \A d \in Devices : pairedBy[d] # k
      /\ \A l \in locks : l.row # CodeRow(k)
      /\ cs # {} /\ cs \subseteq active
      /\ codes' = [codes EXCEPT ![k] = cs]
      /\ UNCHANGED <<active, pairedBy, revoked, access, sessions, tx, locks>>
  BY DEF CreatePairingCode
<1>2. codes'[k] = cs /\ \A j \in Codes \ {k} : codes'[j] = codes[j]
  BY <1>1 DEF FInv, IInv, RowsFit, RowsOK
<1>3. ASSUME NEW q \in Requests PROVE ~Claims(q, k) /\ ~Claims(q, k)'
  <2>1. Claims(q, k) => HasLock(q, CodeRow(k), "update")
    BY DEF Claims, FInv, IInv, RequestsFit, Fits, CodeHeld
  <2> QED
    BY <1>1, <2>1 DEF Claims, HasLock
<1>4. OpenCodes[k] = {}
  BY <1>1, <1>3, UnclaimedCode
<1>5. OpenCodes'[k] = cs
  BY <1>2, <1>3, UnclaimedCodeThen
<1>6. \A j \in Codes \ {k} : OpenCodes'[j] = OpenCodes[j]
  BY <1>1, <1>2 DEF OpenCodes
<1>7. OpenCodes' = [OpenCodes EXCEPT ![k] = cs]
  <2>1. OpenCodes = [j \in Codes |-> OpenCodes[j]] /\ OpenCodes' = [j \in Codes |-> OpenCodes'[j]]
    BY DEF OpenCodes
  <2> QED
    BY <1>5, <1>6, <2>1
<1>8. Selected' = Selected /\ Admitting' = Admitting
  BY <1>1 DEF Selected, LiveSessions, Admitting, Session
<1> QED
  BY <1>1, <1>4, <1>7, <1>8 DEF Family!IssueCode

\* A code that expires while it is being claimed stays open to the claim.
LEMMA ExpireCodeImplements ==
  ASSUME FInv, NEW k \in Codes, ExpireCode(k)
  PROVE  Unseen \/ Family!LetCodeExpire(k)
<1>1. /\ codes[k] # {}
      /\ codes' = [codes EXCEPT ![k] = {}]
      /\ UNCHANGED <<active, pairedBy, revoked, access, sessions, tx, locks>>
  BY DEF ExpireCode
<1>2. codes'[k] = {} /\ \A j \in Codes \ {k} : codes'[j] = codes[j]
  BY <1>1 DEF FInv, IInv, RowsFit, RowsOK
<1>3. \A j \in Codes \ {k} : OpenCodes'[j] = OpenCodes[j]
  BY <1>1, <1>2 DEF OpenCodes
<1>4. OpenCodes = [j \in Codes |-> OpenCodes[j]] /\ OpenCodes' = [j \in Codes |-> OpenCodes'[j]]
  BY DEF OpenCodes
<1>5. Selected' = Selected /\ Admitting' = Admitting
  BY <1>1 DEF Selected, LiveSessions, Admitting, Session
<1>6. CASE \A q \in Requests : ~Claims(q, k)
  <2>1. \A q \in Requests : ~Claims(q, k)'
    BY <1>1, <1>6 DEF Claims
  <2>2. OpenCodes[k] = codes[k] /\ OpenCodes'[k] = {}
    BY <1>2, <1>6, <2>1, UnclaimedCode, UnclaimedCodeThen
  <2>3. OpenCodes' = [OpenCodes EXCEPT ![k] = {}]
    BY <1>3, <1>4, <2>2
  <2> QED
    BY <1>1, <1>5, <2>2, <2>3 DEF Family!LetCodeExpire
<1>7. CASE \E q \in Requests : Claims(q, k)
  <2>1. PICK q \in Requests : Claims(q, k)
    BY <1>7
  <2>2. OpenCodes[k] = tx[q].children
    BY <2>1, ClaimedCode
  <2>3. codes[k] \in {tx[q].children, {}}
    BY <2>1 DEF FInv, Purpose, ClaimFits, Claims
  <2>4. OpenCodes[k] = codes[k] \cup OpenCodes'[k]
    <3> DEFINE claimed == UNION {tx[p].children : p \in
                 {p \in Requests : tx[p].step \in {"claiming", "pairing"} /\ tx[p].code = k}}
    <3>1. OpenCodes[k] = codes[k] \cup claimed
      BY DEF OpenCodes
    <3>2. OpenCodes'[k] = codes'[k] \cup claimed
      BY <1>1 DEF OpenCodes
    <3> HIDE DEF claimed
    <3> QED
      BY <1>2, <3>1, <3>2
  <2>5. tx[q].children \subseteq OpenCodes'[k]
    <3>1. tx'[q].children = tx[q].children /\ Claims(q, k)'
      BY <1>1, <2>1 DEF Claims
    <3> QED
      BY <3>1 DEF OpenCodes, Claims
  <2>6. OpenCodes'[k] = OpenCodes[k]
    BY <2>2, <2>4, <2>5
  <2>7. OpenCodes' = OpenCodes
    BY <1>3, <1>4, <2>6
  <2> QED
    BY <1>1, <1>5, <2>7 DEF Unseen
<1> QED
  BY <1>6, <1>7

LEMMA PairDeviceImplements ==
  ASSUME FInv, NEW r \in Requests, NEW d \in Devices, PairDevice(r, d)
  PROVE  \E k \in Codes : Family!Pair(k, d)
<1>1. PICK k \in Codes : k = tx[r].code /\ tx[r].step = "pairing"
  <2>1. tx[r] \in Claiming /\ tx[r].step = "pairing"
    BY StepTellsState DEF PairDevice, FInv, IInv, RequestsFit, Fits
  <2> QED
    BY <2>1 DEF Claiming
<1>2. PICK cs : cs = tx[r].children
  OBVIOUS
<1>3. /\ d \notin Paired
      /\ codes' = [codes EXCEPT ![k] = {}]
      /\ pairedBy' = [pairedBy EXCEPT ![d] = k]
      /\ access' = access \cup ({d} \X cs)
      /\ Finish(r)
      /\ UNCHANGED <<active, revoked, sessions>>
  BY <1>1, <1>2 DEF PairDevice
<1>4. tx'[r] = Idle /\ \A s \in Requests \ {r} : tx'[s] = tx[s]
  BY <1>3 DEF Finish, GoOn, FInv, IInv, RequestsFit
<1>5. OpenCodes[k] = cs /\ cs # {}
  BY <1>1, <1>2, ClaimedCode DEF Claims
<1>6. codes'[k] = {} /\ \A j \in Codes \ {k} : codes'[j] = codes[j]
  BY <1>3 DEF FInv, IInv, RowsFit, RowsOK
<1>7. OpenCodes'[k] = {}
  <2>1. ASSUME NEW q \in Requests, Claims(q, k)' PROVE FALSE
    <3>1. q # r /\ Claims(q, k)
      BY <1>4, <2>1 DEF Claims, Idle
    <3>2. HasLock(q, CodeRow(k), "update") /\ HasLock(r, CodeRow(k), "update")
      BY <1>1, <3>1 DEF Claims, FInv, IInv, RequestsFit, Fits, CodeHeld
    <3> QED
      BY <3>1, <3>2, UpdateExcludes DEF FInv, IInv, LocksFit
  <2> QED
    BY <1>6, <2>1, UnclaimedCodeThen
<1>8. \A j \in Codes \ {k} : OpenCodes'[j] = OpenCodes[j]
  <2>1. \A j \in Codes \ {k} : ~Claims(r, j) /\ ~Claims(r, j)'
    BY <1>1, <1>4 DEF Claims, Idle
  <2> QED
    BY <1>4, <1>6, <2>1, CodeStays
<1>9. OpenCodes' = [OpenCodes EXCEPT ![k] = {}]
  <2>1. OpenCodes = [j \in Codes |-> OpenCodes[j]] /\ OpenCodes' = [j \in Codes |-> OpenCodes'[j]]
    BY DEF OpenCodes
  <2> QED
    BY <1>7, <1>8, <2>1
<1>10. Selected' = Selected /\ Admitting' = Admitting
  <2>1. tx[r].step # "granted" /\ tx'[r].step # "granted"
    BY <1>1, <1>4 DEF Idle
  <2> QED
    BY <1>3, <1>4, <2>1, ActingStays DEF Selected, LiveSessions
<1>11. pairedBy[d] = "none"
  BY <1>3 DEF Paired
<1> QED
  BY <1>3, <1>5, <1>9, <1>10, <1>11 DEF Family!Pair

\* What the commits of the requests that withdraw have in common.
LEMMA CommitIsSeen ==
  ASSUME FInv, NEW r \in Requests, Finish(r), codes' = codes,
         tx[r].step \notin {"claiming", "pairing", "granted"},
         \A t \in Tokens : sessions[t] \in Opened => sessions'[t].device = sessions[t].device
  PROVE  OpenCodes' = OpenCodes /\ Admitting' = Admitting
<1>1. tx'[r] = Idle /\ \A s \in Requests \ {r} : tx'[s] = tx[s]
  BY DEF Finish, GoOn, FInv, IInv, RequestsFit
<1>2. tx'[r].step = "idle"
  BY <1>1 DEF Idle
<1> QED
  BY <1>1, <1>2, CodesStay, ActingStays

LEMMA EndingIsSeen ==
  ASSUME FInv, NEW r \in Requests, Finish(r), codes' = codes,
         tx[r].step \notin {"claiming", "pairing", "granted"},
         NEW ts \in SUBSET LiveSessions, MayLock(r, SessionRows(ts), "update"),
         sessions' = Ended(ts),
         NEW gone, gone \subseteq Selected,
         \A t \in LiveSessions :
           t \in ts <=> <<sessions[t].device, sessions[t].child>> \in gone
  PROVE  /\ UNCHANGED <<OpenCodes, Admitting>>
         /\ Selected' = Selected \ gone
         /\ Family!NotAdmitting(gone)
<1>1. \A t \in Tokens : sessions[t] \in Opened => sessions'[t].device = sessions[t].device
  BY EndedKeeps DEF FInv, IInv, RowsFit
<1>2. UNCHANGED <<OpenCodes, Admitting>>
  BY <1>1, CommitIsSeen
<1>3. Selected' = Selected \ gone
  BY SelectedEnds
<1>4. ASSUME NEW p \in gone PROVE p[1] \notin Admitting
  <2>1. PICK t \in LiveSessions : p = <<sessions[t].device, sessions[t].child>>
    BY DEF Selected
  <2>2. t \in ts
    BY <2>1
  <2>3. \A s \in Requests \ {r} : ~HasLock(s, SessionRow(t), "share")
    BY <2>2, MayLockExcludes DEF SessionRows
  <2> QED
    BY <2>1, <2>3, NobodyIsAdmittedBy
<1> QED
  BY <1>2, <1>3, <1>4 DEF Family!NotAdmitting

LEMMA RevokeDeviceImplements ==
  ASSUME FInv, NEW r \in Requests, RevokeDevice(r)
  PROVE  \E d \in Devices : Family!Revoke(d)
<1>1. PICK d \in Devices : d = tx[r].device /\ tx[r].step = "revoking" /\ d \in Paired
  BY DEF RevokeDevice, FInv, IInv, RequestsFit, Fits, DeviceHeld, Holding, Paired
<1> DEFINE gone == {p \in Selected : p[1] = d}
           ts == SessionsOf(d)
<1>2. /\ MayLock(r, SessionRows(ts), "update") /\ sessions' = Ended(ts)
      /\ revoked' = revoked \cup {d} /\ Finish(r)
      /\ UNCHANGED <<active, codes, pairedBy, access>>
  BY <1>1 DEF RevokeDevice
<1>3. /\ ts \in SUBSET LiveSessions
      /\ \A t \in LiveSessions :
           t \in ts <=> <<sessions[t].device, sessions[t].child>> \in gone
  BY DEF SessionsOf, LiveSessions, Selected
<1>4. gone \subseteq Selected
  OBVIOUS
<1> HIDE DEF gone, ts
<1>5. /\ UNCHANGED <<OpenCodes, Admitting>>
      /\ Selected' = Selected \ gone
      /\ Family!NotAdmitting(gone)
  BY <1>1, <1>2, <1>3, <1>4, EndingIsSeen
<1>6. pairedBy[d] # "none"
  BY <1>1 DEF Paired
<1> QED
  BY <1>2, <1>5, <1>6 DEF Family!Revoke, gone

LEMMA DeactivateImplements ==
  ASSUME FInv, NEW r \in Requests, Deactivate(r)
  PROVE  \E c \in Children : Family!Deactivate(c)
<1>1. PICK c \in Children : c = tx[r].child /\ tx[r].step = "deactivating"
  <2>1. tx[r] \in Deactivating /\ tx[r].step = "deactivating"
    BY StepTellsState DEF Deactivate, FInv, IInv, RequestsFit, Fits
  <2> QED
    BY <2>1 DEF Deactivating
<1> DEFINE gone == {p \in Selected : p[2] = c}
           ts == SessionsOfChild(c)
<1>2. /\ MayLock(r, SessionRows(ts), "update") /\ sessions' = Ended(ts)
      /\ active' = active \ {c} /\ Finish(r)
      /\ UNCHANGED <<codes, pairedBy, revoked, access>>
  BY <1>1 DEF Deactivate
<1>3. /\ ts \in SUBSET LiveSessions
      /\ \A t \in LiveSessions :
           t \in ts <=> <<sessions[t].device, sessions[t].child>> \in gone
  BY DEF SessionsOfChild, LiveSessions, Selected
<1>4. gone \subseteq Selected
  OBVIOUS
<1> HIDE DEF gone, ts
<1>5. /\ UNCHANGED <<OpenCodes, Admitting>>
      /\ Selected' = Selected \ gone
      /\ Family!NotAdmitting(gone)
  BY <1>1, <1>2, <1>3, <1>4, EndingIsSeen
<1> QED
  BY <1>2, <1>5 DEF Family!Deactivate, gone

LEMMA SetAccessImplements ==
  ASSUME FInv, NEW r \in Requests, SetAccess(r)
  PROVE  \E d \in Devices, cs \in SUBSET Children : Family!Grant(d, cs)
<1>1. tx[r] \in Granting /\ tx[r].step = "granted access"
  BY StepTellsState DEF SetAccess, FInv, IInv, RequestsFit, Fits
<1>2. PICK d \in Devices, cs \in SUBSET Children : d = tx[r].device /\ cs = tx[r].children
  BY <1>1 DEF Granting
<1>3. d \in Paired \ revoked
  BY <1>1, <1>2 DEF FInv, IInv, RequestsFit, Fits, DeviceHeld, Holding
<1>4. cs # {} /\ cs \subseteq active
  BY <1>1, <1>2 DEF FInv, Purpose, GrantFits
<1> DEFINE gone == {p \in Selected : p[1] = d /\ p[2] \notin cs}
           ts == {t \in SessionsOf(d) : sessions[t].child \notin cs}
<1>5. /\ MayLock(r, SessionRows(ts), "update") /\ sessions' = Ended(ts)
      /\ access' = {a \in access : a[1] # d} \cup ({d} \X cs)
      /\ Finish(r) /\ UNCHANGED <<active, codes, pairedBy, revoked>>
  BY <1>2 DEF SetAccess
<1>6. /\ ts \in SUBSET LiveSessions
      /\ \A t \in LiveSessions :
           t \in ts <=> <<sessions[t].device, sessions[t].child>> \in gone
  BY DEF SessionsOf, LiveSessions, Selected
<1>7. gone \subseteq Selected
  OBVIOUS
<1> HIDE DEF gone, ts
<1>8. /\ UNCHANGED <<OpenCodes, Admitting>>
      /\ Selected' = Selected \ gone
      /\ Family!NotAdmitting(gone)
  BY <1>1, <1>5, <1>6, <1>7, EndingIsSeen
<1>9. d \in Family!Usable
  BY <1>3 DEF Family!Usable, Paired
<1>10. Family!Grant(d, cs)
  BY <1>4, <1>5, <1>8, <1>9 DEF Family!Grant, gone
<1> QED
  BY <1>10

\* Nobody has locked a session of the device since: the one that is opened takes the
\* place of those the selection has locked.
LEMMA OpenSessionImplements ==
  ASSUME FInv, NEW r \in Requests, NEW t \in Tokens, OpenSession(r, t)
  PROVE  \E d \in Devices, c \in Children : Family!Select(d, c)
<1>1. tx[r] \in Selecting /\ tx[r].step = "ended"
  BY StepTellsState DEF OpenSession, FInv, IInv, RequestsFit, Fits
<1>2. PICK d \in Devices, c \in Children : d = tx[r].device /\ c = tx[r].child
  BY <1>1 DEF Selecting
<1>3. /\ d \in Paired \ revoked
      /\ <<d, c>> \in access
      /\ \A s \in SessionsOf(d) : HasLock(r, SessionRow(s), "update")
  BY <1>1, <1>2 DEF FInv, IInv, RequestsFit, Fits, DeviceHeld, SelectionFits, Holding
<1> DEFINE before == {p \in Selected : p[1] = d}
           ended == {s \in Tokens : \E l \in locks : l.by = r /\ l.row = SessionRow(s)}
           new == [device |-> d, child |-> c, live |-> TRUE]
<1>4. /\ sessions' = [Ended(ended) EXCEPT ![t] = new]
      /\ sessions[t] = Unused
      /\ Finish(r) /\ UNCHANGED <<active, codes, pairedBy, revoked, access>>
  BY <1>2 DEF OpenSession
<1>5. ASSUME NEW s \in ended PROVE sessions[s] \in Opened /\ sessions[s].device = d
  BY <1>1, <1>2, EndedAreOwn
<1>6. \A s \in SessionsOf(d) : s \in ended
  BY <1>3 DEF HasLock, SessionsOf
<1> HIDE DEF ended
<1>7. /\ t \notin LiveSessions
      /\ sessions'[t] = new
      /\ \A s \in Tokens \ {t} : sessions'[s] = Ended(ended)[s]
  BY <1>4, UnusedIsNone DEF LiveSessions, Ended
<1>8. ASSUME NEW s \in Tokens
      PROVE  /\ s \notin ended => Ended(ended)[s] = sessions[s]
             /\ s \in ended => ~Ended(ended)[s].live
             /\ sessions[s] \in Opened => Ended(ended)[s].device = sessions[s].device
  BY EndedKeeps DEF FInv, IInv, RowsFit
<1>9. \A s \in Tokens : sessions[s] \in Opened => sessions'[s].device = sessions[s].device
  BY <1>4, <1>7, <1>8, UnusedIsNone
<1>10. UNCHANGED <<OpenCodes, Admitting>>
  BY <1>1, <1>4, <1>9, CommitIsSeen
<1>11. LiveSessions' = (LiveSessions \ ended) \cup {t}
  <2>1. new.live
    OBVIOUS
  <2>2. \A s \in Tokens \ {t} : sessions'[s].live <=> sessions[s].live /\ s \notin ended
    BY <1>7, <1>8
  <2> QED
    BY <1>7, <2>1, <2>2 DEF LiveSessions
<1>12. \A s \in LiveSessions : s \in ended <=> sessions[s].device = d
  BY <1>5, <1>6 DEF LiveSessions, SessionsOf
<1>13. Selected' = (Selected \ before) \cup {<<d, c>>}
  <2> DEFINE pick(s) == <<sessions[s].device, sessions[s].child>>
             pickThen(s) == <<sessions'[s].device, sessions'[s].child>>
  <2>1. Selected' = {pickThen(s) : s \in LiveSessions'}
    BY DEF Selected
  <2>2. pickThen(t) = <<d, c>>
    BY <1>7
  <2>3. \A s \in LiveSessions \ ended : pickThen(s) = pick(s)
    BY <1>7, <1>8 DEF LiveSessions
  <2>4. Selected \ before = {pick(s) : s \in LiveSessions \ ended}
    BY <1>12 DEF Selected
  <2> HIDE DEF pick, pickThen, before
  <2>5. Selected' = {pick(s) : s \in LiveSessions \ ended} \cup {<<d, c>>}
    BY <1>11, <2>1, <2>2, <2>3
  <2> QED
    BY <2>4, <2>5
<1>14. Family!NotAdmitting(before)
  <2>1. ASSUME NEW p \in before PROVE p[1] \notin Admitting
    <3>1. PICK s \in LiveSessions : p = <<sessions[s].device, sessions[s].child>>
      BY DEF Selected
    <3>2. s \in SessionsOf(d)
      BY <2>1, <3>1 DEF SessionsOf, LiveSessions
    <3>3. \A q \in Requests \ {r} : ~HasLock(q, SessionRow(s), "share")
      BY <1>3, <3>2, UpdateExcludes DEF FInv, IInv, LocksFit
    <3> QED
      BY <1>1, <3>1, <3>3, NobodyIsAdmittedBy
  <2> QED
    BY <2>1 DEF Family!NotAdmitting
<1>15. d \in Family!Usable
  BY <1>3 DEF Family!Usable, Paired
<1> HIDE DEF new
<1>16. Family!Select(d, c)
  BY <1>3, <1>4, <1>10, <1>13, <1>14, <1>15 DEF Family!Select
<1> QED
  BY <1>16

LEMMA ConfirmSessionImplements ==
  ASSUME FInv, NEW r \in Requests, ConfirmSession(r)
  PROVE  Unseen \/ \E d \in Devices, c \in Children : Family!Admit(d, c)
<1>1. tx[r] \in Asking /\ tx[r].step = "child" /\ Fits(r)
  BY StepTellsState DEF ConfirmSession, FInv, IInv, RequestsFit, Fits
<1>2. CASE Refuse(r)
  BY <1>1, <1>2, RefuseIsUnseen
<1>3. CASE /\ Session(r).live
           /\ GoOn(r, [tx[r] EXCEPT !.step = "granted"]) /\ UNCHANGED rowVars
  <2>1. /\ tx'[r].step = "granted" /\ tx'[r].token = tx[r].token
        /\ \A s \in Requests \ {r} : tx'[s] = tx[s]
    BY <1>1, <1>3 DEF Asking, GoOn, FInv, IInv, RequestsFit
  <2>2. UNCHANGED <<active, codes, pairedBy, revoked, access, sessions>>
    BY <1>3 DEF rowVars
  <2>3. tx[r].token \in LiveSessions
    BY <1>1, <1>3 DEF Asking, Session, LiveSessions
  <2>4. PICK d \in Devices, c \in Children :
          d = Session(r).device /\ c = Session(r).child
    BY <2>3 DEF Session, FInv, IInv, RowsFit, RowsOK
  <2>5. /\ d \in Paired \ revoked /\ <<d, c>> \in access
        /\ <<d, c>> \in Selected
    BY <2>3, <2>4 DEF Session, Selected, FInv, IInv, RowsFit, LiveSessionFits
  <2>6. c \in active
    BY <1>1, <2>4 DEF Fits, SessionConfirmed
  <2>7. OpenCodes' = OpenCodes /\ Selected' = Selected
    BY <1>1, <2>1, <2>2, CodesStay DEF Selected, LiveSessions
  <2>8. Admitting' = Admitting \cup {d}
    <3>1. \A s \in Requests \ {r} : Session(s)' = Session(s)
      BY <2>1, <2>2 DEF Session
    <3>2. Session(r)'.device = d
      BY <2>1, <2>2, <2>4 DEF Session
    <3>3. {q \in Requests : tx'[q].step = "granted"}
            = {q \in Requests : tx[q].step = "granted"} \cup {r}
      BY <2>1
    <3>4. \A q \in {q \in Requests : tx[q].step = "granted"} : q # r
      BY <1>1
    <3>5. Admitting' = {Session(q)'.device : q \in {q \in Requests : tx'[q].step = "granted"}}
      BY DEF Admitting
    <3> QED
      BY <3>1, <3>2, <3>3, <3>4, <3>5 DEF Admitting
  <2>9. d \in Family!Usable
    BY <2>5 DEF Family!Usable, Paired
  <2>10. Family!Admit(d, c)
    BY <2>2, <2>5, <2>6, <2>7, <2>8, <2>9 DEF Family!Admit
  <2> QED
    BY <2>10
<1> QED
  BY <1>2, <1>3 DEF ConfirmSession, Confirm

\* Another may still be in its admission by the same session.
LEMMA EndAdmissionImplements ==
  ASSUME FInv, NEW r \in Requests, EndAdmission(r)
  PROVE  Unseen \/ \E d \in Devices : Family!EndAdmission(d)
<1>1. tx[r] \in Asking /\ tx[r].step = "granted" /\ Fits(r)
  BY StepTellsState DEF EndAdmission, FInv, IInv, RequestsFit, Fits
<1>2. /\ tx'[r] = Idle
      /\ \A s \in Requests \ {r} : tx'[s] = tx[s]
      /\ UNCHANGED <<active, codes, pairedBy, revoked, access, sessions>>
  BY DEF EndAdmission, Refuse, Finish, GoOn, rowVars, FInv, IInv, RequestsFit
<1>3. tx'[r].step = "idle"
  BY <1>2 DEF Idle
<1>4. PICK d \in Devices : d = Session(r).device
  BY <1>1 DEF Fits, SessionConfirmed, Opened
<1>5. OpenCodes' = OpenCodes /\ Selected' = Selected
  BY <1>1, <1>2, <1>3, CodesStay DEF Selected, LiveSessions
<1> DEFINE others == {q \in Requests \ {r} : tx[q].step = "granted"}
<1>6. Admitting = {Session(q).device : q \in others} \cup {d}
  BY <1>1, <1>4 DEF Admitting
<1>7. Admitting' = {Session(q).device : q \in others}
  <2>1. Admitting' = {Session(q)'.device : q \in {q \in Requests : tx'[q].step = "granted"}}
    BY DEF Admitting
  <2>2. {q \in Requests : tx'[q].step = "granted"} = others
    BY <1>2, <1>3
  <2>3. \A q \in others : Session(q)' = Session(q)
    BY <1>2 DEF Session
  <2> QED
    BY <2>1, <2>2, <2>3
<1> HIDE DEF others
<1>8. Admitting' = Admitting \/ Admitting' = Admitting \ {d}
  BY <1>6, <1>7
<1>9. CASE Admitting' = Admitting
  BY <1>2, <1>5, <1>9 DEF Unseen
<1>10. CASE Admitting' = Admitting \ {d}
  BY <1>2, <1>5, <1>10 DEF Family!EndAdmission
<1> QED
  BY <1>8, <1>9, <1>10

\* The steps that look at one row of a session after the other.
LEMMA ConfirmIsUnseen ==
  ASSUME FInv, NEW r \in Requests, NEW row, NEW yes, NEW next,
         Confirm(r, row, yes, next),
         tx[r].step \in {"found", "device", "access"},
         next \in {"device", "access", "child"}
  PROVE  Unseen
<1> DEFINE state == [tx[r] EXCEPT !.step = next]
<1>1. state.step = next
  BY NextStep DEF FInv
<1> HIDE DEF state
<1>2. CASE GoOn(r, state) /\ UNCHANGED rowVars
  BY <1>1, <1>2, QuietIsUnseen
<1>3. CASE Refuse(r)
  BY <1>3, RefuseIsUnseen
<1> QED
  BY <1>2, <1>3 DEF Confirm, state

LEMMA BeginIsUnseen ==
  ASSUME FInv, FInv', NEW r \in Requests, Begin(r)
  PROVE  Unseen
<1>1. ASSUME NEW k \in Codes, ClaimCode(r, k)
      PROVE  Unseen
  BY <1>1, ClaimCodeIsUnseen
<1>2. ASSUME NEW d \in Devices, NEW c \in Children, LockForSelect(r, d, c)
      PROVE  Unseen
  BY <1>2, QuietIsUnseen DEF LockForSelect, Idle
<1>3. ASSUME NEW d \in Devices, NEW cs \in SUBSET Children, LockForAccess(r, d, cs)
      PROVE  Unseen
  BY <1>3, QuietIsUnseen DEF LockForAccess, Idle
<1>4. ASSUME NEW d \in Devices, LockForRevoke(r, d)
      PROVE  Unseen
  BY <1>4, QuietIsUnseen DEF LockForRevoke, Idle
<1>5. ASSUME NEW c \in Children, BeginDeactivate(r, c)
      PROVE  Unseen
  BY <1>5, QuietIsUnseen DEF BeginDeactivate, Idle
<1>6. ASSUME NEW t \in Tokens, FindSession(r, t)
      PROVE  Unseen
  BY <1>6, QuietIsUnseen DEF FindSession, Idle
<1> QED
  BY <1>1, <1>2, <1>3, <1>4, <1>5, <1>6 DEF Begin

LEMMA MoveIsUnseen ==
  ASSUME FInv, NEW r \in Requests, NEW next,
         GoOn(r, [tx[r] EXCEPT !.step = next]), UNCHANGED rowVars,
         tx[r].step \in {"selecting", "selected", "granting"},
         next \in {"selected", "ended", "granted access"}
  PROVE  Unseen
<1> DEFINE state == [tx[r] EXCEPT !.step = next]
<1>1. state.step = next
  BY NextStep DEF FInv
<1> HIDE DEF state
<1>2. GoOn(r, state)
  BY DEF state
<1> QED
  BY <1>1, <1>2, QuietIsUnseen

LEMMA ProceedImplements ==
  ASSUME FInv, NEW r \in Requests, Proceed(r)
  PROVE  Unseen \/ Family!Next
<1>1. CASE CheckCodeChildren(r)
  BY <1>1, CheckCodeChildrenImplements DEF Family!Next
<1>2. ASSUME NEW d \in Devices, PairDevice(r, d)
      PROVE  Family!Next
  BY <1>2, PairDeviceImplements DEF Family!Next
<1>3. CASE CheckAccess(r)
  BY <1>3, MoveIsUnseen, RefuseIsUnseen DEF CheckAccess
<1>4. CASE EndSessions(r)
  BY <1>4, MoveIsUnseen DEF EndSessions
<1>5. ASSUME NEW t \in Tokens, OpenSession(r, t)
      PROVE  Family!Next
  BY <1>5, OpenSessionImplements DEF Family!Next
<1>6. CASE ShareChildren(r)
  BY <1>6, MoveIsUnseen, RefuseIsUnseen DEF ShareChildren
<1>7. CASE SetAccess(r)
  BY <1>7, SetAccessImplements DEF Family!Next
<1>8. CASE RevokeDevice(r)
  BY <1>8, RevokeDeviceImplements DEF Family!Next
<1>9. ASSUME NEW d \in Devices, LockNextDevice(r, d)
      PROVE  Unseen
  <2> DEFINE state == [tx[r] EXCEPT !.devices = @ \ {d}]
  <2>1. tx[r] \in Locking /\ tx[r].step = "locking"
    BY <1>9, StepTellsState DEF LockNextDevice, FInv, IInv, RequestsFit, Fits
  <2>2. state.step = "locking"
    BY <2>1 DEF Locking
  <2> HIDE DEF state
  <2>3. GoOn(r, state) /\ UNCHANGED rowVars
    BY <1>9 DEF LockNextDevice, state
  <2> QED
    BY <2>1, <2>2, <2>3, QuietIsUnseen
<1>10. CASE UpdateChild(r)
  BY <1>10, QuietIsUnseen DEF UpdateChild
<1>11. CASE Deactivate(r)
  BY <1>11, DeactivateImplements DEF Family!Next
<1>12. CASE ConfirmDevice(r)
  BY <1>12, ConfirmIsUnseen DEF ConfirmDevice
<1>13. CASE ConfirmAccess(r)
  BY <1>13, ConfirmIsUnseen DEF ConfirmAccess
<1>14. CASE ConfirmChild(r)
  BY <1>14, ConfirmIsUnseen DEF ConfirmChild
<1>15. CASE ConfirmSession(r)
  BY <1>15, ConfirmSessionImplements DEF Family!Next
<1>16. CASE EndAdmission(r)
  BY <1>16, EndAdmissionImplements DEF Family!Next
<1> QED
  BY <1>1, <1>2, <1>3, <1>4, <1>5, <1>6, <1>7, <1>8, <1>9, <1>10, <1>11, <1>12, <1>13,
     <1>14, <1>15, <1>16 DEF Proceed

LEMMA StepsImplement ==
  ASSUME FInv, FInv', [Next]_vars
  PROVE  [Family!Next]_(Family!vars)
<1>1. ASSUME NEW k \in Codes, NEW cs \in SUBSET Children, CreatePairingCode(k, cs)
      PROVE  Family!Next
  BY <1>1, CreatePairingCodeImplements DEF Family!Next
<1>2. ASSUME NEW k \in Codes, ExpireCode(k)
      PROVE  Unseen \/ Family!Next
  BY <1>2, ExpireCodeImplements DEF Family!Next
<1>3. ASSUME NEW r \in Requests, Begin(r) \/ Proceed(r)
      PROVE  Unseen \/ Family!Next
  BY <1>3, BeginIsUnseen, ProceedImplements
<1>4. ASSUME UNCHANGED vars PROVE Unseen
  <2>1. UNCHANGED <<active, codes, pairedBy, revoked, access, sessions, tx>>
    BY <1>4 DEF vars, rowVars
  <2>2. OpenCodes' = OpenCodes
    BY <2>1 DEF OpenCodes
  <2>3. Selected' = Selected
    BY <2>1 DEF Selected, LiveSessions
  <2>4. Admitting' = Admitting
    BY <2>1 DEF Admitting, Session
  <2> QED
    BY <2>1, <2>2, <2>3, <2>4 DEF Unseen
<1>5. Unseen => UNCHANGED Family!vars
  BY DEF Unseen, Family!vars
<1> QED
  BY <1>1, <1>2, <1>3, <1>4, <1>5 DEF Next

LEMMA FamilyInit == Init => FInv /\ Family!Init
<1> SUFFICES ASSUME Init PROVE FInv /\ Family!Init
  OBVIOUS
<1>1. \A r \in Requests : tx[r].step = "idle"
  BY DEF Init, Idle
<1>2. FInv
  BY <1>1, InitInv, NoPurpose DEF FInv, Init, LocksInOrder
<1>3. LiveSessions = {}
  BY UnusedIsNone DEF Init, LiveSessions
<1>4. Selected = {} /\ Admitting = {}
  BY <1>1, <1>3 DEF Selected, Admitting
<1>5. OpenCodes = [k \in Codes |-> {}]
  <2>1. \A k \in Codes : OpenCodes[k] = {}
    BY <1>1, UnclaimedCode DEF Claims, Init
  <2>2. OpenCodes = [k \in Codes |-> OpenCodes[k]]
    BY DEF OpenCodes
  <2> QED
    BY <2>1, <2>2
<1> QED
  BY <1>2, <1>4, <1>5 DEF Init, Family!Init

\* However the statements of the requests fall between each other, the family sees each
\* have its whole effect in one step, by what is in the rows then: the transactions on
\* codes, devices, access and sessions behave as if they ran one after the other.
THEOREM FamilyKept == Spec => RunsAsIfAlone
<1>1. Init => FInv /\ Family!Init
  BY FamilyInit
<1>2. FInv /\ [Next]_vars => FInv'
  BY NextKeepsFInv
<1>3. FInv /\ FInv' /\ [Next]_vars => [Family!Next]_(Family!vars)
  BY StepsImplement
<1> QED
  BY <1>1, <1>2, <1>3, PTL DEF Spec, RunsAsIfAlone, Family!Spec

=============================================================================
