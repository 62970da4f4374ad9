----------------------------- MODULE DeviceAccess -----------------------------
(***************************************************************************)
(* Which child may act from which device of a family: pairing codes,       *)
(* devices, the children a device is given, the sessions of the children,  *)
(* and their withdrawal while they are used.                               *)
(*                                                                         *)
(* Source: src/modules/devices/service.ts.  A request is a transaction of  *)
(* several statements.  It sees what is committed when a statement begins, *)
(* holds the row locks it takes to its end, waits for those of others, and *)
(* writes when it commits.                                                 *)
(***************************************************************************)
EXTENDS Integers, FiniteSets

CONSTANTS
  Requests,  \* those that can run at the same time
  Devices,   \* numbers, in the order of devices.id
  Children,
  Codes,
  Tokens     \* bounds the sessions of children, as Codes does the devices

\* The bounds leave a device for every code.
ASSUME DevicesAssumption ==
  /\ Devices \subseteq Nat
  /\ IsFiniteSet(Devices)
  /\ Cardinality(Codes) <= Cardinality(Devices)

\* What says that a device has not been paired is no code.
ASSUME CodesAssumption == "none" \notin Codes

VARIABLES
  active,    \* the children with children.active
  codes,     \* the children of each code that may be claimed, else {}
  pairedBy,  \* the code that made a device; "none" before it exists
  revoked,   \* the devices with revoked_at
  access,    \* device_child_access
  sessions,  \* child_sessions by token; a deleted row is one that is not live
  tx,        \* where each request is
  locks      \* the row locks it holds

rowVars == <<active, codes, pairedBy, revoked, access, sessions>>
vars == <<rowVars, tx, locks>>

Unused == [device |-> 0, live |-> FALSE]
Idle == [step |-> "idle"]

Init ==
  /\ active = Children
  /\ codes = [k \in Codes |-> {}]
  /\ pairedBy = [d \in Devices |-> "none"]
  /\ revoked = {}
  /\ access = {}
  /\ sessions = [t \in Tokens |-> Unused]
  /\ tx = [r \in Requests |-> Idle]
  /\ locks = {}

-----------------------------------------------------------------------------
(***************************************************************************)
(* Rows and locks.                                                         *)
(***************************************************************************)

DeviceRow(d)    == <<"device", d>>
ChildRow(c)     == <<"child", c>>
CodeRow(k)      == <<"code", k>>
SessionRow(t)   == <<"session", t>>
AccessRow(d, c) == <<"access", d, c>>

\* Locks for update exclude all others, those for share only the former.
MayLock(r, rows, mode) ==
  \A l \in locks :
    l.by # r /\ l.row \in rows => l.mode = "share" /\ mode = "share"

Lock(r, rows, mode) ==
  locks' = locks \cup {[by |-> r, row |-> x, mode |-> mode] : x \in rows}

GoOn(r, state) == tx' = [tx EXCEPT ![r] = state]

\* Commit or rollback.
Finish(r) ==
  /\ GoOn(r, Idle)
  /\ locks' = {l \in locks : l.by # r}

Refuse(r) == Finish(r) /\ UNCHANGED rowVars

Paired == {d \in Devices : pairedBy[d] # "none"}

SessionsOf(d) == {t \in Tokens : sessions[t].live /\ sessions[t].device = d}

SessionsOfChild(c) == {t \in Tokens : sessions[t].live /\ sessions[t].child = c}

Ended(ts) ==
  [t \in Tokens |-> IF t \in ts THEN [sessions[t] EXCEPT !.live = FALSE]
                                ELSE sessions[t]]

SessionRows(ts) == {SessionRow(t) : t \in ts}

-----------------------------------------------------------------------------
(***************************************************************************)
(* Pairing.                                                                *)
(***************************************************************************)

\* An expired code leaves its place to a new one.
CreatePairingCode(k, cs) ==
  /\ codes[k] = {}
  /\ \A d \in Devices : pairedBy[d] # k
  /\ \A l \in locks : l.row # CodeRow(k)
  /\ cs # {}
  /\ cs \subseteq active
  /\ codes' = [codes EXCEPT ![k] = cs]
  /\ UNCHANGED <<active, pairedBy, revoked, access, sessions, tx, locks>>

ExpireCode(k) ==
  /\ codes[k] # {}
  /\ codes' = [codes EXCEPT ![k] = {}]
  /\ UNCHANGED <<active, pairedBy, revoked, access, sessions, tx, locks>>

\* Fault: the code is looked up, not taken.
FaultyClaimCode(r, k) ==
  /\ tx[r] = Idle
  /\ codes[k] # {}
  /\ GoOn(r, [step |-> "claiming", code |-> k, children |-> codes[k]])
  /\ UNCHANGED <<rowVars, locks>>

ClaimCode(r, k) ==
  /\ tx[r] = Idle
  /\ codes[k] # {}
  /\ MayLock(r, {CodeRow(k)}, "update")
  /\ Lock(r, {CodeRow(k)}, "update")
  /\ GoOn(r, [step |-> "claiming", code |-> k, children |-> codes[k]])
  /\ UNCHANGED rowVars

\* A code is void when one of its children has been deactivated.
CheckCodeChildren(r) ==
  /\ tx[r].step = "claiming"
  /\ \/ /\ tx[r].children \subseteq active
        /\ GoOn(r, [tx[r] EXCEPT !.step = "pairing"])
        /\ UNCHANGED <<rowVars, locks>>
     \/ /\ ~(tx[r].children \subseteq active)
        /\ Refuse(r)

PairDevice(r, d) ==
  /\ tx[r].step = "pairing"
  /\ d \notin Paired
  /\ codes' = [codes EXCEPT ![tx[r].code] = {}]
  /\ pairedBy' = [pairedBy EXCEPT ![d] = tx[r].code]
  /\ access' = access \cup ({d} \X tx[r].children)
  /\ Finish(r)
  /\ UNCHANGED <<active, revoked, sessions>>

-----------------------------------------------------------------------------
(***************************************************************************)
(* A child is selected on a device.                                        *)
(***************************************************************************)

\* The bound: a selection begins only while there is a token for it.
TokenIsLeft ==
  Cardinality({r \in Requests :
                tx[r].step \in {"selecting", "selected", "ended"}})
    < Cardinality({t \in Tokens : sessions[t] = Unused})

\* Fault: the device is not locked against others that select on it.
FaultyLockForSelect(r, d, c) ==
  /\ tx[r] = Idle
  /\ d \in Paired \ revoked
  /\ TokenIsLeft
  /\ MayLock(r, {DeviceRow(d)}, "share")
  /\ Lock(r, {DeviceRow(d)}, "share")
  /\ GoOn(r, [step |-> "selecting", device |-> d, child |-> c])
  /\ UNCHANGED rowVars

LockForSelect(r, d, c) ==
  /\ tx[r] = Idle
  /\ d \in Paired \ revoked
  /\ TokenIsLeft
  /\ MayLock(r, {DeviceRow(d)}, "update")
  /\ Lock(r, {DeviceRow(d)}, "update")
  /\ GoOn(r, [step |-> "selecting", device |-> d, child |-> c])
  /\ UNCHANGED rowVars

\* Refused without access, or with a PIN that does not fit.
CheckAccess(r) ==
  /\ tx[r].step = "selecting"
  /\ \/ /\ <<tx[r].device, tx[r].child>> \in access
        /\ tx[r].child \in active
        /\ GoOn(r, [tx[r] EXCEPT !.step = "selected"])
        /\ UNCHANGED <<rowVars, locks>>
     \/ Refuse(r)

\* The sessions that are live on the device end, for whichever child.
EndSessions(r) ==
  /\ tx[r].step = "selected"
  /\ LET rows == SessionRows(SessionsOf(tx[r].device)) IN
       /\ MayLock(r, rows, "update")
       /\ Lock(r, rows, "update")
  /\ GoOn(r, [tx[r] EXCEPT !.step = "ended"])
  /\ UNCHANGED rowVars

OpenSession(r, t) ==
  /\ tx[r].step = "ended"
  /\ sessions[t] = Unused
  /\ LET ended == {s \in Tokens : \E l \in locks :
                     l.by = r /\ l.row = SessionRow(s)}
     IN  sessions' = [Ended(ended) EXCEPT ![t] =
                        [device |-> tx[r].device, child |-> tx[r].child,
                         live |-> TRUE]]
  /\ Finish(r)
  /\ UNCHANGED <<active, codes, pairedBy, revoked, access>>

-----------------------------------------------------------------------------
(***************************************************************************)
(* What a guardian changes.                                                *)
(***************************************************************************)

LockForAccess(r, d, cs) ==
  /\ tx[r] = Idle
  /\ d \in Paired \ revoked
  /\ cs # {}
  /\ MayLock(r, {DeviceRow(d)}, "update")
  /\ Lock(r, {DeviceRow(d)}, "update")
  /\ GoOn(r, [step |-> "granting", device |-> d, children |-> cs])
  /\ UNCHANGED rowVars

ShareChildren(r) ==
  /\ tx[r].step = "granting"
  /\ LET rows == {ChildRow(c) : c \in tx[r].children \cap active} IN
       /\ MayLock(r, rows, "share")
       /\ \/ /\ tx[r].children \subseteq active
             /\ Lock(r, rows, "share")
             /\ GoOn(r, [tx[r] EXCEPT !.step = "granted access"])
             /\ UNCHANGED rowVars
          \/ ~(tx[r].children \subseteq active) /\ Refuse(r)

\* The sessions of a child go with its access; the access rows themselves are locked
\* by nobody, as that takes the device first.
SetAccess(r) ==
  /\ tx[r].step = "granted access"
  /\ LET d    == tx[r].device
         gone == {t \in SessionsOf(d) : sessions[t].child \notin tx[r].children}
     IN  /\ MayLock(r, SessionRows(gone), "update")
         /\ access' = {a \in access : a[1] # d} \cup ({d} \X tx[r].children)
         /\ sessions' = Ended(gone)
  /\ Finish(r)
  /\ UNCHANGED <<active, codes, pairedBy, revoked>>

\* Fault: the device is not locked.
FaultyLockForRevoke(r, d) ==
  /\ tx[r] = Idle
  /\ d \in Paired
  /\ GoOn(r, [step |-> "revoking", device |-> d])
  /\ UNCHANGED <<rowVars, locks>>

LockForRevoke(r, d) ==
  /\ tx[r] = Idle
  /\ d \in Paired
  /\ MayLock(r, {DeviceRow(d)}, "update")
  /\ Lock(r, {DeviceRow(d)}, "update")
  /\ GoOn(r, [step |-> "revoking", device |-> d])
  /\ UNCHANGED rowVars

RevokeDevice(r) ==
  /\ tx[r].step = "revoking"
  /\ MayLock(r, SessionRows(SessionsOf(tx[r].device)), "update")
  /\ revoked' = revoked \cup {tx[r].device}
  /\ sessions' = Ended(SessionsOf(tx[r].device))
  /\ Finish(r)
  /\ UNCHANGED <<active, codes, pairedBy, access>>

\* A child is deactivated under the locks of the devices it may use by then.
BeginDeactivate(r, c) ==
  /\ tx[r] = Idle
  /\ GoOn(r, [step |-> "locking", child |-> c,
              devices |-> {d \in Devices : <<d, c>> \in access}])
  /\ UNCHANGED <<rowVars, locks>>

\* Fault: the devices are locked in any order.
FaultyNextDevices(ds) == ds

NextDevices(ds) == {d \in ds : \A other \in ds : d <= other}

LockNextDevice(r, d) ==
  /\ tx[r].step = "locking"
  /\ d \in NextDevices(tx[r].devices)
  /\ MayLock(r, {DeviceRow(d)}, "update")
  /\ Lock(r, {DeviceRow(d)}, "update")
  /\ GoOn(r, [tx[r] EXCEPT !.devices = @ \ {d}])
  /\ UNCHANGED rowVars

UpdateChild(r) ==
  /\ tx[r].step = "locking"
  /\ tx[r].devices = {}
  /\ MayLock(r, {ChildRow(tx[r].child)}, "update")
  /\ Lock(r, {ChildRow(tx[r].child)}, "update")
  /\ GoOn(r, [step |-> "deactivating", child |-> tx[r].child])
  /\ UNCHANGED rowVars

Deactivate(r) ==
  /\ tx[r].step = "deactivating"
  /\ MayLock(r, SessionRows(SessionsOfChild(tx[r].child)), "update")
  /\ active' = active \ {tx[r].child}
  /\ sessions' = Ended(SessionsOfChild(tx[r].child))
  /\ Finish(r)
  /\ UNCHANGED <<codes, pairedBy, revoked, access>>

-----------------------------------------------------------------------------
(***************************************************************************)
(* The admission of a request of a child: the session is looked up, then   *)
(* each row it rests on is locked and looked at once more.  What the       *)
(* request is for is done after the admission, in transactions of its own, *)
(* which do not look at these rows.                                        *)
(***************************************************************************)

Session(r) == sessions[tx[r].token]

FindSession(r, t) ==
  /\ tx[r] = Idle
  /\ sessions[t].live
  /\ sessions[t].device \notin revoked
  /\ <<sessions[t].device, sessions[t].child>> \in access
  /\ sessions[t].child \in active
  /\ GoOn(r, [step |-> "found", token |-> t])
  /\ UNCHANGED <<rowVars, locks>>

\* Locks the row for share and goes on if the row still says yes; what says no is
\* not found, and the request is refused.
Confirm(r, row, yes, next) ==
  \/ /\ yes
     /\ MayLock(r, {row}, "share")
     /\ Lock(r, {row}, "share")
     /\ GoOn(r, [tx[r] EXCEPT !.step = next])
     /\ UNCHANGED rowVars
  \/ ~yes /\ Refuse(r)

ConfirmDevice(r) ==
  /\ tx[r].step = "found"
  /\ Confirm(r, DeviceRow(Session(r).device),
             Session(r).device \notin revoked, "device")

ConfirmAccess(r) ==
  /\ tx[r].step = "device"
  /\ Confirm(r, AccessRow(Session(r).device, Session(r).child),
             <<Session(r).device, Session(r).child>> \in access, "access")

ConfirmChild(r) ==
  /\ tx[r].step = "access"
  /\ Confirm(r, ChildRow(Session(r).child), Session(r).child \in active, "child")

\* Fault: what the lookup said of the session is believed.
FaultyConfirmSession(r) ==
  /\ tx[r].step = "child"
  /\ GoOn(r, [tx[r] EXCEPT !.step = "granted"])
  /\ UNCHANGED <<rowVars, locks>>

ConfirmSession(r) ==
  /\ tx[r].step = "child"
  /\ Confirm(r, SessionRow(tx[r].token), Session(r).live, "granted")

\* The admission commits, and its locks are gone.
EndAdmission(r) ==
  /\ tx[r].step = "granted"
  /\ Refuse(r)

-----------------------------------------------------------------------------

Begin(r) ==
  \/ \E k \in Codes : ClaimCode(r, k)
  \/ \E d \in Devices, c \in Children : LockForSelect(r, d, c)
  \/ \E d \in Devices, cs \in SUBSET Children : LockForAccess(r, d, cs)
  \/ \E d \in Devices : LockForRevoke(r, d)
  \/ \E c \in Children : BeginDeactivate(r, c)
  \/ \E t \in Tokens : FindSession(r, t)

Proceed(r) ==
  \/ CheckCodeChildren(r)
  \/ \E d \in Devices : PairDevice(r, d)
  \/ CheckAccess(r)
  \/ EndSessions(r)
  \/ \E t \in Tokens : OpenSession(r, t)
  \/ ShareChildren(r)
  \/ SetAccess(r)
  \/ RevokeDevice(r)
  \/ \E d \in Devices : LockNextDevice(r, d)
  \/ UpdateChild(r)
  \/ Deactivate(r)
  \/ ConfirmDevice(r)
  \/ ConfirmAccess(r)
  \/ ConfirmChild(r)
  \/ ConfirmSession(r)
  \/ EndAdmission(r)

Next ==
  \/ \E k \in Codes, cs \in SUBSET Children : CreatePairingCode(k, cs)
  \/ \E k \in Codes : ExpireCode(k)
  \/ \E r \in Requests : Begin(r) \/ Proceed(r)

Spec == Init /\ [][Next]_vars

-----------------------------------------------------------------------------
(***************************************************************************)
(* Properties.                                                             *)
(***************************************************************************)

LiveSessions == {t \in Tokens : sessions[t].live}

RowsOK ==
  /\ active \subseteq Children
  /\ codes \in [Codes -> SUBSET Children]
  /\ pairedBy \in [Devices -> Codes \cup {"none"}]
  /\ revoked \subseteq Paired
  /\ access \subseteq Paired \X Children
  /\ \A t \in LiveSessions : sessions[t].device \in Devices
                             /\ sessions[t].child \in Children

LocksHold ==
  /\ \A l \in locks, m \in locks :
       l.row = m.row /\ l.by # m.by => l.mode = "share" /\ m.mode = "share"
  /\ \A l \in locks : tx[l.by] # Idle
  /\ \A r \in Requests :
       tx[r].step \in {"selecting", "selected", "ended", "granting", "granted access",
                       "revoking"} =>
         [by |-> r, row |-> DeviceRow(tx[r].device), mode |-> "update"] \in locks

\* A session does not outlive what it was opened on: when a guardian revokes a
\* device or takes a child's access away, no selection that is under way leaves a
\* session behind that would be live again once the access comes back.
LiveSessionFits ==
  \A t \in LiveSessions :
    /\ sessions[t].device \in Paired \ revoked
    /\ <<sessions[t].device, sessions[t].child>> \in access

\* A row that the next statement of r locks is held by another.
Waits(r) ==
  LET t == tx[r]
      gone == {s \in SessionsOf(t.device) : sessions[s].child \notin t.children}
  IN  \/ /\ t.step \in {"selected", "revoking"}
         /\ ~MayLock(r, SessionRows(SessionsOf(t.device)), "update")
      \/ /\ t.step = "granting"
         /\ ~MayLock(r, {ChildRow(c) : c \in t.children \cap active}, "share")
      \/ /\ t.step = "granted access"
         /\ ~MayLock(r, SessionRows(gone), "update")
      \/ /\ t.step = "locking"
         /\ \E d \in NextDevices(t.devices) : ~MayLock(r, {DeviceRow(d)}, "update")
      \/ /\ t.step = "locking" /\ t.devices = {}
         /\ ~MayLock(r, {ChildRow(t.child)}, "update")
      \/ /\ t.step = "deactivating"
         /\ ~MayLock(r, SessionRows(SessionsOfChild(t.child)), "update")
      \/ /\ t.step = "found"
         /\ ~MayLock(r, {DeviceRow(Session(r).device)}, "share")
      \/ /\ t.step = "device"
         /\ ~MayLock(r, {AccessRow(Session(r).device, Session(r).child)}, "share")
      \/ /\ t.step = "access"
         /\ ~MayLock(r, {ChildRow(Session(r).child)}, "share")
      \/ /\ t.step = "child"
         /\ ~MayLock(r, {SessionRow(t.token)}, "share")

UnderWay == {r \in Requests : tx[r] # Idle}

\* The requests never wait for each other in a circle: of those under way one waits
\* for none.  The locks are taken in one order by all: devices by their ids, then
\* children, then sessions.
NoCircle == UnderWay # {} => \E r \in UnderWay : ~Waits(r)

\* The rows have their types; no two requests hold locks of a row that exclude each
\* other, an idle one holds none, and whoever selects a child on a device, changes
\* its children or revokes it has the device to itself: what the checks between two
\* statements of a transaction rest on; and LiveSessionFits and NoCircle.
AccessInv == RowsOK /\ LocksHold /\ LiveSessionFits /\ NoCircle

\* A device is for one child at a time, however many select on it at once.
OneLiveSession ==
  \A s \in LiveSessions, t \in LiveSessions :
    sessions[s].device = sessions[t].device => s = t

\* When a request has been admitted, and until the admission commits, everything its
\* session rests on is in place at once, whatever was withdrawn since the session
\* was looked up.
ActorIsEntitled ==
  \A r \in Requests :
    tx[r].step = "granted" =>
      /\ Session(r).live
      /\ Session(r).device \notin revoked
      /\ <<Session(r).device, Session(r).child>> \in access
      /\ Session(r).child \in active

\* A pairing code makes one device, however many type it in at once.
CodePairsOnce ==
  \A d \in Paired, other \in Paired :
    pairedBy[d] = pairedBy[other] => d = other

\* Nothing but the locks makes a request wait: as long as one is under way, one of
\* those can go on.
NoRequestIsStuck == UnderWay # {} => \E r \in Requests : ENABLED Proceed(r)

-----------------------------------------------------------------------------
(***************************************************************************)
(* The devices implement FamilyAccess.  A request takes effect when it     *)
(* commits; only a code counts as open while it is being claimed, as its   *)
(* expiry was looked at in the beginning.                                  *)
(***************************************************************************)

OpenCodes ==
  [k \in Codes |-> codes[k] \cup UNION {tx[r].children : r \in
     {q \in Requests : tx[q].step \in {"claiming", "pairing"} /\ tx[q].code = k}}]

Selected == {<<sessions[t].device, sessions[t].child>> : t \in LiveSessions}

\* The devices of the admissions that have looked at their last row and have not
\* committed.
Admitting == {Session(r).device : r \in {q \in Requests : tx[q].step = "granted"}}

Family == INSTANCE FamilyAccess WITH
  codes <- OpenCodes, selected <- Selected, admitting <- Admitting

\* However the statements of pairing, selecting, giving, revoking, deactivating and
\* admitting fall between each other, each has its whole effect at its commit, as if
\* it had run alone by the rows it finds there: a code makes one device, a selection
\* ends just the session before it, what is given is given to children active by
\* then, and a withdrawal is before an admission, which then refuses, or after its
\* commit, never between its last look and its commit.
RunsAsIfAlone == Family!Spec

=============================================================================
