----------------------------- MODULE FamilyAccess -----------------------------
(***************************************************************************)
(* What a family may rely on of its devices, without transactions,         *)
(* statements and locks: everything that somebody does happens at once, by *)
(* what holds then.  A code makes one device, a device is for one child at *)
(* a time, which it was given, and nothing that entitles a child is        *)
(* withdrawn while the device is being let in for it.  What is withdrawn   *)
(* after that does not stop the request that was let in.                   *)
(***************************************************************************)
CONSTANTS
  Devices,
  Children,
  Codes

VARIABLES
  active,    \* the children that are not deactivated
  codes,     \* the children of each open pairing code, else {}
  pairedBy,  \* the code that made a device, "none" before it exists
  revoked,   \* the devices that were revoked
  access,    \* the children each device is given
  selected,  \* the child that is selected on a device
  admitting  \* the devices that are being let in for that child

vars == <<active, codes, pairedBy, revoked, access, selected, admitting>>

Init ==
  /\ active = Children
  /\ codes = [k \in Codes |-> {}]
  /\ pairedBy = [d \in Devices |-> "none"]
  /\ revoked = {}
  /\ access = {}
  /\ selected = {}
  /\ admitting = {}

Usable == {d \in Devices : pairedBy[d] # "none"} \ revoked

\* None of these is being let in.
NotAdmitting(picks) == \A p \in picks : p[1] \notin admitting

IssueCode(k, cs) ==
  /\ codes[k] = {}
  /\ \A d \in Devices : pairedBy[d] # k
  /\ cs # {}
  /\ cs \subseteq active
  /\ codes' = [codes EXCEPT ![k] = cs]
  /\ UNCHANGED <<active, pairedBy, revoked, access, selected, admitting>>

LetCodeExpire(k) ==
  /\ codes[k] # {}
  /\ codes' = [codes EXCEPT ![k] = {}]
  /\ UNCHANGED <<active, pairedBy, revoked, access, selected, admitting>>

Pair(k, d) ==
  /\ codes[k] # {}
  /\ pairedBy[d] = "none"
  /\ codes' = [codes EXCEPT ![k] = {}]
  /\ pairedBy' = [pairedBy EXCEPT ![d] = k]
  /\ access' = access \cup ({d} \X codes[k])
  /\ UNCHANGED <<active, revoked, selected, admitting>>

\* The device changes from the child it was for, if any.
Select(d, c) ==
  LET before == {p \in selected : p[1] = d} IN
    /\ d \in Usable
    /\ <<d, c>> \in access
    /\ NotAdmitting(before)
    /\ selected' = (selected \ before) \cup {<<d, c>>}
    /\ UNCHANGED <<active, codes, pairedBy, revoked, access, admitting>>

Grant(d, cs) ==
  LET gone == {p \in selected : p[1] = d /\ p[2] \notin cs} IN
    /\ d \in Usable
    /\ cs # {}
    /\ cs \subseteq active
    /\ NotAdmitting(gone)
    /\ access' = {a \in access : a[1] # d} \cup ({d} \X cs)
    /\ selected' = selected \ gone
    /\ UNCHANGED <<active, codes, pairedBy, revoked, admitting>>

Revoke(d) ==
  LET gone == {p \in selected : p[1] = d} IN
    /\ pairedBy[d] # "none"
    /\ NotAdmitting(gone)
    /\ revoked' = revoked \cup {d}
    /\ selected' = selected \ gone
    /\ UNCHANGED <<active, codes, pairedBy, access, admitting>>

Deactivate(c) ==
  LET gone == {p \in selected : p[2] = c} IN
    /\ NotAdmitting(gone)
    /\ active' = active \ {c}
    /\ selected' = selected \ gone
    /\ UNCHANGED <<codes, pairedBy, revoked, access, admitting>>

Admit(d, c) ==
  /\ <<d, c>> \in selected
  /\ d \in Usable
  /\ <<d, c>> \in access
  /\ c \in active
  /\ admitting' = admitting \cup {d}
  /\ UNCHANGED <<active, codes, pairedBy, revoked, access, selected>>

EndAdmission(d) ==
  /\ admitting' = admitting \ {d}
  /\ UNCHANGED <<active, codes, pairedBy, revoked, access, selected>>

Next ==
  \/ \E k \in Codes, cs \in SUBSET Children : IssueCode(k, cs)
  \/ \E k \in Codes : LetCodeExpire(k)
  \/ \E k \in Codes, d \in Devices : Pair(k, d)
  \/ \E d \in Devices, c \in Children : Select(d, c) \/ Admit(d, c)
  \/ \E d \in Devices, cs \in SUBSET Children : Grant(d, cs)
  \/ \E d \in Devices : Revoke(d) \/ EndAdmission(d)
  \/ \E c \in Children : Deactivate(c)

Spec == Init /\ [][Next]_vars

=============================================================================
