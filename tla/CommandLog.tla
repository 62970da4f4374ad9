------------------------------ MODULE CommandLog ------------------------------
(***************************************************************************)
(* What the devices of a child may rely on when several of them send       *)
(* commands to one session, each possibly more than once: the session is a *)
(* log that grows by one command at a time, no command is entered twice,   *)
(* and every command was made by a device that had seen all of the log     *)
(* before it.  A closed log stays as it is.                                *)
(***************************************************************************)
EXTENDS Naturals, Sequences, Functions

CONSTANT Commands  \* records with at least the fields id and expectedVersion

VARIABLES
  status,  \* "none", "open" or "closed"
  log

vars == <<status, log>>

Init == status = "none" /\ log = <<>>

Open ==
  /\ status = "none"
  /\ status' = "open"
  /\ UNCHANGED log

\* The command may be the one that completes the session.
Accept(cmd) ==
  /\ status = "open"
  /\ cmd \in Commands
  /\ cmd.expectedVersion = Len(log)
  /\ \A k \in DOMAIN log : log[k].id # cmd.id
  /\ log' = Append(log, cmd)
  /\ status' \in {"open", "closed"}

Close ==
  /\ status = "open"
  /\ status' = "closed"
  /\ UNCHANGED log

\* An accepted command is an entry of the new log: that is where to look for it,
\* as Commands need not be finite.
Next == Open \/ (\E cmd \in Range(log') : Accept(cmd)) \/ Close

Spec == Init /\ [][Next]_vars

=============================================================================
