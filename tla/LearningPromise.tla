---------------------------- MODULE LearningPromise ----------------------------
(***************************************************************************)
(* What a dictation session promises the family, without rounds, modes,    *)
(* versions or tables: the child is asked a set of words and answers some  *)
(* of the words still unknown at a time, a word's first result is entered  *)
(* once and stays, a known word stays known, and the session is completed  *)
(* by the answer that makes the last word known.                           *)
(***************************************************************************)
CONSTANT Words

VARIABLES
  status,       \* "none", "active", "completed" or "cancelled"
  asked,        \* the words of the session
  firstResult,  \* each word's first result
  known         \* the words the child has got right

vars == <<status, asked, firstResult, known>>

Init ==
  /\ status = "none"
  /\ asked = {}
  /\ firstResult = [w \in Words |-> "unmarked"]
  /\ known = {}

Begin ==
  /\ status = "none"
  /\ status' = "active"
  /\ asked' \in (SUBSET Words) \ {{}}
  /\ UNCHANGED <<firstResult, known>>

\* right and wrong are the words answered, and how.
Answer(right, wrong) ==
  /\ status = "active"
  /\ right \cup wrong # {}
  /\ right \cap wrong = {}
  /\ right \cup wrong \subseteq asked \ known
  /\ firstResult' = [w \in Words |->
       IF firstResult[w] # "unmarked" THEN firstResult[w]
       ELSE IF w \in right THEN "correct"
       ELSE IF w \in wrong THEN "wrong"
       ELSE "unmarked"]
  /\ known' = known \cup right
  /\ status' = IF known' = asked THEN "completed" ELSE "active"
  /\ UNCHANGED asked

Cancel ==
  /\ status = "active"
  /\ status' = "cancelled"
  /\ UNCHANGED <<asked, firstResult, known>>

Next ==
  \/ Begin
  \/ \E right, wrong \in SUBSET Words : Answer(right, wrong)
  \/ Cancel

Spec == Init /\ [][Next]_vars

=============================================================================
