-------------------------- MODULE MCDictationSession --------------------------
(***************************************************************************)
(* Small instances of DictationSession for TLC.                            *)
(***************************************************************************)
EXTENDS DictationSession

SetSeqs == UNION {Injection(1..n, Items) : n \in 1..Cardinality(Items)}

MCTaskLists == {s \in SetSeqs : Len(s) = Cardinality(Items)}

MCPlayLists == SetSeqs

\* Every way to mark some distinct items, each right or wrong.
MCMarkLists ==
  UNION {{[k \in DOMAIN s |-> [item |-> s[k], result |-> r[k]]] :
            r \in [DOMAIN s -> Results]} : s \in SetSeqs}

\* For three words: the task lists 1, 2, 3, and no command names them in another
\* order (the run with two words has all orders).
Ascending(lists) == {s \in lists : \A j, k \in DOMAIN s : j < k => s[j] < s[k]}

MCOneTaskList == Ascending(MCTaskLists)

MCAscendingPlayLists == Ascending(SetSeqs)

MCAscendingMarkLists ==
  {m \in MCMarkLists : [k \in DOMAIN m |-> m[k].item] \in Ascending(SetSeqs)}

\* Command ids are only compared with each other, so it is enough to look at the
\* behaviours that take them in one order.
FreshIdsInOrder == DOMAIN commands' = 1..Cardinality(DOMAIN commands')
=============================================================================
