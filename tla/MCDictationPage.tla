---------------------------- MODULE MCDictationPage ----------------------------
(***************************************************************************)
(* A small instance of DictationPage for TLC.                              *)
(***************************************************************************)
EXTENDS DictationPage

MCWords == <<"w1", "w2">>
MCItems == {"w1", "w2"}

\* The lists the pages send.
MCPlayLists == {<<w>> : w \in Items}
MCMarkLists == {}

\* A task that does not allow replays takes the button from the page and lets
\* it do nothing more: no page sends what the session would then refuse.
MCInit == Init /\ replayAllowed
MCSpec == MCInit /\ [][Next]_vars /\ Fairness
=============================================================================
