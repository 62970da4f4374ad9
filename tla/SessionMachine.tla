---------------------------- MODULE SessionMachine ----------------------------
(***************************************************************************)
(* The dictation session state machine: what one session remembers of its  *)
(* rounds, and how a playback report or a batch of marks changes it.       *)
(*                                                                         *)
(* Source: src/modules/dictation/session-machine.ts.  The reducer there is *)
(* a pure function from a state record and an event to a state record, and *)
(* an event that it refuses throws.  Here each branch of the reducer is an *)
(* action on the record's fields, and a refused event is a disabled        *)
(* action.                                                                 *)
(*                                                                         *)
(* An operator introduced as a fault is the operator that follows it with  *)
(* a plausible mistake.  No specification uses it: put in the place of the *)
(* right one, it shows that a property notices the mistake.                *)
(***************************************************************************)
EXTENDS Integers, Sequences, Functions

CONSTANTS
  Items,      \* the identifiers task items can have
  PlayLists,  \* the lists of items a playback report can carry
  MarkLists   \* the lists of marks a grading event can carry

Modes   == {"continuous_batch", "item_by_item"}
Results == {"correct", "wrong"}
Mark    == [item : Items, result : Results]

ASSUME InputsAssumption ==
  /\ PlayLists \subseteq Seq(Items)
  /\ MarkLists \subseteq Seq(Mark)

VARIABLES
  mode,         \* how the child listens: the whole list, or item by item
  itemIds,      \* the list the session was created with
  phase,        \* "listening", "grading" or "completed"; "none" before creation
  roundNumber,
  round,        \* currentRoundItemIds: what this round asks, in order
  played,       \* playedItemIds of this round
  marked,       \* markedItemIds of this round
  first,        \* firstPassMarks: each item's first result in the session
  latest        \* latestMarks: each item's last result in the session

machineVars ==
  <<mode, itemIds, phase, roundNumber, round, played, marked, first, latest>>

Unmarked == [i \in Items |-> "unmarked"]

-----------------------------------------------------------------------------
(***************************************************************************)
(* Creation.                                                               *)
(***************************************************************************)

\* Where the variables stand before the session exists.
NotCreated ==
  /\ itemIds     = <<>>
  /\ phase       = "none"
  /\ roundNumber = 0
  /\ round       = <<>>
  /\ played      = <<>>
  /\ marked      = <<>>
  /\ first       = Unmarked
  /\ latest      = Unmarked

CreateSessionState(list) ==
  /\ list # <<>>
  /\ IsInjective(list)
  /\ itemIds'     = list
  /\ phase'       = "listening"
  /\ roundNumber' = 1
  /\ round'       = list
  /\ played'      = <<>>
  /\ marked'      = <<>>
  /\ first'       = Unmarked
  /\ latest'      = Unmarked
  /\ UNCHANGED mode

-----------------------------------------------------------------------------
(***************************************************************************)
(* Playback.                                                               *)
(***************************************************************************)

\* The report names items of this round, none of them twice.
PlayableList(list) ==
  /\ list # <<>>
  /\ IsInjective(list)
  /\ Range(list) \subseteq Range(round)

\* Item by item: exactly the next item to be marked, heard to its end.
PlayNextItem(list, finished) ==
  /\ mode = "item_by_item"
  /\ Len(marked) < Len(round)
  /\ list = <<round[Len(marked) + 1]>>
  /\ finished
  /\ phase' = "grading"
  /\ played' = Append(played, round[Len(marked) + 1])

\* The list is what the round asks right after the items already played.
AdvancesPrefix(list) ==
  /\ Len(played) + Len(list) <= Len(round)
  /\ \A k \in 1..Len(list) : list[k] = round[Len(played) + k]

\* The list is the item played last.
ReplaysCurrent(list) ==
  /\ played # <<>>
  /\ list = <<played[Len(played)]>>

\* Fault: grading opens before the whole round was played.
FaultyPlayBatch(list, finished) ==
  /\ mode = "continuous_batch"
  /\ AdvancesPrefix(list)
  /\ played' = played \o list
  /\ phase' = IF finished THEN "grading" ELSE "listening"

\* Continuous: the next items of the round, or the current one once more.
\* Only a report that the sequence is finished opens grading.
PlayBatch(list, finished) ==
  /\ mode = "continuous_batch"
  /\ \/ /\ AdvancesPrefix(list)
        /\ played' = played \o list
     \/ /\ ~AdvancesPrefix(list)
        /\ ReplaysCurrent(list)
        /\ played' = played
  /\ finished => Len(played') = Len(round)
  /\ phase' = IF finished THEN "grading" ELSE "listening"

ReducePlayback(r, list, finished) ==
  /\ phase = "listening"
  /\ r = roundNumber
  /\ PlayableList(list)
  /\ PlayNextItem(list, finished) \/ PlayBatch(list, finished)
  /\ UNCHANGED <<mode, itemIds, roundNumber, round, marked, first, latest>>

-----------------------------------------------------------------------------
(***************************************************************************)
(* Grading.                                                                *)
(***************************************************************************)

MarkedItems(marks) == [k \in DOMAIN marks |-> marks[k].item]

ResultOf(marks, i) == marks[CHOOSE k \in DOMAIN marks : marks[k].item = i].result

\* No item is marked twice, and only items of this round are marked.
WellFormedMarks(marks) ==
  /\ IsInjective(MarkedItems(marks))
  /\ Range(MarkedItems(marks)) \subseteq Range(round)

\* Continuous: every item of the round.  Item by item: the next one alone.
CoversWhatIsDue(marks) ==
  \/ /\ mode = "continuous_batch"
     /\ Range(MarkedItems(marks)) = Range(round)
  \/ /\ mode = "item_by_item"
     /\ Len(marked) < Len(round)
     /\ MarkedItems(marks) = <<round[Len(marked) + 1]>>

WithLatest(marks) ==
  [i \in Items |-> IF i \in Range(MarkedItems(marks)) THEN ResultOf(marks, i)
                                                     ELSE latest[i]]

\* A first result is entered once and never replaced.
WithFirst(marks) ==
  [i \in Items |-> IF i \in Range(MarkedItems(marks)) /\ first[i] = "unmarked"
                     THEN ResultOf(marks, i)
                     ELSE first[i]]

\* Sequences of distinct items: the shapes a round can have.
Rounds == UNION {Injection(1..n, Items) : n \in 0..Len(round)}

\* Fault: the next round asks what was wrong at first, corrected or not.
FaultyIncorrectItems(next, results) ==
  Range(next) = {i \in Range(round) : first'[i] # "correct"}

\* Fault: the next round asks the right items, in whatever order they come.
UnorderedIncorrectItems(next, results) ==
  Range(next) = {i \in Range(round) : results[i] # "correct"}

\* next lists the items of the round that are not right, in the round's order.
IncorrectItems(next, results) ==
  /\ Range(next) = {i \in Range(round) : results[i] # "correct"}
  /\ \A j, k \in DOMAIN next :
       j < k => \E p, q \in DOMAIN round :
                  p < q /\ next[j] = round[p] /\ next[k] = round[q]

\* Item by item, with items of the round left to mark.
GoOnListening(marks) ==
  /\ mode = "item_by_item"
  /\ Len(marked) + Len(marks) < Len(round)
  /\ phase' = "listening"
  /\ marked' = marked \o MarkedItems(marks)
  /\ UNCHANGED <<roundNumber, round, played>>

RoundDone(marks) ==
  mode = "item_by_item" => Len(marked) + Len(marks) >= Len(round)

\* The whole round is right: the session is completed.
Complete(marks) ==
  /\ RoundDone(marks)
  /\ IncorrectItems(<<>>, WithLatest(marks))
  /\ phase' = "completed"
  /\ marked' = marked \o MarkedItems(marks)
  /\ UNCHANGED <<roundNumber, round, played>>

\* Otherwise the next round asks the items that are not right.
NextRound(marks) ==
  /\ RoundDone(marks)
  /\ \E next \in Rounds :
       /\ next # <<>>
       /\ IncorrectItems(next, WithLatest(marks))
       /\ round' = next
  /\ phase' = "listening"
  /\ roundNumber' = roundNumber + 1
  /\ played' = <<>>
  /\ marked' = <<>>

ReduceMarks(r, marks) ==
  /\ phase = "grading"
  /\ r = roundNumber
  /\ WellFormedMarks(marks)
  /\ CoversWhatIsDue(marks)
  /\ first' = WithFirst(marks)
  /\ latest' = WithLatest(marks)
  /\ GoOnListening(marks) \/ Complete(marks) \/ NextRound(marks)
  /\ UNCHANGED <<mode, itemIds>>

-----------------------------------------------------------------------------
(***************************************************************************)
(* What the machine keeps true.                                            *)
(***************************************************************************)

\* The items this round still has to mark.
Due == Range(round) \ Range(marked)

MachineTypeOK ==
  /\ mode \in Modes
  /\ itemIds \in Seq(Items)
  /\ phase \in {"none", "listening", "grading", "completed"}
  /\ roundNumber \in Nat
  /\ round \in Seq(Items)
  /\ played \in Seq(Items)
  /\ marked \in Seq(Items)
  /\ first \in [Items -> Results \cup {"unmarked"}]
  /\ latest \in [Items -> Results \cup {"unmarked"}]

\* A round asks items of the session, none of them twice.
RoundWellFormed ==
  /\ IsInjective(itemIds)
  /\ IsInjective(round)
  /\ Range(round) \subseteq Range(itemIds)
  /\ phase = "none" => itemIds = <<>>
  /\ phase # "none" => roundNumber >= 1 /\ round # <<>> /\ itemIds # <<>>

\* What was played is the beginning of the round, and grading is open only for
\* what was played: the whole round, or item by item the one after the marked.
PlayedInOrder ==
  /\ Len(played) <= Len(round)
  /\ \A k \in DOMAIN played : played[k] = round[k]
  /\ mode = "continuous_batch" =>
       /\ phase # "completed" => marked = <<>>
       /\ phase = "grading" => Len(played) = Len(round)
  /\ mode = "item_by_item" =>
       /\ Len(marked) <= Len(round)
       /\ \A k \in DOMAIN marked : marked[k] = round[k]
       /\ phase = "listening" => Len(played) = Len(marked) /\ Len(marked) < Len(round)
       /\ phase = "grading" => Len(played) = Len(marked) + 1

\* No word is lost and no known word is asked again: until the session is
\* completed the round holds every item whose latest mark is not right, an item
\* the round still has to mark is not right (never marked in the first round,
\* wrong in a later one), and completion finds every item right.
AsksWhatIsNotRight ==
  /\ phase \in {"listening", "grading"} =>
       \A i \in Range(itemIds) :
         /\ i \in Due => latest[i] = IF roundNumber = 1 THEN "unmarked" ELSE "wrong"
         /\ i \in Range(marked) => latest[i] # "unmarked"
         /\ i \notin Range(round) => latest[i] = "correct"
  /\ phase = "completed" => \A i \in Range(itemIds) : latest[i] = "correct"
  /\ \A i \in Items \ Range(itemIds) : latest[i] = "unmarked"

\* An item right at the first attempt stays right: the latest mark can only
\* differ from the first by a correction.
FirstAndLatestAgree ==
  \A i \in Items : /\ first[i] = "unmarked" <=> latest[i] = "unmarked"
                   /\ first[i] = "correct" => latest[i] = "correct"

MachineInv ==
  /\ MachineTypeOK
  /\ RoundWellFormed
  /\ PlayedInOrder
  /\ AsksWhatIsNotRight
  /\ FirstAndLatestAgree

=============================================================================
