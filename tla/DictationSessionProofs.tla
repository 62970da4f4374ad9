------------------------ MODULE DictationSessionProofs ------------------------
(***************************************************************************)
(* Theorems about DictationSession, for every set of items, every length   *)
(* of the lists and any number of commands.                                *)
(***************************************************************************)
EXTENDS DictationSession, SequenceTheorems, FiniteSetTheorems, TLAPS

-----------------------------------------------------------------------------
(***************************************************************************)
(* The steps of the session machine keep MachineInv.                       *)
(***************************************************************************)

\* An empty list has no place where an item could be; a list of length n is a
\* function on 1..n.
LEMMA RangeOfList ==
  ASSUME NEW S, NEW s \in Seq(S)
  PROVE  /\ Len(s) \in Nat
         /\ DOMAIN s = 1..Len(s)
         /\ \A k \in 1..Len(s) : s[k] \in S
         /\ Range(s) = {s[k] : k \in 1..Len(s)}
         /\ Range(s) \subseteq S
         /\ s = <<>> <=> Len(s) = 0
<1>1. /\ Len(s) \in Nat
      /\ DOMAIN s = 1..Len(s)
      /\ \A k \in 1..Len(s) : s[k] \in S
      /\ s = <<>> <=> Len(s) = 0
  OBVIOUS
<1>2. QED
  BY <1>1 DEF Range

LEMMA ListOfFunction ==
  ASSUME NEW S, NEW n \in Nat, NEW s \in [1..n -> S]
  PROVE  s \in Seq(S) /\ Len(s) = n
OBVIOUS

LEMMA RangeOfSingle ==
  ASSUME NEW e
  PROVE  Range(<<e>>) = {e}
BY DEF Range

\* The list a session is created with becomes the first round.
LEMMA CreateKeepsMachineInv ==
  ASSUME MachineInv, NEW list \in Seq(Items), CreateSessionState(list)
  PROVE  MachineInv'
<1>1. MachineTypeOK'
  BY DEF MachineInv, MachineTypeOK, CreateSessionState, Unmarked
<1>2. RoundWellFormed'
  BY DEF CreateSessionState, RoundWellFormed
<1>3. PlayedInOrder'
  BY RangeOfList DEF CreateSessionState, PlayedInOrder
<1>4. AsksWhatIsNotRight'
  <2>1. Range(marked') = {}
    BY DEF CreateSessionState, Range
  <2>2. \A i \in Items : latest'[i] = "unmarked"
    BY DEF CreateSessionState, Unmarked
  <2>3. Range(itemIds') \subseteq Items /\ Range(round') = Range(itemIds')
    BY RangeOfList DEF CreateSessionState
  <2>4. phase' = "listening" /\ roundNumber' = 1
    BY DEF CreateSessionState
  <2> QED
    BY <2>1, <2>2, <2>3, <2>4 DEF AsksWhatIsNotRight, Due
<1>5. FirstAndLatestAgree'
  BY DEF CreateSessionState, FirstAndLatestAgree, Unmarked
<1> QED
  BY <1>1, <1>2, <1>3, <1>4, <1>5 DEF MachineInv

-----------------------------------------------------------------------------
(***************************************************************************)
(* Playback.                                                               *)
(***************************************************************************)

\* What a playback report changes: only how much of the round was played.
LEMMA PlaybackFrame ==
  ASSUME NEW r, NEW list, NEW finished, ReducePlayback(r, list, finished)
  PROVE  /\ phase = "listening"
         /\ phase' \in {"listening", "grading"}
         /\ mode' = mode /\ itemIds' = itemIds /\ roundNumber' = roundNumber
         /\ round' = round /\ marked' = marked
         /\ first' = first /\ latest' = latest
BY DEF ReducePlayback, PlayNextItem, PlayBatch

LEMMA PlaybackKeepsTypes ==
  ASSUME MachineTypeOK, NEW r, NEW list \in Seq(Items), NEW finished,
         ReducePlayback(r, list, finished)
  PROVE  MachineTypeOK'
<1>1. played' \in Seq(Items)
  <2>1. CASE PlayNextItem(list, finished)
    <3>1. round[Len(marked) + 1] \in Items
      BY <2>1, RangeOfList DEF PlayNextItem, MachineTypeOK
    <3> QED
      BY <2>1, <3>1 DEF PlayNextItem, MachineTypeOK
  <2>2. CASE PlayBatch(list, finished)
    <3>1. played' = played \o list \/ played' = played
      BY <2>2 DEF PlayBatch
    <3>2. played \o list \in Seq(Items)
      BY ConcatProperties DEF MachineTypeOK
    <3> QED
      BY <3>1, <3>2 DEF MachineTypeOK
  <2> QED
    BY <2>1, <2>2 DEF ReducePlayback
<1> QED
  BY <1>1, PlaybackFrame DEF MachineTypeOK

LEMMA PlaybackKeepsOrder ==
  ASSUME MachineTypeOK, PlayedInOrder,
         NEW r, NEW list \in Seq(Items), NEW finished \in BOOLEAN,
         ReducePlayback(r, list, finished)
  PROVE  PlayedInOrder'
<1>0. /\ mode' = mode /\ round' = round /\ marked' = marked
      /\ phase = "listening"
  BY PlaybackFrame
<1>1. CASE PlayNextItem(list, finished)
  <2>1. /\ mode = "item_by_item"
        /\ Len(marked) < Len(round)
        /\ phase' = "grading"
        /\ played' = Append(played, round[Len(marked) + 1])
    BY <1>1 DEF PlayNextItem
  <2>2. /\ Len(played) = Len(marked)
        /\ \A k \in DOMAIN marked : marked[k] = round[k]
        /\ \A k \in DOMAIN played : played[k] = round[k]
    BY <1>0, <2>1 DEF PlayedInOrder
  <2>3. round[Len(marked) + 1] \in Items
    BY <2>1, RangeOfList DEF MachineTypeOK
  <2>4. /\ Len(played') = Len(played) + 1
        /\ \A k \in DOMAIN played' : played'[k] = round[k]
    BY <2>1, <2>2, <2>3 DEF MachineTypeOK
  <2> QED
    BY <1>0, <2>1, <2>2, <2>4 DEF PlayedInOrder, MachineTypeOK
<1>2. CASE PlayBatch(list, finished)
  <2>1. /\ mode = "continuous_batch"
        /\ finished => Len(played') = Len(round)
        /\ phase' = IF finished THEN "grading" ELSE "listening"
    BY <1>2 DEF PlayBatch
  <2>2. /\ Len(played') <= Len(round)
        /\ \A k \in DOMAIN played' : played'[k] = round[k]
    <3>1. CASE AdvancesPrefix(list) /\ played' = played \o list
      <4>1. /\ Len(played') = Len(played) + Len(list)
            /\ DOMAIN played' = 1..(Len(played) + Len(list))
            /\ \A k \in 1..(Len(played) + Len(list)) :
                 played'[k] = IF k <= Len(played) THEN played[k]
                                                  ELSE list[k - Len(played)]
        BY <3>1, ConcatProperties, RangeOfList DEF MachineTypeOK
      <4>2. /\ Len(played) \in Nat /\ Len(list) \in Nat
            /\ DOMAIN played = 1..Len(played)
        BY RangeOfList DEF MachineTypeOK
      <4>3. Len(played') <= Len(round)
        BY <3>1, <4>1 DEF AdvancesPrefix
      <4>4. ASSUME NEW k \in DOMAIN played'
            PROVE  played'[k] = round[k]
        <5>1. CASE k <= Len(played)
          <6>1. k \in DOMAIN played
            BY <4>1, <4>2, <5>1
          <6>2. played[k] = round[k]
            BY <6>1 DEF PlayedInOrder
          <6> QED
            BY <4>1, <5>1, <6>2
        <5>2. CASE k > Len(played)
          <6>1. k - Len(played) \in 1..Len(list)
            BY <4>1, <4>2, <5>2
          <6>2. list[k - Len(played)] = round[Len(played) + (k - Len(played))]
            BY <3>1, <6>1 DEF AdvancesPrefix
          <6> QED
            BY <4>1, <4>2, <5>2, <6>2
        <5> QED
          BY <4>1, <4>2, <5>1, <5>2
      <4> QED
        BY <4>3, <4>4
    <3>2. CASE played' = played
      BY <3>2 DEF PlayedInOrder
    <3> QED
      BY <1>2, <3>1, <3>2 DEF PlayBatch
  <2> QED
    BY <1>0, <2>1, <2>2 DEF PlayedInOrder
<1> QED
  BY <1>1, <1>2 DEF ReducePlayback

\* A report adds to what was played no more than it names.
LEMMA PlayedGrows ==
  ASSUME MachineTypeOK, NEW r, NEW list \in Seq(Items), NEW finished,
         ReducePlayback(r, list, finished)
  PROVE  Range(played') \subseteq Range(played) \cup Range(list)
<1>1. played \in Seq(Items)
  BY DEF MachineTypeOK
<1>2. CASE PlayNextItem(list, finished)
  <2>1. PICK e : list = <<e>> /\ played' = Append(played, e)
    BY <1>2 DEF PlayNextItem
  <2>2. e \in Items
    BY <2>1
  <2>3. played' = played \o list
    BY <1>1, <2>1, <2>2, AppendIsConcat
  <2>4. Range(played \o list) = Range(played) \cup Range(list)
    BY <1>1, RangeConcatenation
  <2> QED
    BY <2>3, <2>4
<1>3. CASE PlayBatch(list, finished)
  <2>1. played' = played \o list \/ played' = played
    BY <1>3 DEF PlayBatch
  <2> QED
    BY <1>1, <2>1, RangeConcatenation
<1> QED
  BY <1>2, <1>3 DEF ReducePlayback

LEMMA PlaybackKeepsMachineInv ==
  ASSUME MachineInv, NEW r, NEW list \in Seq(Items), NEW finished \in BOOLEAN,
         ReducePlayback(r, list, finished)
  PROVE  MachineInv'
<1>1. MachineTypeOK' /\ PlayedInOrder'
  BY PlaybackKeepsTypes, PlaybackKeepsOrder DEF MachineInv
<1>2. RoundWellFormed' /\ FirstAndLatestAgree'
  BY PlaybackFrame DEF MachineInv, RoundWellFormed, FirstAndLatestAgree
<1>3. AsksWhatIsNotRight'
  BY PlaybackFrame DEF MachineInv, AsksWhatIsNotRight, Due
<1> QED
  BY <1>1, <1>2, <1>3 DEF MachineInv

-----------------------------------------------------------------------------
(***************************************************************************)
(* Grading.                                                                *)
(***************************************************************************)

\* Each mark names an item, and the result entered for it is a result.
LEMMA ShapeOfMarks ==
  ASSUME NEW marks \in Seq(Mark)
  PROVE  /\ MarkedItems(marks) \in Seq(Items)
         /\ Len(MarkedItems(marks)) = Len(marks)
         /\ Range(MarkedItems(marks)) \subseteq Items
         /\ \A i \in Range(MarkedItems(marks)) : ResultOf(marks, i) \in Results
<1>1. /\ MarkedItems(marks) \in Seq(Items)
      /\ Len(MarkedItems(marks)) = Len(marks)
      /\ DOMAIN MarkedItems(marks) = DOMAIN marks
  <2>1. \A k \in 1..Len(marks) : marks[k].item \in Items
    <3>1. \A k \in 1..Len(marks) : marks[k] \in Mark
      BY RangeOfList
    <3> QED
      BY <3>1 DEF Mark
  <2>2. MarkedItems(marks) = [k \in 1..Len(marks) |-> marks[k].item]
    BY RangeOfList DEF MarkedItems
  <2>3. Len(marks) \in Nat
    BY RangeOfList
  <2>4. MarkedItems(marks) \in [1..Len(marks) -> Items]
    BY <2>1, <2>2
  <2>5. MarkedItems(marks) \in Seq(Items) /\ Len(MarkedItems(marks)) = Len(marks)
    BY <2>3, <2>4, ListOfFunction
  <2> QED
    BY <2>5, RangeOfList
<1>2. Range(MarkedItems(marks)) \subseteq Items
  BY <1>1, RangeOfList
<1>3. ASSUME NEW i \in Range(MarkedItems(marks))
      PROVE  ResultOf(marks, i) \in Results
  <2>1. \E k \in DOMAIN marks : marks[k].item = i
    BY <1>1 DEF Range, MarkedItems
  <2>2. PICK k \in DOMAIN marks :
          k = CHOOSE j \in DOMAIN marks : marks[j].item = i
    BY <2>1
  <2>3. marks[k] \in Mark
    BY RangeOfList
  <2> QED
    BY <2>2, <2>3 DEF ResultOf, Mark
<1> QED
  BY <1>1, <1>2, <1>3

\* Only items that the round still has to mark are marked, and none of them is
\* right yet.
LEMMA MarksAreDue ==
  ASSUME MachineInv, NEW r, NEW marks \in Seq(Mark), ReduceMarks(r, marks)
  PROVE  \A i \in Range(MarkedItems(marks)) :
           /\ i \in Due
           /\ i \in Range(itemIds)
           /\ latest[i] # "correct"
<1>1. /\ phase = "grading"
      /\ Range(MarkedItems(marks)) \subseteq Range(round)
      /\ CoversWhatIsDue(marks)
  BY DEF ReduceMarks, WellFormedMarks
<1>2. ASSUME NEW i \in Range(MarkedItems(marks))
      PROVE  i \notin Range(marked)
  <2>1. CASE mode = "continuous_batch"
    <3>1. marked = <<>>
      BY <1>1, <2>1 DEF MachineInv, PlayedInOrder
    <3> QED
      BY <3>1 DEF Range
  <2>2. CASE mode = "item_by_item"
    <3>1. /\ Len(marked) < Len(round)
          /\ MarkedItems(marks) = <<round[Len(marked) + 1]>>
      BY <1>1, <2>2 DEF CoversWhatIsDue
    <3>2. i = round[Len(marked) + 1]
      BY <3>1, RangeOfSingle
    <3>3. \A k \in 1..Len(marked) : marked[k] = round[k]
      BY <2>2, RangeOfList DEF MachineInv, PlayedInOrder, MachineTypeOK
    <3>4. \A k \in 1..Len(marked) : round[k] # round[Len(marked) + 1]
      BY <3>1, RangeOfList
      DEF MachineInv, RoundWellFormed, IsInjective, MachineTypeOK
    <3>5. Range(marked) = {marked[k] : k \in 1..Len(marked)}
      BY RangeOfList DEF MachineInv, MachineTypeOK
    <3> QED
      BY <3>2, <3>3, <3>4, <3>5
  <2> QED
    BY <2>1, <2>2 DEF MachineInv, MachineTypeOK, Modes
<1>3. \A i \in Range(MarkedItems(marks)) : i \in Due /\ i \in Range(itemIds)
  BY <1>1, <1>2 DEF Due, MachineInv, RoundWellFormed
<1>4. \A i \in Range(MarkedItems(marks)) : latest[i] # "correct"
  BY <1>1, <1>3 DEF MachineInv, AsksWhatIsNotRight
<1> QED
  BY <1>3, <1>4

\* When the round is done, all of it is marked.
LEMMA DoneMeansAllMarked ==
  ASSUME MachineInv, NEW r, NEW marks \in Seq(Mark), ReduceMarks(r, marks),
         RoundDone(marks)
  PROVE  Range(round) \subseteq Range(marked) \cup Range(MarkedItems(marks))
<1>1. CoversWhatIsDue(marks)
  BY DEF ReduceMarks
<1>2. CASE mode = "continuous_batch"
  BY <1>1, <1>2 DEF CoversWhatIsDue
<1>3. CASE mode = "item_by_item"
  <2>1. /\ Len(marked) < Len(round)
        /\ MarkedItems(marks) = <<round[Len(marked) + 1]>>
        /\ Len(marks) = 1
    BY <1>1, <1>3, ShapeOfMarks DEF CoversWhatIsDue
  <2>2. Len(round) = Len(marked) + 1
    BY <1>3, <2>1 DEF RoundDone, MachineInv, MachineTypeOK
  <2>3. \A k \in 1..Len(marked) : marked[k] = round[k]
    BY <1>3, RangeOfList DEF MachineInv, PlayedInOrder, MachineTypeOK
  <2>4. ASSUME NEW k \in 1..Len(round)
        PROVE  round[k] \in Range(marked) \cup Range(MarkedItems(marks))
    <3>1. CASE k \in 1..Len(marked)
      BY <2>3, <3>1, RangeOfList DEF MachineInv, MachineTypeOK
    <3>2. CASE k = Len(marked) + 1
      BY <2>1, <3>2, RangeOfSingle
    <3> QED
      BY <2>2, <3>1, <3>2 DEF MachineInv, MachineTypeOK
  <2> QED
    BY <2>4, RangeOfList DEF MachineInv, MachineTypeOK
<1> QED
  BY <1>2, <1>3 DEF MachineInv, MachineTypeOK, Modes

\* How the two mark tables move: an item marked now takes the new result as its
\* latest, and as its first when it has none.
LEMMA MarkTables ==
  ASSUME MachineTypeOK, NEW r, NEW marks \in Seq(Mark), ReduceMarks(r, marks)
  PROVE  /\ first' \in [Items -> Results \cup {"unmarked"}]
         /\ latest' \in [Items -> Results \cup {"unmarked"}]
         /\ \A i \in Range(MarkedItems(marks)) :
              /\ latest'[i] = ResultOf(marks, i)
              /\ first'[i] = IF first[i] = "unmarked" THEN ResultOf(marks, i)
                                                      ELSE first[i]
         /\ \A i \in Items \ Range(MarkedItems(marks)) :
              latest'[i] = latest[i] /\ first'[i] = first[i]
<1>1. first' = WithFirst(marks) /\ latest' = WithLatest(marks)
  BY DEF ReduceMarks
<1> QED
  BY <1>1, ShapeOfMarks DEF WithFirst, WithLatest, MachineTypeOK

LEMMA RoundsAreLists ==
  ASSUME MachineTypeOK, NEW next \in Rounds
  PROVE  next \in Seq(Items) /\ IsInjective(next)
<1>1. PICK n \in 0..Len(round) : next \in Injection(1..n, Items)
  BY DEF Rounds
<1>2. n \in Nat
  BY RangeOfList DEF MachineTypeOK
<1> QED
  BY <1>1, <1>2, ListOfFunction DEF Injection

\* The parts of a step that do not depend on how the round goes on.
LEMMA MarksFrame ==
  ASSUME NEW r, NEW marks, ReduceMarks(r, marks)
  PROVE  /\ phase = "grading"
         /\ phase' \in {"listening", "completed"}
         /\ mode' = mode /\ itemIds' = itemIds
BY DEF ReduceMarks, GoOnListening, Complete, NextRound

LEMMA MarksKeepTypes ==
  ASSUME MachineTypeOK, NEW r, NEW marks \in Seq(Mark), ReduceMarks(r, marks)
  PROVE  MachineTypeOK'
<1>1. MarkedItems(marks) \in Seq(Items)
  BY ShapeOfMarks
<1>2. marked \o MarkedItems(marks) \in Seq(Items)
  BY <1>1, ConcatProperties DEF MachineTypeOK
<1>3. CASE GoOnListening(marks)
  BY <1>2, <1>3, MarksFrame, MarkTables DEF GoOnListening, MachineTypeOK
<1>4. CASE Complete(marks)
  BY <1>2, <1>4, MarksFrame, MarkTables DEF Complete, MachineTypeOK
<1>5. CASE NextRound(marks)
  <2>1. round' \in Seq(Items)
    BY <1>5, RoundsAreLists DEF NextRound
  <2>2. roundNumber' \in Nat /\ played' = <<>> /\ marked' = <<>>
    BY <1>5 DEF NextRound, MachineTypeOK
  <2> QED
    BY <2>1, <2>2, MarksFrame, MarkTables DEF MachineTypeOK
<1> QED
  BY <1>3, <1>4, <1>5 DEF ReduceMarks

LEMMA MarksKeepRoundWellFormed ==
  ASSUME MachineTypeOK, RoundWellFormed,
         NEW r, NEW marks \in Seq(Mark), ReduceMarks(r, marks)
  PROVE  RoundWellFormed'
<1>1. CASE GoOnListening(marks) \/ Complete(marks)
  BY <1>1, MarksFrame DEF GoOnListening, Complete, RoundWellFormed
<1>2. CASE NextRound(marks)
  <2>1. PICK next \in Rounds : /\ next # <<>>
                               /\ IncorrectItems(next, WithLatest(marks))
                               /\ round' = next
    BY <1>2 DEF NextRound
  <2>2. IsInjective(round') /\ round' # <<>>
    BY <2>1, RoundsAreLists
  <2>3. Range(round') \subseteq Range(round)
    BY <2>1 DEF IncorrectItems
  <2>4. roundNumber' = roundNumber + 1 /\ phase' = "listening"
    BY <1>2 DEF NextRound
  <2>5. phase = "grading" /\ itemIds' = itemIds
    BY MarksFrame
  <2>6. roundNumber' >= 1
    BY <2>4, <2>5 DEF RoundWellFormed, MachineTypeOK
  <2> QED
    BY <2>2, <2>3, <2>4, <2>5, <2>6 DEF RoundWellFormed
<1> QED
  BY <1>1, <1>2 DEF ReduceMarks

LEMMA MarksKeepOrder ==
  ASSUME MachineInv, NEW r, NEW marks \in Seq(Mark), ReduceMarks(r, marks),
         MachineTypeOK'
  PROVE  PlayedInOrder'
<1>1. CASE NextRound(marks)
  <2>1. played' = <<>> /\ marked' = <<>> /\ round' # <<>> /\ phase' = "listening"
    BY <1>1 DEF NextRound
  <2>2. Len(round') \in Nat /\ Len(round') # 0
    BY <2>1, RangeOfList DEF MachineTypeOK
  <2> QED
    BY <2>1, <2>2 DEF PlayedInOrder
<1>2. CASE mode = "continuous_batch" /\ ~NextRound(marks)
  <2>1. Complete(marks)
    BY <1>2 DEF ReduceMarks, GoOnListening
  <2> QED
    BY <1>2, <2>1, MarksFrame DEF Complete, MachineInv, PlayedInOrder
<1>3. CASE mode = "item_by_item" /\ ~NextRound(marks)
  <2>1. /\ Len(marked) < Len(round)
        /\ MarkedItems(marks) = <<round[Len(marked) + 1]>>
        /\ Len(marks) = 1
    BY <1>3, ShapeOfMarks DEF ReduceMarks, CoversWhatIsDue
  <2>2. /\ marked' = marked \o MarkedItems(marks)
        /\ round' = round /\ played' = played
        /\ phase' = "listening" => Len(marked) + 1 < Len(round)
    BY <1>3, <2>1 DEF ReduceMarks, GoOnListening, Complete
  <2>3. round[Len(marked) + 1] \in Items
    BY <2>1, RangeOfList DEF MachineInv, MachineTypeOK
  <2>4. marked' = Append(marked, round[Len(marked) + 1])
    BY <2>1, <2>2, <2>3, AppendIsConcat DEF MachineInv, MachineTypeOK
  <2>5. \A k \in DOMAIN marked : marked[k] = round[k]
    BY <1>3 DEF MachineInv, PlayedInOrder
  <2>6. /\ Len(marked') = Len(marked) + 1
        /\ \A k \in DOMAIN marked' : marked'[k] = round'[k]
    BY <2>2, <2>3, <2>4, <2>5 DEF MachineInv, MachineTypeOK
  <2>7. Len(played) = Len(marked) + 1
    BY <1>3, MarksFrame DEF MachineInv, PlayedInOrder
  <2>8. /\ Len(played) <= Len(round)
        /\ \A k \in DOMAIN played : played[k] = round[k]
    BY DEF MachineInv, PlayedInOrder
  <2>9. Len(marked) \in Nat /\ Len(round) \in Nat
    BY RangeOfList DEF MachineInv, MachineTypeOK
  <2> QED
    BY <1>3, <2>1, <2>2, <2>6, <2>7, <2>8, <2>9, MarksFrame DEF PlayedInOrder
<1> QED
  BY <1>1, <1>2, <1>3 DEF MachineInv, MachineTypeOK, Modes

LEMMA MarksKeepFirstAndLatest ==
  ASSUME MachineInv, NEW r, NEW marks \in Seq(Mark), ReduceMarks(r, marks)
  PROVE  FirstAndLatestAgree'
<1> DEFINE S == Range(MarkedItems(marks))
<1>1. ASSUME NEW i \in S
      PROVE  /\ first'[i] # "unmarked" /\ latest'[i] # "unmarked"
             /\ first'[i] = "correct" => latest'[i] = "correct"
  <2>1. i \in Items /\ ResultOf(marks, i) \in Results
    BY ShapeOfMarks
  <2>2. /\ latest'[i] = ResultOf(marks, i)
        /\ first'[i] = IF first[i] = "unmarked" THEN ResultOf(marks, i) ELSE first[i]
    BY MarkTables DEF MachineInv
  <2>3. first[i] # "correct"
    BY <2>1, MarksAreDue DEF MachineInv, FirstAndLatestAgree
  <2> QED
    BY <2>1, <2>2, <2>3 DEF Results
<1>2. ASSUME NEW i \in Items \ S
      PROVE  latest'[i] = latest[i] /\ first'[i] = first[i]
  BY MarkTables DEF MachineInv
<1> QED
  BY <1>1, <1>2 DEF MachineInv, FirstAndLatestAgree

LEMMA MarksKeepAsking ==
  ASSUME MachineInv, NEW r, NEW marks \in Seq(Mark), ReduceMarks(r, marks),
         MachineTypeOK'
  PROVE  AsksWhatIsNotRight'
<1> DEFINE S == Range(MarkedItems(marks))
<1>1. /\ phase = "grading" /\ itemIds' = itemIds
      /\ phase' \in {"listening", "completed"}
  BY MarksFrame
<1>2. S \subseteq Range(round) /\ Range(round) \subseteq Range(itemIds)
  BY DEF MachineInv, RoundWellFormed, ReduceMarks, WellFormedMarks
<1>3. Range(itemIds) \subseteq Items /\ Range(round) \subseteq Items
  BY RangeOfList DEF MachineInv, MachineTypeOK
<1>4. \A i \in Items : latest'[i] \in Results \cup {"unmarked"}
  BY DEF MachineTypeOK
<1>5. /\ \A i \in S : latest'[i] \in Results
      /\ \A i \in Items \ S : latest'[i] = latest[i]
  BY ShapeOfMarks, MarkTables DEF MachineInv
<1>6. /\ \A i \in Due : latest[i] = IF roundNumber = 1 THEN "unmarked" ELSE "wrong"
      /\ \A i \in Range(itemIds) : i \in Range(marked) => latest[i] # "unmarked"
      /\ \A i \in Range(itemIds) \ Range(round) : latest[i] = "correct"
      /\ \A i \in Items \ Range(itemIds) : latest[i] = "unmarked"
  BY <1>1, <1>2 DEF MachineInv, AsksWhatIsNotRight, Due
<1>7. \A i \in Items \ Range(itemIds) : latest'[i] = "unmarked"
  BY <1>2, <1>5, <1>6
<1>8. \A i \in Range(itemIds) \ Range(round) : latest'[i] = "correct"
  BY <1>2, <1>3, <1>5, <1>6
<1>9. CASE GoOnListening(marks)
  <2>1. phase' = "listening" /\ roundNumber' = roundNumber /\ round' = round
    BY <1>9 DEF GoOnListening
  <2>2. Range(marked') = Range(marked) \cup S
    BY <1>9, ShapeOfMarks, RangeConcatenation DEF GoOnListening, MachineInv, MachineTypeOK
  <2>3. \A i \in Due' : i \in Due /\ i \notin S
    BY <2>1, <2>2 DEF Due
  <2>4. \A i \in Due' : latest'[i] = IF roundNumber' = 1 THEN "unmarked" ELSE "wrong"
    BY <1>3, <1>5, <1>6, <2>1, <2>3 DEF Due
  <2>5. \A i \in Range(itemIds') : i \in Range(marked') => latest'[i] # "unmarked"
    BY <1>1, <1>3, <1>5, <1>6, <2>2 DEF Results
  <2> QED
    BY <1>1, <1>7, <1>8, <2>1, <2>4, <2>5 DEF AsksWhatIsNotRight
<1>10. CASE Complete(marks)
  <2>1. phase' = "completed" /\ IncorrectItems(<<>>, latest')
    BY <1>10 DEF Complete, ReduceMarks
  <2>2. Range(<<>>) = {}
    BY DEF Range
  <2>3. \A i \in Range(round) : latest'[i] = "correct"
    BY <2>1, <2>2 DEF IncorrectItems
  <2> QED
    BY <1>1, <1>7, <1>8, <2>1, <2>3 DEF AsksWhatIsNotRight
<1>11. CASE NextRound(marks)
  <2>1. phase' = "listening" /\ roundNumber' = roundNumber + 1 /\ marked' = <<>>
    BY <1>11 DEF NextRound
  <2>2. Range(round') = {i \in Range(round) : latest'[i] # "correct"}
    BY <1>11 DEF NextRound, IncorrectItems, ReduceMarks
  <2>3. Range(marked') = {}
    BY <2>1 DEF Range
  <2>4. \A i \in Range(round) : latest'[i] # "unmarked"
    <3>1. Range(round) \subseteq Range(marked) \cup S
      BY <1>11, DoneMeansAllMarked DEF NextRound
    <3> QED
      BY <1>2, <1>3, <1>5, <1>6, <3>1 DEF Results
  <2>5. \A i \in Range(round') : latest'[i] = "wrong"
    BY <1>3, <1>4, <2>2, <2>4 DEF Results
  <2>6. roundNumber' # 1
    BY <1>1, <2>1 DEF MachineInv, RoundWellFormed, MachineTypeOK
  <2>7. \A i \in Range(itemIds) : i \notin Range(round') => latest'[i] = "correct"
    BY <1>8, <2>2
  <2> QED
    BY <1>1, <1>7, <2>1, <2>3, <2>5, <2>6, <2>7 DEF AsksWhatIsNotRight, Due
<1> QED
  BY <1>9, <1>10, <1>11 DEF ReduceMarks

LEMMA MarksKeepMachineInv ==
  ASSUME MachineInv, NEW r, NEW marks \in Seq(Mark), ReduceMarks(r, marks)
  PROVE  MachineInv'
<1>1. MachineTypeOK'
  BY MarksKeepTypes DEF MachineInv
<1>2. RoundWellFormed' /\ PlayedInOrder'
  BY <1>1, MarksKeepRoundWellFormed, MarksKeepOrder DEF MachineInv
<1>3. AsksWhatIsNotRight' /\ FirstAndLatestAgree'
  BY <1>1, MarksKeepAsking, MarksKeepFirstAndLatest
<1> QED
  BY <1>1, <1>2, <1>3 DEF MachineInv

-----------------------------------------------------------------------------
(***************************************************************************)
(* The steps that touch no word of the session.                            *)
(***************************************************************************)

\* The steps that are not the child's work.
Management ==
  \/ CancelTask
  \/ \E i \in Items : AudioChanges(i) \/ RemoveUnstartedTaskItem(i)
  \/ \E number \in 0..MaxSubmissions :
       \/ SubmitTodo(number)
       \/ \E decision \in {"approved", "rejected"} : ReviewTodo(number, decision)

LEMMA NextByGroup ==
  ASSUME Next
  PROVE  \/ StartSession
         \/ \E cmd \in PlaybackCommands : RecordPlayback(cmd)
         \/ \E cmd \in GradingCommands : SubmitBatchMarks(cmd)
         \/ Management
BY DEF Next, Management

-----------------------------------------------------------------------------
(***************************************************************************)
(* Types.                                                                  *)
(***************************************************************************)

LEMMA InitTypes == ASSUME Init PROVE TypeOK
<1>1. MachineTypeOK
  BY DEF Init, NotCreated, MachineTypeOK, Unmarked
<1>2. taskItems \in Seq(Items)
  BY TaskListsAssumption DEF Init
<1>3. /\ DOMAIN commands = {}
      /\ rounds \in Seq([items : Seq(Items), done : BOOLEAN])
      /\ answers \in [Items -> Seq(Answer)]
      /\ reviews \in [Items -> Seq(Review)]
  <2>1. DOMAIN commands = {}
    BY DEF Init, NoCommands
  <2>2. \A S : <<>> \in Seq(S)
    OBVIOUS
  <2>3. rounds = <<>> /\ answers = [i \in Items |-> <<>>] /\ reviews = [i \in Items |-> <<>>]
    BY DEF Init
  <2> QED
    BY <2>1, <2>2, <2>3
<1>4. /\ firstCorrect \in [Items -> Results \cup {"unmarked"}]
      /\ finalCorrect \in [Items -> BOOLEAN]
      /\ replayCount \in [Items -> Nat]
  BY DEF Init, Unmarked
<1>5. kind \in [Items -> Kinds] /\ audio \subseteq Items /\ remembered \subseteq Items
  BY DEF Init
<1>6. submissionNumber \in 0..MaxSubmissions /\ rewards \in Nat
  BY MaxSubmissionsAssumption DEF Init
<1>7. playbackEvents \subseteq [command : CommandIds, round : Nat, item : Items]
  BY DEF Init
<1> QED
  BY <1>1, <1>2, <1>3, <1>4, <1>5, <1>6, <1>7 DEF Init, TypeOK

LEMMA StartTypes == ASSUME TypeOK, StartSession PROVE TypeOK'
<1>1. MachineTypeOK'
  <2>1. CreateSessionState(taskItems) /\ taskItems \in Seq(Items) /\ MachineTypeOK
    BY DEF StartSession, TypeOK
  <2> QED
    BY <2>1 DEF CreateSessionState, MachineTypeOK, Unmarked
<1>2. rounds' \in Seq([items : Seq(Items), done : BOOLEAN])
  <2>1. [items |-> taskItems, done |-> FALSE] \in [items : Seq(Items), done : BOOLEAN]
    BY DEF TypeOK
  <2> QED
    BY <2>1 DEF StartSession
<1> QED
  BY <1>1, <1>2 DEF StartSession, TypeOK, taskVars, reviewVars, todoVars

LEMMA PlaybackTypes ==
  ASSUME TypeOK, NEW cmd \in PlaybackCommands, RecordPlayback(cmd)
  PROVE  TypeOK'
<1>1. /\ cmd \in PlaybackCommand
      /\ cmd.id \in CommandIds
      /\ cmd.round \in Nat
      /\ cmd.list \in Seq(Items)
  BY InputsAssumption DEF PlaybackCommands, PlaybackCommand, TypeOK, MachineTypeOK
<1>2. MachineTypeOK'
  BY <1>1, PlaybackKeepsTypes DEF RecordPlayback, TypeOK
<1>3. playbackEvents' \subseteq [command : CommandIds, round : Nat, item : Items]
  <2>1. Range(cmd.list) \subseteq Items
    BY <1>1, RangeOfList
  <2> QED
    BY <1>1, <2>1 DEF RecordPlayback, TypeOK
<1>4. replayCount' \in [Items -> Nat]
  BY DEF RecordPlayback, CountPlayback, TypeOK
<1>5. /\ version' \in Nat
      /\ DOMAIN commands' \subseteq CommandIds
      /\ \A id \in DOMAIN commands' :
           commands'[id] \in [fingerprint : PlaybackCommand \cup GradingCommand,
                              version : Nat]
  BY <1>1 DEF RecordPlayback, StoreCommand, TypeOK
<1> QED
  BY <1>2, <1>3, <1>4, <1>5
  DEF RecordPlayback, TypeOK, taskVars, reviewVars, todoVars

LEMMA MarksTypes ==
  ASSUME TypeOK, NEW cmd \in GradingCommands, SubmitBatchMarks(cmd)
  PROVE  TypeOK'
<1>1. /\ cmd \in GradingCommand
      /\ cmd.id \in CommandIds
      /\ cmd.round \in Nat
      /\ cmd.marks \in Seq(Mark)
  BY InputsAssumption DEF GradingCommands, GradingCommand, TypeOK, MachineTypeOK
<1>2. MachineTypeOK /\ ReduceMarks(cmd.round, cmd.marks)
  BY DEF SubmitBatchMarks, TypeOK
<1>3. MachineTypeOK'
  BY <1>1, <1>2, MarksKeepTypes
<1> DEFINE S == Range(MarkedItems(cmd.marks))
           R(i) == ResultOf(cmd.marks, i)
<1>4. S \subseteq Items /\ \A i \in S : R(i) \in Results
  BY <1>1, ShapeOfMarks
<1>5. answers' \in [Items -> Seq(Answer)]
  <2>1. ASSUME NEW i \in S
        PROVE  [role |-> RoleOf(i, R(i)), result |-> R(i), round |-> cmd.round] \in Answer
    BY <1>1, <1>4 DEF RoleOf, Answer
  <2>2. answers' = [i \in Items |->
          IF i \in S
            THEN Append(answers[i], [role |-> RoleOf(i, R(i)), result |-> R(i),
                                     round |-> cmd.round])
            ELSE answers[i]]
    BY DEF SubmitBatchMarks, RecordAnswers
  <2> HIDE DEF S, R
  <2> QED
    BY <2>1, <2>2 DEF TypeOK
<1>6. reviews' \in [Items -> Seq(Review)]
  <2>1. ASSUME NEW i \in S
        PROVE  ReviewOf(i, R(i)) \in Seq(Review)
    <3>1. FirstEventType(i) \in FirstEvents
      BY <1>4 DEF FirstEventType, FirstEvents, TypeOK, Kinds
    <3>2. RoleOf(i, R(i)) \in {"first_pass", "same_session_relearning", "continued_error"}
      BY DEF RoleOf
    <3>3. CASE RoleOf(i, R(i)) = "first_pass"
      <4>1. ReviewOf(i, R(i)) = <<[type |-> FirstEventType(i), result |-> R(i)]>>
        BY <3>3 DEF ReviewOf
      <4> QED
        BY <1>4, <3>1, <4>1 DEF Review
    <3>4. CASE RoleOf(i, R(i)) = "same_session_relearning"
      <4>1. ReviewOf(i, R(i)) = <<[type |-> "same_session_relearning", result |-> R(i)]>>
        BY <3>4 DEF ReviewOf
      <4> QED
        BY <1>4, <4>1 DEF Review
    <3>5. CASE RoleOf(i, R(i)) = "continued_error"
      BY <3>5 DEF ReviewOf
    <3> QED
      BY <3>2, <3>3, <3>4, <3>5
  <2>2. ASSUME NEW i \in S
        PROVE  reviews[i] \o ReviewOf(i, R(i)) \in Seq(Review)
    BY <1>4, <2>1, ConcatProperties DEF TypeOK
  <2>3. reviews' = [i \in Items |->
          IF i \in S THEN reviews[i] \o ReviewOf(i, R(i)) ELSE reviews[i]]
    BY DEF SubmitBatchMarks, RecordAnswers
  <2> HIDE DEF S, R
  <2> QED
    BY <2>2, <2>3 DEF TypeOK
<1>7. /\ firstCorrect' \in [Items -> Results \cup {"unmarked"}]
      /\ finalCorrect' \in [Items -> BOOLEAN]
      /\ remembered' \subseteq Items
  BY <1>4 DEF SubmitBatchMarks, RecordAnswers, TypeOK
<1>8. rounds' \in Seq([items : Seq(Items), done : BOOLEAN])
  <2> DEFINE closed == [rounds EXCEPT ![roundNumber].done = TRUE]
             Row == [items : Seq(Items), done : BOOLEAN]
  <2>1. closed \in Seq(Row)
    <3>1. rounds \in [1..Len(rounds) -> Row] /\ Len(rounds) \in Nat
      BY LenProperties DEF TypeOK
    <3>2. closed \in [1..Len(rounds) -> Row]
      BY <3>1
    <3> QED
      BY <3>1, <3>2, ListOfFunction
  <2>2. [items |-> round', done |-> FALSE] \in Row
    BY <1>3 DEF MachineTypeOK
  <2>3. \/ rounds' = closed
        \/ rounds' = Append(closed, [items |-> round', done |-> FALSE])
        \/ rounds' = rounds
    BY DEF SubmitBatchMarks, RecordRounds
  <2> HIDE DEF closed, Row
  <2>4. Append(closed, [items |-> round', done |-> FALSE]) \in Seq(Row)
    BY <2>1, <2>2, AppendProperties
  <2>5. rounds \in Seq(Row)
    BY DEF TypeOK, Row
  <2> QED
    BY <2>1, <2>3, <2>4, <2>5 DEF Row
<1>9. /\ version' \in Nat
      /\ DOMAIN commands' \subseteq CommandIds
      /\ \A id \in DOMAIN commands' :
           commands'[id] \in [fingerprint : PlaybackCommand \cup GradingCommand,
                              version : Nat]
  BY <1>1 DEF SubmitBatchMarks, StoreCommand, TypeOK
<1>10. /\ completionEvent' \in BOOLEAN
       /\ sessionStatus' \in {"none", "active", "completed", "cancelled"}
       /\ taskStatus' \in {"active", "completed", "cancelled"}
  BY DEF SubmitBatchMarks, RecordCompletion, TypeOK
<1> QED
  BY <1>3, <1>5, <1>6, <1>7, <1>8, <1>9, <1>10
  DEF SubmitBatchMarks, TypeOK, todoVars

\* The items that remain of a task.
LEMMA RemoveAtProperties ==
  ASSUME NEW S, NEW s \in Seq(S), NEW k \in 1..Len(s)
  PROVE  RemoveAt(s, k) \in Seq(S)
<1>1. Len(s) \in Nat /\ \A j \in 1..Len(s) : s[j] \in S
  BY RangeOfList
<1>2. SubSeq(s, 1, k - 1) \in Seq(S) /\ SubSeq(s, k + 1, Len(s)) \in Seq(S)
  BY <1>1, SubSeqProperties
<1> QED
  BY <1>2, ConcatProperties DEF RemoveAt

\* The columns of the work itself.
WorkTypes ==
  /\ MachineTypeOK
  /\ version \in Nat
  /\ firstCorrect \in [Items -> Results \cup {"unmarked"}]
  /\ finalCorrect \in [Items -> BOOLEAN]
  /\ replayCount \in [Items -> Nat]
  /\ rounds \in Seq([items : Seq(Items), done : BOOLEAN])
  /\ playbackEvents \subseteq [command : CommandIds, round : Nat, item : Items]
  /\ answers \in [Items -> Seq(Answer)]
  /\ DOMAIN commands \subseteq CommandIds
  /\ \A id \in DOMAIN commands :
       commands[id] \in [fingerprint : PlaybackCommand \cup GradingCommand, version : Nat]
  /\ completionEvent \in BOOLEAN
  /\ remembered \subseteq Items
  /\ reviews \in [Items -> Seq(Review)]

\* What management may write.
OtherTypes ==
  /\ taskStatus \in {"active", "completed", "cancelled"}
  /\ taskItems \in Seq(Items)
  /\ allowReplay \in BOOLEAN
  /\ kind \in [Items -> Kinds]
  /\ audio \subseteq Items
  /\ sessionStatus \in {"none", "active", "completed", "cancelled"}
  /\ todoStatus \in {"open", "submitted", "rejected", "approved", "cancelled"}
  /\ submissionNumber \in 0..MaxSubmissions
  /\ rewards \in Nat

LEMMA TypesAreThese == TypeOK <=> WorkTypes /\ OtherTypes
BY DEF TypeOK, WorkTypes, OtherTypes

LEMMA WorkTypesStay ==
  ASSUME WorkTypes, UNCHANGED recordVars
  PROVE  WorkTypes'
<1>1. MachineTypeOK'
  BY DEF WorkTypes, MachineTypeOK, recordVars, machineVars
<1>2. /\ UNCHANGED <<version, firstCorrect, finalCorrect, replayCount, rounds>>
      /\ UNCHANGED <<playbackEvents, answers, commands, completionEvent>>
      /\ UNCHANGED <<remembered, reviews>>
  BY DEF recordVars, reviewVars
<1> QED
  BY <1>1, <1>2 DEF WorkTypes

LEMMA ManagementTypes ==
  ASSUME TypeOK, Management
  PROVE  TypeOK'
<1>1. UNCHANGED recordVars
  BY DEF Management, CancelTask, AudioChanges, RemoveUnstartedTaskItem, SubmitTodo,
         ReviewTodo, recordVars, sessionVars
<1>2. WorkTypes'
  BY <1>1, TypesAreThese, WorkTypesStay
<1>3. OtherTypes'
  <2>1. CASE CancelTask
    BY <2>1, TypesAreThese DEF CancelTask, OtherTypes
  <2>2. ASSUME NEW i \in Items, AudioChanges(i) PROVE OtherTypes'
    BY <2>2, TypesAreThese
    DEF AudioChanges, OtherTypes, taskVars, sessionVars, todoVars
  <2>3. ASSUME NEW i \in Items, RemoveUnstartedTaskItem(i) PROVE OtherTypes'
    <3>1. taskItems' \in Seq(Items)
      BY <2>3, RemoveAtProperties, RangeOfList DEF RemoveUnstartedTaskItem, TypeOK
    <3> QED
      BY <2>3, <3>1, TypesAreThese DEF RemoveUnstartedTaskItem, OtherTypes, sessionVars
  <2>4. ASSUME NEW number \in 0..MaxSubmissions, SubmitTodo(number) PROVE OtherTypes'
    <3>1. submissionNumber' \in 0..MaxSubmissions
      BY <2>4, MaxSubmissionsAssumption DEF SubmitTodo
    <3> QED
      BY <2>4, <3>1, TypesAreThese DEF SubmitTodo, OtherTypes, taskVars, sessionVars
  <2>5. ASSUME NEW number \in 0..MaxSubmissions, NEW decision \in {"approved", "rejected"},
               ReviewTodo(number, decision)
        PROVE  OtherTypes'
    BY <2>5, TypesAreThese DEF ReviewTodo, OtherTypes, taskVars, sessionVars
  <2> QED
    BY <2>1, <2>2, <2>3, <2>4, <2>5 DEF Management
<1> QED
  BY <1>2, <1>3 DEF TypeOK, WorkTypes, OtherTypes

LEMMA StutterTypes == ASSUME TypeOK, UNCHANGED vars PROVE TypeOK'
<1>1. WorkTypes'
  BY TypesAreThese, WorkTypesStay DEF vars, recordVars, sessionVars
<1>2. OtherTypes'
  BY TypesAreThese DEF vars, taskVars, sessionVars, todoVars, OtherTypes
<1> QED
  BY <1>1, <1>2 DEF TypeOK, WorkTypes, OtherTypes

\* No request, in whatever order, writes a value that its column does not allow.
THEOREM TypesHold == Spec => []TypeOK
<1>1. Init => TypeOK
  BY InitTypes
<1>2. TypeOK /\ [Next]_vars => TypeOK'
  BY NextByGroup, StartTypes, PlaybackTypes, MarksTypes, ManagementTypes, StutterTypes
<1> QED
  BY <1>1, <1>2, PTL DEF Spec

-----------------------------------------------------------------------------
(***************************************************************************)
(* The inductive invariant.  The types are done; the other parts follow    *)
(* action by action.                                                       *)
(***************************************************************************)

LEMMA InitInv == ASSUME Init PROVE SessionInv
<1>1. TypeOK
  BY InitTypes
<1>2. /\ itemIds = <<>> /\ round = <<>> /\ played = <<>> /\ marked = <<>>
      /\ phase = "none" /\ roundNumber = 0
      /\ \A i \in Items : first[i] = "unmarked" /\ latest[i] = "unmarked"
  BY DEF Init, NotCreated, Unmarked
<1>3. Len(<<>>) = 0 /\ DOMAIN <<>> = {} /\ Range(<<>>) = {} /\ IsInjective(<<>>)
  BY DEF Range, IsInjective
<1>4. MachineInv
  <2>1. RoundWellFormed
    BY <1>2, <1>3 DEF RoundWellFormed
  <2>2. PlayedInOrder
    BY <1>2, <1>3 DEF PlayedInOrder
  <2>3. AsksWhatIsNotRight /\ FirstAndLatestAgree
    BY <1>2, <1>3 DEF AsksWhatIsNotRight, FirstAndLatestAgree
  <2> QED
    BY <1>1, <2>1, <2>2, <2>3 DEF MachineInv, TypeOK
<1>5. StatusAgreement
  BY <1>2 DEF Init, StatusAgreement
<1>6. RowsAgreeWithMarks /\ ReviewsFollowMarks
  BY <1>2 DEF Init, Unmarked, RowsAgreeWithMarks, ReviewsFollowMarks
<1>7. ItemRowsFit
  BY <1>2, <1>3 DEF Init, ItemRowsFit, AcceptsFirstResult
<1>8. RewardAgreement
  BY DEF Init, RewardAgreement
<1> QED
  BY <1>1, <1>4, <1>5, <1>6, <1>7, <1>8 DEF SessionInv

LEMMA StartKeepsInv == ASSUME SessionInv, StartSession PROVE SessionInv'
<1>1. TypeOK'
  BY StartTypes DEF SessionInv
<1>2. CreateSessionState(taskItems) /\ taskItems \in Seq(Items)
  BY DEF StartSession, SessionInv, TypeOK
<1>3. MachineInv'
  BY <1>2, CreateKeepsMachineInv DEF SessionInv
<1>4. StatusAgreement'
  BY <1>2 DEF StartSession, CreateSessionState, SessionInv, StatusAgreement, taskVars
<1>5. \A i \in Items : /\ first[i] = "unmarked" /\ first'[i] = "unmarked"
                       /\ latest[i] = "unmarked" /\ latest'[i] = "unmarked"
  <2>1. Range(itemIds) = {}
    BY DEF StartSession, SessionInv, StatusAgreement, MachineInv, RoundWellFormed, Range
  <2>2. \A i \in Items : latest[i] = "unmarked" /\ first[i] = "unmarked"
    BY <2>1 DEF SessionInv, MachineInv, AsksWhatIsNotRight, FirstAndLatestAgree
  <2> QED
    BY <1>2, <2>2 DEF CreateSessionState, Unmarked
<1>6. RowsAgreeWithMarks' /\ ReviewsFollowMarks'
  BY <1>5 DEF StartSession, SessionInv, RowsAgreeWithMarks, ReviewsFollowMarks, reviewVars
<1>7. ItemRowsFit'
  <2>1. Range(played') = {}
    BY <1>2 DEF CreateSessionState, Range
  <2> QED
    BY <1>5, <2>1 DEF StartSession, SessionInv, ItemRowsFit, AcceptsFirstResult,
                      taskVars, reviewVars
<1>8. RewardAgreement'
  BY DEF StartSession, SessionInv, RewardAgreement, taskVars, todoVars
<1> QED
  BY <1>1, <1>3, <1>4, <1>6, <1>7, <1>8 DEF SessionInv

LEMMA PlaybackKeepsInv ==
  ASSUME SessionInv, NEW cmd \in PlaybackCommands, RecordPlayback(cmd)
  PROVE  SessionInv'
<1>1. TypeOK'
  BY PlaybackTypes DEF SessionInv
<1>2. /\ ReducePlayback(cmd.round, cmd.list, cmd.finished)
      /\ cmd.list \in Seq(Items) /\ cmd.finished \in BOOLEAN
  BY InputsAssumption DEF RecordPlayback, PlaybackCommands
<1>3. MachineInv'
  BY <1>2, PlaybackKeepsMachineInv DEF SessionInv
<1>4. /\ phase = "listening" /\ phase' \in {"listening", "grading"}
      /\ first' = first /\ latest' = latest
  BY <1>2, PlaybackFrame
<1>5. UNCHANGED <<sessionStatus, firstCorrect, finalCorrect, completionEvent,
                  taskVars, reviewVars, todoVars>>
  BY DEF RecordPlayback
<1>6. StatusAgreement'
  BY <1>4, <1>5 DEF SessionInv, StatusAgreement, taskVars
<1>7. RowsAgreeWithMarks' /\ ReviewsFollowMarks'
  BY <1>4, <1>5 DEF SessionInv, RowsAgreeWithMarks, ReviewsFollowMarks, FirstEventType,
                    taskVars, reviewVars
<1>8. ItemRowsFit'
  <2>1. Range(played') \subseteq Range(played) \cup Range(cmd.list)
    BY <1>2, PlayedGrows DEF SessionInv, TypeOK
  <2>2. \A i \in Items : replayCount'[i] = IF i \in Range(cmd.list)
                                             THEN replayCount[i] + 1 ELSE replayCount[i]
    BY DEF RecordPlayback, CountPlayback
  <2>3. \A i \in Items : replayCount[i] \in Nat
    BY DEF SessionInv, TypeOK
  <2>4. \A i \in Items : i \in Range(played') => replayCount'[i] >= 1
    BY <2>1, <2>2, <2>3 DEF SessionInv, ItemRowsFit
  <2> QED
    BY <1>4, <1>5, <2>4 DEF SessionInv, ItemRowsFit, AcceptsFirstResult, taskVars, reviewVars
<1>9. RewardAgreement'
  BY <1>5 DEF SessionInv, RewardAgreement, taskVars, todoVars
<1> QED
  BY <1>1, <1>3, <1>6, <1>7, <1>8, <1>9 DEF SessionInv

\* What marking an item writes to its review history: its first result, or the
\* one correction of a wrong first result, or nothing.
LEMMA ReviewsOfMarks ==
  ASSUME SessionInv, NEW cmd \in GradingCommands, SubmitBatchMarks(cmd),
         NEW i \in Range(MarkedItems(cmd.marks))
  PROVE  LET R == ResultOf(cmd.marks, i)
         IN  /\ first[i] = "unmarked" =>
                  reviews'[i] = <<[type |-> FirstEventType(i), result |-> R]>>
             /\ first[i] # "unmarked" =>
                  /\ first[i] = "wrong"
                  /\ reviews[i] = <<[type |-> FirstEventType(i), result |-> "wrong"]>>
                  /\ R = "correct" => reviews'[i] = reviews[i] \o
                       <<[type |-> "same_session_relearning", result |-> "correct"]>>
                  /\ R = "wrong" => reviews'[i] = reviews[i]
<1> DEFINE R == ResultOf(cmd.marks, i)
<1>1. /\ ReduceMarks(cmd.round, cmd.marks) /\ cmd.marks \in Seq(Mark)
      /\ MachineInv
  BY InputsAssumption DEF SubmitBatchMarks, GradingCommands, SessionInv
<1>2. i \in Items /\ R \in Results /\ latest[i] # "correct"
  BY <1>1, ShapeOfMarks, MarksAreDue
<1>3. firstCorrect[i] = first[i] /\ finalCorrect[i] = FALSE
  BY <1>2 DEF SessionInv, RowsAgreeWithMarks
<1>4. reviews'[i] = reviews[i] \o ReviewOf(i, R)
  BY <1>2 DEF SubmitBatchMarks, RecordAnswers
<1>5. CASE first[i] = "unmarked"
  <2>1. reviews[i] = <<>>
    BY <1>2, <1>5 DEF SessionInv, ReviewsFollowMarks
  <2>2. ReviewOf(i, R) = <<[type |-> FirstEventType(i), result |-> R]>>
    BY <1>3, <1>5 DEF ReviewOf, RoleOf
  <2> QED
    BY <1>4, <1>5, <2>1, <2>2
<1>6. CASE first[i] # "unmarked"
  <2>1. first[i] = "wrong"
    BY <1>1, <1>2, <1>6 DEF MachineInv, MachineTypeOK, FirstAndLatestAgree, Results
  <2>2. /\ reviews[i] \in Seq(Review) /\ Len(reviews[i]) = 1
        /\ reviews[i][1] = [type |-> FirstEventType(i), result |-> "wrong"]
    BY <1>2, <2>1 DEF SessionInv, ReviewsFollowMarks, TypeOK
  <2>3. reviews[i] = <<[type |-> FirstEventType(i), result |-> "wrong"]>>
    BY <2>2
  <2>4. R = "correct" => ReviewOf(i, R) =
          <<[type |-> "same_session_relearning", result |-> "correct"]>>
    BY <1>3, <1>6 DEF ReviewOf, RoleOf
  <2>5. R = "wrong" => ReviewOf(i, R) = <<>>
    BY <1>3, <1>6 DEF ReviewOf, RoleOf
  <2>6. R = "wrong" => reviews'[i] = reviews[i]
    BY <1>4, <2>2, <2>5, ConcatEmptySeq
  <2> QED
    BY <1>4, <1>6, <2>1, <2>3, <2>4, <2>6
<1> QED
  BY <1>5, <1>6

LEMMA MarksKeepReviews ==
  ASSUME SessionInv, NEW cmd \in GradingCommands, SubmitBatchMarks(cmd)
  PROVE  ReviewsFollowMarks'
<1> DEFINE S == Range(MarkedItems(cmd.marks))
<1>1. /\ ReduceMarks(cmd.round, cmd.marks) /\ cmd.marks \in Seq(Mark)
      /\ MachineInv /\ MachineTypeOK
  BY InputsAssumption DEF SubmitBatchMarks, GradingCommands, SessionInv, MachineInv
<1>2. \A i \in Items : FirstEventType(i)' = FirstEventType(i)
  BY DEF SubmitBatchMarks, FirstEventType
<1>3. ASSUME NEW i \in Items \ S
      PROVE  first'[i] = first[i] /\ latest'[i] = latest[i] /\ reviews'[i] = reviews[i]
  BY <1>1, MarkTables DEF SubmitBatchMarks, RecordAnswers
<1>4. ASSUME NEW i \in Items, first'[i] # "unmarked"
      PROVE  /\ Len(reviews'[i]) =
                  IF first'[i] = "wrong" /\ latest'[i] = "correct" THEN 2 ELSE 1
             /\ reviews'[i][1] = [type |-> FirstEventType(i), result |-> first'[i]]
             /\ Len(reviews'[i]) = 2 =>
                  reviews'[i][2] = [type |-> "same_session_relearning", result |-> "correct"]
  <2>1. CASE i \notin S
    BY <1>3, <1>4, <2>1 DEF SessionInv, ReviewsFollowMarks
  <2>2. CASE i \in S
    <3>1. ResultOf(cmd.marks, i) \in Results
      BY <1>1, <2>2, ShapeOfMarks
    <3>2. /\ latest'[i] = ResultOf(cmd.marks, i)
          /\ first'[i] = IF first[i] = "unmarked" THEN ResultOf(cmd.marks, i) ELSE first[i]
      BY <1>1, <2>2, MarkTables
    <3>3. CASE first[i] = "unmarked"
      <4>1. reviews'[i] = <<[type |-> FirstEventType(i), result |-> first'[i]]>>
        BY <2>2, <3>2, <3>3, ReviewsOfMarks
      <4> QED
        BY <3>2, <3>3, <4>1
    <3>4. CASE first[i] # "unmarked" /\ ResultOf(cmd.marks, i) = "correct"
      <4>1. /\ first'[i] = "wrong" /\ latest'[i] = "correct"
            /\ reviews'[i] = <<[type |-> FirstEventType(i), result |-> "wrong"]>> \o
                 <<[type |-> "same_session_relearning", result |-> "correct"]>>
        BY <2>2, <3>2, <3>4, ReviewsOfMarks
      <4> QED
        BY <4>1
    <3>5. CASE first[i] # "unmarked" /\ ResultOf(cmd.marks, i) = "wrong"
      <4>1. /\ first'[i] = "wrong" /\ latest'[i] = "wrong"
            /\ reviews'[i] = <<[type |-> FirstEventType(i), result |-> "wrong"]>>
        BY <2>2, <3>2, <3>5, ReviewsOfMarks
      <4> QED
        BY <4>1
    <3> QED
      BY <3>1, <3>3, <3>4, <3>5 DEF Results
  <2> QED
    BY <2>1, <2>2
<1>5. ASSUME NEW i \in Items, first'[i] = "unmarked"
      PROVE  reviews'[i] = <<>>
  <2>1. i \notin S
    BY <1>1, <1>5, ShapeOfMarks, MarkTables DEF Results
  <2> QED
    BY <1>3, <1>5, <2>1 DEF SessionInv, ReviewsFollowMarks
<1> QED
  BY <1>2, <1>4, <1>5 DEF ReviewsFollowMarks

LEMMA MarksKeepInv ==
  ASSUME SessionInv, NEW cmd \in GradingCommands, SubmitBatchMarks(cmd)
  PROVE  SessionInv'
<1> DEFINE S == Range(MarkedItems(cmd.marks))
<1>1. TypeOK'
  BY MarksTypes DEF SessionInv
<1>2. /\ ReduceMarks(cmd.round, cmd.marks) /\ cmd.marks \in Seq(Mark)
      /\ MachineInv /\ MachineTypeOK
  BY InputsAssumption DEF SubmitBatchMarks, GradingCommands, SessionInv, MachineInv
<1>3. MachineInv'
  BY <1>2, MarksKeepMachineInv
<1>4. phase = "grading" /\ phase' \in {"listening", "completed"}
  BY <1>2, MarksFrame
<1>5. StatusAgreement'
  BY <1>4 DEF SubmitBatchMarks, RecordCompletion, MayRecord, EnsureTaskActive,
              EnsureMutableVersion,
              SessionInv, StatusAgreement
<1>6. RowsAgreeWithMarks'
  <2>1. ASSUME NEW i \in S
        PROVE  firstCorrect'[i] = first'[i] /\ finalCorrect'[i] = (latest'[i] = "correct")
    <3>1. /\ latest'[i] = ResultOf(cmd.marks, i) /\ i \in Items
          /\ first'[i] = IF first[i] = "unmarked" THEN ResultOf(cmd.marks, i) ELSE first[i]
      BY <1>2, MarkTables, ShapeOfMarks
    <3>2. /\ finalCorrect'[i] = (ResultOf(cmd.marks, i) = "correct")
          /\ firstCorrect'[i] = IF firstCorrect[i] = "unmarked"
                                  THEN ResultOf(cmd.marks, i) ELSE firstCorrect[i]
      BY <3>1 DEF SubmitBatchMarks, RecordAnswers
    <3>3. firstCorrect[i] = first[i]
      BY <3>1 DEF SessionInv, RowsAgreeWithMarks
    <3> QED
      BY <3>1, <3>2, <3>3
  <2>2. ASSUME NEW i \in Items \ S
        PROVE  firstCorrect'[i] = first'[i] /\ finalCorrect'[i] = (latest'[i] = "correct")
    <3>1. latest'[i] = latest[i] /\ first'[i] = first[i]
      BY <1>2, MarkTables
    <3>2. firstCorrect'[i] = firstCorrect[i] /\ finalCorrect'[i] = finalCorrect[i]
      BY DEF SubmitBatchMarks, RecordAnswers
    <3>3. firstCorrect[i] = first[i] /\ finalCorrect[i] = (latest[i] = "correct")
      BY DEF SessionInv, RowsAgreeWithMarks
    <3> QED
      BY <3>1, <3>2, <3>3
  <2> QED
    BY <2>1, <2>2 DEF RowsAgreeWithMarks
<1>7. ReviewsFollowMarks'
  BY MarksKeepReviews
<1>8. ItemRowsFit'
  <2>1. played' = played \/ played' = <<>>
    BY <1>2 DEF ReduceMarks, GoOnListening, Complete, NextRound
  <2>2. Range(played') \subseteq Range(played)
    BY <2>1 DEF Range
  <2>3. UNCHANGED <<replayCount, kind>> /\ remembered' = remembered \cup S
    BY DEF SubmitBatchMarks, RecordAnswers
  <2>4. \A i \in Items \ S : first'[i] = first[i]
    BY <1>2, MarkTables
  <2>5. \A i \in S : first'[i] # "unmarked"
    BY <1>2, MarkTables, ShapeOfMarks DEF Results
  <2> QED
    BY <2>2, <2>3, <2>4, <2>5 DEF SessionInv, ItemRowsFit, AcceptsFirstResult
<1>9. RewardAgreement'
  BY DEF SubmitBatchMarks, RecordCompletion, MayRecord, EnsureTaskActive, SessionInv,
         RewardAgreement, todoVars
<1> QED
  BY <1>1, <1>3, <1>5, <1>6, <1>7, <1>8, <1>9 DEF SessionInv

\* A step that leaves the child's work alone keeps all that is said about it.
LEMMA WorkUntouched ==
  ASSUME SessionInv, UNCHANGED <<recordVars, kind>>
  PROVE  MachineInv' /\ RowsAgreeWithMarks' /\ ReviewsFollowMarks' /\ ItemRowsFit'
<1>1. MachineInv'
  BY DEF recordVars, machineVars, SessionInv, MachineInv, MachineTypeOK, RoundWellFormed,
         PlayedInOrder, AsksWhatIsNotRight, Due, FirstAndLatestAgree
<1>2. RowsAgreeWithMarks' /\ ReviewsFollowMarks' /\ ItemRowsFit'
  BY DEF recordVars, machineVars, reviewVars, SessionInv, RowsAgreeWithMarks,
         ReviewsFollowMarks, ItemRowsFit, FirstEventType, AcceptsFirstResult
<1> QED
  BY <1>1, <1>2

LEMMA ManagementLeavesWork ==
  ASSUME Management PROVE UNCHANGED <<recordVars, kind>>
BY DEF Management, CancelTask, AudioChanges, RemoveUnstartedTaskItem, SubmitTodo, ReviewTodo,
       recordVars, taskVars, sessionVars, reviewVars

LEMMA ManagementKeepsInv ==
  ASSUME SessionInv, Management
  PROVE  SessionInv'
<1>1. TypeOK'
  BY ManagementTypes DEF SessionInv, Management
<1>2. phase' = phase /\ completionEvent' = completionEvent
  BY ManagementLeavesWork DEF recordVars, machineVars
<1>3. StatusAgreement' /\ RewardAgreement'
  <2>1. CASE CancelTask
    BY <1>2, <2>1 DEF CancelTask, EnsureNoReward, SessionInv, StatusAgreement, RewardAgreement
  <2>2. ASSUME NEW i \in Items, AudioChanges(i)
        PROVE  StatusAgreement' /\ RewardAgreement'
    BY <1>2, <2>2 DEF AudioChanges, SessionInv, StatusAgreement, RewardAgreement,
                      taskVars, sessionVars, todoVars
  <2>3. ASSUME NEW i \in Items, RemoveUnstartedTaskItem(i)
        PROVE  StatusAgreement' /\ RewardAgreement'
    BY <1>2, <2>3 DEF RemoveUnstartedTaskItem, EnsureNoReward, SessionInv, StatusAgreement,
                      RewardAgreement, sessionVars
  <2>4. ASSUME NEW number \in 0..MaxSubmissions, SubmitTodo(number)
        PROVE  StatusAgreement' /\ RewardAgreement'
    BY <1>2, <2>4 DEF SubmitTodo, SessionInv, StatusAgreement, RewardAgreement,
                      taskVars, sessionVars
  <2>5. ASSUME NEW number \in 0..MaxSubmissions, NEW decision \in {"approved", "rejected"},
               ReviewTodo(number, decision)
        PROVE  StatusAgreement' /\ RewardAgreement'
    BY <1>2, <2>5 DEF ReviewTodo, SessionInv, StatusAgreement, RewardAgreement,
                      taskVars, sessionVars
  <2> QED
    BY <2>1, <2>2, <2>3, <2>4, <2>5 DEF Management
<1> QED
  BY <1>1, <1>3, ManagementLeavesWork, WorkUntouched DEF SessionInv

LEMMA StutterKeepsInv == ASSUME SessionInv, UNCHANGED vars PROVE SessionInv'
<1>1. TypeOK'
  BY StutterTypes DEF SessionInv
<1>2. UNCHANGED <<recordVars, kind>>
  BY DEF vars, recordVars, taskVars, sessionVars, reviewVars
<1>3. StatusAgreement' /\ RewardAgreement'
  BY DEF vars, machineVars, taskVars, sessionVars, todoVars, SessionInv, StatusAgreement,
         RewardAgreement
<1> QED
  BY <1>1, <1>2, <1>3, WorkUntouched DEF SessionInv

\* The tables of the machine, the session, the review service, the task and the
\* todo agree with each other after every transaction.
THEOREM SessionInvHolds == Spec => []SessionInv
<1>1. Init => SessionInv
  BY InitInv
<1>2. SessionInv /\ [Next]_vars => SessionInv'
  BY NextByGroup, StartKeepsInv, PlaybackKeepsInv, MarksKeepInv, ManagementKeepsInv,
     StutterKeepsInv
<1> QED
  BY <1>1, <1>2, PTL DEF Spec

-----------------------------------------------------------------------------
(***************************************************************************)
(* What follows from the invariant.                                        *)
(***************************************************************************)

LEMMA PlayedWhatIsGraded ==
  ASSUME SessionInv, phase = "grading", NEW i \in Due,
         mode = "item_by_item" => i = round[Len(marked) + 1]
  PROVE  i \in Range(played)
<1>1. /\ played \in Seq(Items) /\ round \in Seq(Items) /\ marked \in Seq(Items)
      /\ mode \in Modes
  BY DEF SessionInv, TypeOK, MachineTypeOK
<1>2. \A k \in 1..Len(played) : played[k] = round[k]
  BY <1>1, RangeOfList DEF SessionInv, MachineInv, PlayedInOrder
<1>3. CASE mode = "continuous_batch"
  <2>1. Len(played) = Len(round)
    BY <1>3 DEF SessionInv, MachineInv, PlayedInOrder
  <2>2. PICK k \in 1..Len(round) : i = round[k]
    BY <1>1, RangeOfList DEF Due
  <2> QED
    BY <1>1, <1>2, <2>1, <2>2, RangeOfList
<1>4. CASE mode = "item_by_item"
  <2>1. Len(played) = Len(marked) + 1
    BY <1>4 DEF SessionInv, MachineInv, PlayedInOrder
  <2>2. Len(marked) + 1 \in 1..Len(played)
    BY <1>1, <2>1, RangeOfList
  <2> QED
    BY <1>1, <1>2, <1>4, <2>2, RangeOfList
<1> QED
  BY <1>1, <1>3, <1>4 DEF Modes

LEMMA AcceptedBecauseInv == SessionInv => MarksAreAccepted
<1> SUFFICES ASSUME SessionInv, sessionStatus = "active", phase = "grading",
                    NEW i \in Due, NEW result \in Results,
                    mode = "item_by_item" => i = round[Len(marked) + 1]
             PROVE  AcceptsAnswer(i, result)
  BY DEF MarksAreAccepted
<1>1. /\ i \in Range(itemIds) /\ i \in Items
      /\ latest[i] # "correct"
  <2>1. i \in Range(itemIds) /\ Range(itemIds) \subseteq Items
    BY RangeOfList DEF Due, SessionInv, MachineInv, RoundWellFormed, MachineTypeOK
  <2> QED
    BY <2>1 DEF SessionInv, MachineInv, AsksWhatIsNotRight
<1>2. firstCorrect[i] = first[i] /\ first[i] \in Results \cup {"unmarked"}
  BY <1>1 DEF SessionInv, RowsAgreeWithMarks, MachineInv, MachineTypeOK
<1>3. replayCount[i] >= 1
  BY <1>1, PlayedWhatIsGraded DEF SessionInv, ItemRowsFit
<1>4. RoleOf(i, result) = "first_pass" => AcceptsFirstResult(i)
  BY <1>1, <1>2 DEF RoleOf, SessionInv, ItemRowsFit
<1>5. ASSUME RoleOf(i, result) = "same_session_relearning"
      PROVE  AcceptsRelearning(i)
  <2>1. first[i] = "wrong"
    <3>1. first[i] # "unmarked"
      BY <1>2, <1>5 DEF RoleOf
    <3>2. first[i] # "correct"
      BY <1>1 DEF SessionInv, MachineInv, FirstAndLatestAgree
    <3> QED
      BY <1>2, <3>1, <3>2 DEF Results
  <2>2. /\ Len(reviews[i]) = 1 /\ reviews[i] \in Seq(Review)
        /\ reviews[i][1] = [type |-> FirstEventType(i), result |-> "wrong"]
    BY <1>1, <2>1 DEF SessionInv, ReviewsFollowMarks, TypeOK
  <2>3. FirstEventType(i) \in FirstEvents /\ FirstEventType(i) # "same_session_relearning"
    BY <1>1 DEF FirstEventType, FirstEvents, SessionInv, TypeOK, Kinds
  <2>4. DOMAIN reviews[i] = {1}
    BY <2>2
  <2>5. i \in remembered
    BY <1>1, <2>1 DEF SessionInv, ItemRowsFit
  <2> QED
    BY <2>2, <2>3, <2>4, <2>5 DEF AcceptsRelearning
<1> QED
  BY <1>3, <1>4, <1>5 DEF AcceptsAnswer

\* No mark the child can give while grading is open is refused by the review
\* service or the answer table, so grading never gets stuck.
THEOREM GradingNeverRefused == Spec => []MarksAreAccepted
BY SessionInvHolds, AcceptedBecauseInv, PTL

\* A reward is given once, and only for a completed task that is not withdrawn.
THEOREM RewardsStandForWork == Spec => []RewardAgreement
<1>1. SessionInv => RewardAgreement
  BY DEF SessionInv
<1> QED
  BY <1>1, SessionInvHolds, PTL

\* A command that arrives after completion or cancellation changes nothing.
THEOREM ClosedSessionsAreFrozen == Spec => ClosedSessionIsFrozen
<1>1. [Next]_vars =>
        [(sessionStatus \in {"completed", "cancelled"}) => UNCHANGED recordVars]_vars
  <2> SUFFICES ASSUME [Next]_vars, sessionStatus \in {"completed", "cancelled"}
               PROVE  UNCHANGED recordVars
    OBVIOUS
  <2>1. ~StartSession
    BY DEF StartSession
  <2>2. ~\E cmd \in PlaybackCommands : RecordPlayback(cmd)
    BY DEF RecordPlayback, MayRecord, EnsureMutableVersion
  <2>3. ~\E cmd \in GradingCommands : SubmitBatchMarks(cmd)
    BY DEF SubmitBatchMarks, MayRecord, EnsureMutableVersion
  <2>4. CASE Management
    BY <2>4, ManagementLeavesWork
  <2>5. CASE UNCHANGED vars
    BY <2>5 DEF vars, recordVars, sessionVars, reviewVars
  <2> QED
    BY <2>1, <2>2, <2>3, <2>4, <2>5, NextByGroup
<1> QED
  BY <1>1, PTL DEF Spec, ClosedSessionIsFrozen

-----------------------------------------------------------------------------
(***************************************************************************)
(* The session keeps the promise of LearningPromise.                       *)
(***************************************************************************)

\* A session that listens has something left to ask.
LEMMA SomethingDue == MachineInv /\ phase = "listening" => Due # {}
<1> SUFFICES ASSUME MachineInv, phase = "listening" PROVE Due # {}
  OBVIOUS
<1>1. /\ round \in Seq(Items) /\ marked \in Seq(Items) /\ mode \in Modes
      /\ round # <<>> /\ IsInjective(round)
  BY DEF MachineInv, MachineTypeOK, RoundWellFormed
<1>2. CASE mode = "continuous_batch"
  <2>1. Range(marked) = {}
    BY <1>2 DEF MachineInv, PlayedInOrder, Range
  <2>2. 1 \in 1..Len(round)
    BY <1>1, RangeOfList
  <2>3. round[1] \in Range(round)
    BY <1>1, <2>2, RangeOfList
  <2> QED
    BY <2>1, <2>3 DEF Due
<1>3. CASE mode = "item_by_item"
  <2>1. /\ Len(marked) < Len(round)
        /\ \A k \in 1..Len(marked) : marked[k] = round[k]
    BY <1>1, <1>3, RangeOfList DEF MachineInv, PlayedInOrder
  <2>2. /\ Len(marked) + 1 \in 1..Len(round)
        /\ \A k \in 1..Len(marked) : k \in 1..Len(round) /\ k # Len(marked) + 1
    BY <1>1, <2>1, RangeOfList
  <2>3. round[Len(marked) + 1] \notin Range(marked)
    BY <1>1, <2>1, <2>2, RangeOfList DEF IsInjective
  <2>4. round[Len(marked) + 1] \in Range(round)
    BY <1>1, <2>2, RangeOfList
  <2> QED
    BY <2>3, <2>4 DEF Due
<1> QED
  BY <1>1, <1>2, <1>3 DEF Modes

LEMMA PromiseInit == ASSUME Init PROVE Promise!Init
<1>1. Range(itemIds) = {}
  BY DEF Init, NotCreated, Range
<1> QED
  BY <1>1 DEF Init, NotCreated, Unmarked, Promise!Init

LEMMA StartBegins ==
  ASSUME SessionInv, SessionInv', StartSession
  PROVE  Promise!Begin
<1>1. CreateSessionState(taskItems) /\ phase = "none" /\ sessionStatus = "none"
  BY DEF StartSession, SessionInv, StatusAgreement
<1>2. Range(itemIds) = {}
  BY <1>1 DEF SessionInv, MachineInv, RoundWellFormed, Range
<1>3. /\ \A i \in Items : latest[i] = "unmarked" /\ first[i] = "unmarked"
      /\ \A i \in Items : latest'[i] = "unmarked" /\ first'[i] = "unmarked"
  BY <1>1, <1>2 DEF CreateSessionState, Unmarked, SessionInv, MachineInv,
                    AsksWhatIsNotRight, FirstAndLatestAgree
<1>4. first' = first
  BY <1>3 DEF SessionInv, MachineInv, MachineTypeOK
<1>5. Range(itemIds') \subseteq Items /\ Range(itemIds') # {}
  <2>1. itemIds' \in Seq(Items) /\ itemIds' # <<>>
    BY <1>1 DEF CreateSessionState, SessionInv, MachineInv, MachineTypeOK
  <2>2. 1 \in 1..Len(itemIds')
    BY <2>1, RangeOfList
  <2> QED
    BY <2>1, <2>2, RangeOfList
<1>6. /\ {i \in Range(itemIds) : latest[i] = "correct"} = {}
      /\ {i \in Range(itemIds') : latest'[i] = "correct"} = {}
  BY <1>2, <1>3, <1>5
<1> QED
  BY <1>1, <1>4, <1>5, <1>6 DEF StartSession, Promise!Begin

LEMMA MarksAnswer ==
  ASSUME SessionInv, SessionInv', NEW cmd \in GradingCommands, SubmitBatchMarks(cmd)
  PROVE  \E right, wrong \in SUBSET Items : Promise!Answer(right, wrong)
<1> DEFINE S == Range(MarkedItems(cmd.marks))
           R(i) == ResultOf(cmd.marks, i)
           right == {i \in S : R(i) = "correct"}
           wrong == {i \in S : R(i) = "wrong"}
<1>1. /\ ReduceMarks(cmd.round, cmd.marks) /\ cmd.marks \in Seq(Mark)
      /\ MachineInv /\ MachineTypeOK
  BY InputsAssumption DEF SubmitBatchMarks, GradingCommands, SessionInv, MachineInv
<1>2. S \subseteq Items /\ \A i \in S : R(i) \in Results
  BY <1>1, ShapeOfMarks
<1>3. right \cup wrong = S /\ right \cap wrong = {}
  BY <1>2 DEF Results
<1>4. S # {}
  <2>1. marked \in Seq(Items) /\ round \in Seq(Items) /\ round # <<>> /\ phase = "grading"
    BY <1>1, MarksFrame DEF MachineInv, MachineTypeOK, RoundWellFormed
  <2>2. round[1] \in Range(round)
    BY <2>1, RangeOfList
  <2> QED
    BY <1>1, <2>2, RangeOfSingle DEF ReduceMarks, CoversWhatIsDue
<1>5. \A i \in S : i \in Range(itemIds) /\ latest[i] # "correct"
  BY <1>1, MarksAreDue
<1>6. itemIds' = itemIds /\ phase' \in {"listening", "completed"}
  BY <1>1, MarksFrame
<1>7. /\ first' \in [Items -> Results \cup {"unmarked"}]
      /\ \A i \in S : /\ latest'[i] = R(i)
                      /\ first'[i] = IF first[i] = "unmarked" THEN R(i) ELSE first[i]
      /\ \A i \in Items \ S : latest'[i] = latest[i] /\ first'[i] = first[i]
  BY <1>1, MarkTables
<1>8. Range(itemIds) \subseteq Items
  BY <1>1, RangeOfList DEF MachineTypeOK
<1> HIDE DEF S, R
<1>9. {i \in Range(itemIds') : latest'[i] = "correct"} =
        {i \in Range(itemIds) : latest[i] = "correct"} \cup right
  BY <1>5, <1>6, <1>7, <1>8
<1>10. first' = [w \in Items |->
         IF first[w] # "unmarked" THEN first[w]
         ELSE IF w \in right THEN "correct"
         ELSE IF w \in wrong THEN "wrong"
         ELSE "unmarked"]
  <2>1. ASSUME NEW w \in Items
        PROVE  first'[w] = IF first[w] # "unmarked" THEN first[w]
                           ELSE IF w \in right THEN "correct"
                           ELSE IF w \in wrong THEN "wrong"
                           ELSE "unmarked"
    BY <1>2, <1>7 DEF Results
  <2> QED
    BY <1>7, <2>1
<1>11. sessionStatus = "active" /\ (sessionStatus' = "completed") = (phase' = "completed")
       /\ (phase' # "completed" => sessionStatus' = "active")
  BY DEF SubmitBatchMarks, MayRecord, EnsureMutableVersion, RecordCompletion, SessionInv, StatusAgreement
<1>12. (phase' = "completed") =
         ({i \in Range(itemIds') : latest'[i] = "correct"} = Range(itemIds'))
  <2>1. CASE phase' = "completed"
    BY <2>1 DEF SessionInv, MachineInv, AsksWhatIsNotRight
  <2>2. CASE phase' = "listening"
    <3>1. (MachineInv /\ phase = "listening" => Due # {})'
      BY SomethingDue, PTL
    <3>2. PICK i \in Due' : TRUE
      BY <2>2, <3>1 DEF SessionInv
    <3>3. i \in Range(itemIds') /\ latest'[i] # "correct"
      BY <2>2 DEF Due, SessionInv, MachineInv, RoundWellFormed, AsksWhatIsNotRight
    <3> QED
      BY <2>2, <3>3
  <2> QED
    BY <1>6, <2>1, <2>2
<1>13. Promise!Answer(right, wrong)
  BY <1>3, <1>4, <1>5, <1>6, <1>9, <1>10, <1>11, <1>12 DEF Promise!Answer
<1>14. right \in SUBSET Items /\ wrong \in SUBSET Items
  BY <1>2
<1> QED
  BY <1>13, <1>14

\* A step of the session is a step of the promise, or leaves it as it is.
LEMMA PromiseStep ==
  ASSUME SessionInv, SessionInv', [Next]_vars
  PROVE  [Promise!Next]_Promise!vars
<1>1. CASE StartSession
  BY <1>1, StartBegins DEF Promise!Next
<1>2. ASSUME NEW cmd \in PlaybackCommands, RecordPlayback(cmd)
      PROVE  UNCHANGED Promise!vars
  BY <1>2, PlaybackFrame DEF RecordPlayback, Promise!vars
<1>3. ASSUME NEW cmd \in GradingCommands, SubmitBatchMarks(cmd)
      PROVE  Promise!Next
  BY <1>3, MarksAnswer DEF Promise!Next
<1>4. CASE CancelTask
  <2>1. itemIds' = itemIds /\ first' = first /\ latest' = latest
    BY <1>4 DEF CancelTask, machineVars
  <2>2. CASE sessionStatus = "active"
    BY <1>4, <2>1, <2>2 DEF CancelTask, Promise!Next, Promise!Cancel
  <2>3. CASE sessionStatus # "active"
    BY <1>4, <2>1, <2>3 DEF CancelTask, Promise!vars
  <2> QED
    BY <2>2, <2>3
<1>5. CASE Management /\ ~CancelTask
  BY <1>5 DEF Management, AudioChanges, RemoveUnstartedTaskItem, SubmitTodo, ReviewTodo,
              Promise!vars, machineVars, sessionVars
<1>6. CASE UNCHANGED vars
  BY <1>6 DEF vars, Promise!vars, machineVars, sessionVars
<1> QED
  BY <1>1, <1>2, <1>3, <1>4, <1>5, <1>6, NextByGroup

\* Whatever the mode, the rounds and the retries, the child's session is a
\* behaviour of LearningPromise.
THEOREM PromiseKept == Spec => KeepsPromise
<1>1. Init => Promise!Init
  BY PromiseInit
<1>2. SessionInv /\ SessionInv' /\ [Next]_vars => [Promise!Next]_Promise!vars
  BY PromiseStep
<1> QED
  BY <1>1, <1>2, SessionInvHolds, PTL DEF Spec, KeepsPromise, Promise!Spec

-----------------------------------------------------------------------------
(***************************************************************************)
(* The commands form a log.                                                *)
(***************************************************************************)

AllCommands == PlaybackCommand \cup GradingCommand

\* What recording a command does to the log, whichever kind it is.
LEMMA CommandEntered ==
  ASSUME TypeOK, CommandsNumbered, NEW cmd \in AllCommands,
         IsNewCommand(cmd), EnsureMutableVersion(cmd),
         version' = version + 1, StoreCommand(cmd, version + 1),
         sessionStatus' # "none"
  PROVE  /\ CommandsNumbered'
         /\ AcceptedCommands' = Append(AcceptedCommands, cmd)
         /\ Len(AcceptedCommands) = version
         /\ \A k \in DOMAIN AcceptedCommands : AcceptedCommands[k].id # cmd.id
<1>1. /\ version \in Nat /\ cmd.expectedVersion = version
      /\ cmd.id \notin DOMAIN commands
  BY DEF TypeOK, EnsureMutableVersion, IsNewCommand
<1>2. /\ DOMAIN commands' = DOMAIN commands \cup {cmd.id}
      /\ commands'[cmd.id].version = version + 1
      /\ commands'[cmd.id].fingerprint = cmd
      /\ \A id \in DOMAIN commands : commands'[id] = commands[id]
  BY <1>1 DEF StoreCommand
<1>3. /\ \A id \in DOMAIN commands :
           /\ commands[id].version \in 1..version
           /\ commands[id].fingerprint.id = id
           /\ commands[id].fingerprint.expectedVersion = commands[id].version - 1
      /\ \A a, b \in DOMAIN commands : commands[a].version = commands[b].version => a = b
      /\ \A n \in 1..version : \E id \in DOMAIN commands : commands[id].version = n
  BY DEF CommandsNumbered
<1>4. CommandsNumbered'
  <2>1. ASSUME NEW id \in DOMAIN commands'
        PROVE  /\ commands'[id].version \in 1..(version + 1)
               /\ commands'[id].fingerprint.id = id
               /\ commands'[id].fingerprint.expectedVersion = commands'[id].version - 1
    <3>1. CASE id = cmd.id
      BY <1>1, <1>2, <3>1
    <3>2. CASE id \in DOMAIN commands
      BY <1>1, <1>2, <1>3, <3>2
    <3> QED
      BY <1>2, <3>1, <3>2
  <2>2. ASSUME NEW a \in DOMAIN commands', NEW b \in DOMAIN commands',
               commands'[a].version = commands'[b].version
        PROVE  a = b
    <3>1. \A id \in DOMAIN commands : commands'[id].version # version + 1
      BY <1>1, <1>2, <1>3
    <3> QED
      BY <1>2, <1>3, <2>2, <3>1
  <2>3. ASSUME NEW n \in 1..(version + 1)
        PROVE  \E id \in DOMAIN commands' : commands'[id].version = n
    <3>1. CASE n = version + 1
      BY <1>2, <3>1
    <3>2. CASE n \in 1..version
      BY <1>2, <1>3, <3>2
    <3> QED
      BY <1>1, <3>1, <3>2
  <2> QED
    BY <2>1, <2>2, <2>3 DEF CommandsNumbered
<1>5. ASSUME NEW n \in 1..version
      PROVE  CommandAt(n)' = CommandAt(n) /\ CommandAt(n).id # cmd.id
  <2>1. PICK id \in DOMAIN commands : commands[id].version = n
    BY <1>3
  <2>2. (CHOOSE j \in DOMAIN commands : commands[j].version = n) = id
    BY <1>3, <2>1
  <2>3. (CHOOSE j \in DOMAIN commands' : commands'[j].version = n) = id
    <3>1. id \in DOMAIN commands' /\ commands'[id].version = n
      BY <1>2, <2>1
    <3> QED
      BY <1>4, <3>1 DEF CommandsNumbered
  <2> QED
    BY <1>1, <1>2, <1>3, <2>1, <2>2, <2>3 DEF CommandAt
<1>6. ASSUME NEW n, n = version + 1
      PROVE  CommandAt(n)' = cmd
  <2>1. (CHOOSE j \in DOMAIN commands' : commands'[j].version = n) = cmd.id
    <3>1. cmd.id \in DOMAIN commands' /\ commands'[cmd.id].version = n
      BY <1>2, <1>6
    <3>2. \A j \in DOMAIN commands' : commands'[j].version = n => j = cmd.id
      BY <1>4, <3>1 DEF CommandsNumbered
    <3> QED
      BY <3>1, <3>2
  <2> QED
    BY <1>2, <2>1 DEF CommandAt
<1>7. /\ AcceptedCommands = [n \in 1..version |-> CommandAt(n)]
      /\ AcceptedCommands' = [n \in 1..(version + 1) |-> CommandAt(n)']
  BY DEF AcceptedCommands
<1>8. /\ Len(AcceptedCommands) = version
      /\ \A k \in DOMAIN AcceptedCommands : AcceptedCommands[k].id # cmd.id
  BY <1>1, <1>5, <1>7
<1>9. AcceptedCommands' = Append(AcceptedCommands, cmd)
  <2> DEFINE S == {CommandAt(n) : n \in 1..version} \cup {cmd}
  <2>1. AcceptedCommands \in Seq(S)
    BY <1>1, <1>7
  <2>2. Append(AcceptedCommands, cmd) =
          [n \in 1..(version + 1) |-> IF n = version + 1 THEN cmd ELSE CommandAt(n)]
    BY <1>1, <1>7, <1>8, <2>1
  <2>3. AcceptedCommands' =
          [n \in 1..(version + 1) |-> IF n = version + 1 THEN cmd ELSE CommandAt(n)]
    <3>1. ASSUME NEW n \in 1..(version + 1)
          PROVE  CommandAt(n)' = IF n = version + 1 THEN cmd ELSE CommandAt(n)
      BY <1>1, <1>5, <1>6
    <3> QED
      BY <1>7, <3>1
  <2> QED
    BY <2>2, <2>3
<1> QED
  BY <1>4, <1>8, <1>9

\* A step that accepts no command leaves the log.
LEMMA LogUntouched ==
  ASSUME CommandsNumbered, UNCHANGED <<commands, version>>,
         sessionStatus' = "none" => sessionStatus = "none"
  PROVE  CommandsNumbered' /\ AcceptedCommands' = AcceptedCommands
<1>1. CommandsNumbered'
  BY DEF CommandsNumbered
<1>2. AcceptedCommands' = AcceptedCommands
  BY DEF AcceptedCommands, CommandAt
<1> QED
  BY <1>1, <1>2

\* Either kind of command is one entry.
LEMMA WorkEntersLog ==
  ASSUME SessionInv, SessionInv', CommandsNumbered,
         NEW cmd \in PlaybackCommands \cup GradingCommands,
         RecordPlayback(cmd) \/ SubmitBatchMarks(cmd)
  PROVE  CommandsNumbered' /\ Log!Accept(cmd) /\ cmd \in Range(AcceptedCommands')
<1>1. TypeOK /\ cmd \in AllCommands
  <2>1. TypeOK /\ 0..version \subseteq Nat /\ 1..roundNumber \subseteq Nat
    <3>1. TypeOK /\ version \in Nat /\ roundNumber \in Nat
      BY DEF SessionInv, TypeOK, MachineTypeOK
    <3> QED
      BY <3>1
  <2>2. CASE cmd \in PlaybackCommands
    BY <2>1, <2>2 DEF AllCommands, PlaybackCommands, PlaybackCommand
  <2>3. CASE cmd \in GradingCommands
    BY <2>1, <2>3 DEF AllCommands, GradingCommands, GradingCommand
  <2> QED
    BY <2>1, <2>2, <2>3
<1>2. /\ IsNewCommand(cmd) /\ EnsureMutableVersion(cmd)
      /\ version' = version + 1 /\ StoreCommand(cmd, version + 1)
  BY DEF RecordPlayback, SubmitBatchMarks, MayRecord
<1>3. sessionStatus = "active" /\ sessionStatus' \in {"active", "completed"}
  BY DEF RecordPlayback, SubmitBatchMarks, MayRecord, EnsureMutableVersion, RecordCompletion
<1>4. /\ CommandsNumbered'
      /\ AcceptedCommands' = Append(AcceptedCommands, cmd)
      /\ Len(AcceptedCommands) = version
      /\ \A k \in DOMAIN AcceptedCommands : AcceptedCommands[k].id # cmd.id
  BY <1>1, <1>2, <1>3, CommandEntered
<1>5. cmd.expectedVersion = version
  BY <1>2 DEF EnsureMutableVersion
<1>6. Log!Accept(cmd)
  BY <1>1, <1>3, <1>4, <1>5 DEF Log!Accept, AllCommands
<1>7. cmd \in Range(AcceptedCommands')
  <2>1. version + 1 \in DOMAIN AcceptedCommands' /\ AcceptedCommands'[version + 1] = cmd
    <3>1. version \in Nat /\ AcceptedCommands = [n \in 1..version |-> CommandAt(n)]
      BY <1>1 DEF AcceptedCommands, TypeOK
    <3>2. AcceptedCommands \in Seq({CommandAt(n) : n \in 1..version} \cup {cmd})
      BY <3>1
    <3> QED
      BY <1>4, <3>1, <3>2
  <2> QED
    BY <2>1 DEF Range
<1> QED
  BY <1>4, <1>6, <1>7

LEMMA LogStep ==
  ASSUME SessionInv, SessionInv', CommandsNumbered, [Next]_vars
  PROVE  CommandsNumbered' /\ [Log!Next]_Log!vars
<1>1. ASSUME NEW cmd \in PlaybackCommands \cup GradingCommands,
             RecordPlayback(cmd) \/ SubmitBatchMarks(cmd)
      PROVE  CommandsNumbered' /\ Log!Next
  <2>1. CommandsNumbered' /\ Log!Accept(cmd) /\ cmd \in Range(AcceptedCommands')
    BY <1>1, WorkEntersLog
  <2> QED
    BY <2>1 DEF Log!Next, Log!Range, Range
<1>2. CASE StartSession
  <2>1. /\ UNCHANGED <<commands, version>>
        /\ sessionStatus = "none" /\ sessionStatus' = "active"
    BY <1>2 DEF StartSession
  <2> QED
    BY <2>1, LogUntouched DEF Log!Next, Log!Open
<1>3. CASE CancelTask
  <2>1. /\ UNCHANGED <<commands, version>>
        /\ sessionStatus' = IF sessionStatus = "active" THEN "cancelled" ELSE sessionStatus
    BY <1>3 DEF CancelTask
  <2>2. CommandsNumbered' /\ AcceptedCommands' = AcceptedCommands
    BY <2>1, LogUntouched
  <2>3. CASE sessionStatus = "active"
    BY <2>1, <2>2, <2>3 DEF Log!Next, Log!Close
  <2>4. CASE sessionStatus # "active"
    BY <2>1, <2>2, <2>4 DEF Log!vars
  <2> QED
    BY <2>2, <2>3, <2>4
<1>4. CASE UNCHANGED vars \/ (Management /\ ~CancelTask)
  <2>1. UNCHANGED <<commands, version, sessionStatus>>
    BY <1>4 DEF Management, AudioChanges, RemoveUnstartedTaskItem, SubmitTodo, ReviewTodo,
                vars, sessionVars
  <2>2. CommandsNumbered' /\ AcceptedCommands' = AcceptedCommands
    BY <2>1, LogUntouched
  <2> QED
    BY <2>1, <2>2 DEF Log!vars
<1> QED
  BY <1>1, <1>2, <1>3, <1>4, NextByGroup

LEMMA LogInit == ASSUME Init PROVE CommandsNumbered /\ Log!Init
<1>1. DOMAIN commands = {} /\ version = 0 /\ sessionStatus = "none"
  BY DEF Init, NoCommands
<1>2. AcceptedCommands = <<>>
  BY <1>1 DEF AcceptedCommands
<1> QED
  BY <1>1, <1>2 DEF CommandsNumbered, Log!Init

\* However many devices send commands and repeat them, the session is one log of
\* commands, each made with all of the log before it in sight.
THEOREM CommandsAreALog == Spec => CommandsFormALog
<1>1. Init => CommandsNumbered /\ Log!Init
  BY LogInit
<1>2. SessionInv /\ SessionInv' /\ CommandsNumbered /\ [Next]_vars =>
        CommandsNumbered' /\ [Log!Next]_Log!vars
  BY LogStep
<1>3. Spec => [][Log!Next]_Log!vars
  BY <1>1, <1>2, SessionInvHolds, PTL DEF Spec
<1> QED
  BY <1>1, <1>3, PTL DEF Spec, CommandsFormALog, Log!Spec

\* Whatever is recorded of the child's work after the start is recorded under one
\* new command, which moves the version on by one.
THEOREM WorkNeedsACommandAlways == Spec => WorkNeedsANewCommand
<1> DEFINE Work ==
      recordVars' # recordVars /\ sessionStatus # "none" =>
        /\ version' = version + 1
        /\ \E id \in CommandIds \ DOMAIN commands :
             /\ DOMAIN commands' = DOMAIN commands \cup {id}
             /\ commands'[id].version = version'
<1>1. ASSUME [Next]_vars PROVE [Work]_vars
  <2>1. ASSUME NEW cmd \in PlaybackCommands \cup GradingCommands,
               RecordPlayback(cmd) \/ SubmitBatchMarks(cmd)
        PROVE  Work
    <3>1. cmd.id \in CommandIds
      BY DEF PlaybackCommands, GradingCommands
    <3>2. /\ cmd.id \notin DOMAIN commands
          /\ version' = version + 1 /\ StoreCommand(cmd, version + 1)
      BY <2>1 DEF RecordPlayback, SubmitBatchMarks, MayRecord, IsNewCommand
    <3>3. DOMAIN commands' = DOMAIN commands \cup {cmd.id}
          /\ commands'[cmd.id].version = version + 1
      BY <3>2 DEF StoreCommand
    <3> QED
      BY <3>1, <3>2, <3>3
  <2>2. CASE StartSession
    BY <2>2 DEF StartSession
  <2>3. CASE Management \/ UNCHANGED vars
    <3>1. UNCHANGED recordVars
      BY <2>3 DEF Management, AudioChanges, CancelTask, RemoveUnstartedTaskItem, SubmitTodo,
                  ReviewTodo, vars, sessionVars, reviewVars, recordVars
    <3> QED
      BY <3>1
  <2> QED
    BY <1>1, <2>1, <2>2, <2>3, NextByGroup
<1> QED
  BY <1>1, PTL DEF Spec, WorkNeedsANewCommand

-----------------------------------------------------------------------------
(***************************************************************************)
(* The tables of rounds and answers.                                       *)
(***************************************************************************)

\* What was played in the round that runs has been reported for it.
PlayedIsReported ==
  \A i \in Range(played) :
    \E e \in playbackEvents : e.item = i /\ e.round = roundNumber

RoundsOfAnswers ==
  /\ phase = "none" => roundNumber = 0
  /\ \A i \in Items : \A k \in DOMAIN answers[i] : answers[i][k].round \in 1..roundNumber

OneAnswerEach ==
  \A i \in Items : \A r \in DOMAIN rounds :
    /\ i \in Answered(r) => \E k \in DOMAIN answers[i] : AnswersIn(i, r) = {k}
    /\ i \notin Answered(r) => AnswersIn(i, r) = {}

\* What the round that runs has marked has been answered as it stands.
AnswersAreLatest ==
  \A i \in Range(marked) : \A k \in AnswersIn(i, roundNumber) :
    answers[i][k].result = latest[i]

RoundRows ==
  /\ Len(rounds) = roundNumber
  /\ \A r \in DOMAIN rounds :
       /\ rounds[r].done <=> (r < roundNumber \/ phase = "completed")
       /\ r = roundNumber => rounds[r].items = round
       /\ r > 1 => /\ Range(rounds[r].items) = WrongIn(r - 1)
                   /\ InOrderOf(rounds[r].items, rounds[r - 1].items)

\* The inductive invariant of the history: it needs SessionInv as well, which
\* says that only what is due is marked, and what a round has asked.
HistoryInv ==
  /\ RoundsOfAnswers
  /\ OneAnswerEach
  /\ AnswersAreLatest
  /\ RoundRows

HeardInv == PlayedIsReported /\ AnsweredAfterHeard

LEMMA ItemsOfRounds ==
  ASSUME TypeOK, NEW r \in DOMAIN rounds
  PROVE  /\ Range(rounds[r].items) \subseteq Items
         /\ rounds[r].done \in BOOLEAN
<1> DEFINE Row == [items : Seq(Items), done : BOOLEAN]
<1>1. rounds \in Seq(Row)
  BY DEF TypeOK
<1>2. \A row \in Row : row.done \in BOOLEAN /\ row.items \in Seq(Items)
  OBVIOUS
<1> HIDE DEF Row
<1>3. rounds[r] \in Row
  BY <1>1, RangeOfList
<1> QED
  BY <1>2, <1>3, RangeOfList

LEMMA AnsweredOnce ==
  ASSUME TypeOK, HistoryInv PROVE RoundHistory
<1>1. ASSUME NEW r \in DOMAIN rounds, NEW i \in Items
      PROVE  Cardinality(AnswersIn(i, r)) = IF i \in Answered(r) THEN 1 ELSE 0
  <2>1. CASE i \in Answered(r)
    <3>1. PICK k \in DOMAIN answers[i] : AnswersIn(i, r) = {k}
      BY <2>1 DEF HistoryInv, OneAnswerEach
    <3>2. Cardinality({k}) = 1
      BY FS_Singleton
    <3> QED
      BY <2>1, <3>1, <3>2
  <2>2. CASE i \notin Answered(r)
    <3>1. AnswersIn(i, r) = {}
      BY <2>2 DEF HistoryInv, OneAnswerEach
    <3>2. Cardinality({}) = 0
      BY FS_EmptySet
    <3> QED
      BY <2>2, <3>1, <3>2
  <2> QED
    BY <2>1, <2>2
<1>2. ASSUME NEW r \in DOMAIN rounds
      PROVE  rounds[r].done = (r < roundNumber \/ phase = "completed")
  <2>1. rounds[r].done \in BOOLEAN
    BY ItemsOfRounds
  <2>2. rounds[r].done <=> (r < roundNumber \/ phase = "completed")
    BY DEF HistoryInv, RoundRows
  <2> QED
    BY <2>1, <2>2
<1> QED
  BY <1>1, <1>2 DEF HistoryInv, RoundRows, RoundHistory

LEMMA HistoryInit == ASSUME Init PROVE HistoryInv /\ HeardInv
<1>1. /\ rounds = <<>> /\ roundNumber = 0 /\ DOMAIN rounds = {} /\ Len(rounds) = 0
      /\ Range(marked) = {} /\ Range(played) = {}
      /\ \A i \in Items : DOMAIN answers[i] = {}
  BY DEF Init, NotCreated, Range
<1> QED
  BY <1>1 DEF HistoryInv, HeardInv, RoundsOfAnswers, OneAnswerEach, AnswersAreLatest,
              RoundRows, PlayedIsReported, AnsweredAfterHeard

LEMMA HistoryUntouched ==
  ASSUME HistoryInv, HeardInv, UNCHANGED recordVars
  PROVE  HistoryInv' /\ HeardInv'
<1>1. UNCHANGED <<phase, roundNumber, round, played, marked, latest, rounds, playbackEvents,
                  answers>>
  BY DEF recordVars, machineVars
<1> QED
  BY <1>1 DEF HistoryInv, HeardInv, RoundsOfAnswers, OneAnswerEach, AnswersAreLatest,
              RoundRows, PlayedIsReported, AnsweredAfterHeard, AnswersIn, Answered, WrongIn

LEMMA StartKeepsHistory ==
  ASSUME SessionInv, HistoryInv, HeardInv, StartSession
  PROVE  HistoryInv' /\ HeardInv'
<1>1. /\ phase' = "listening" /\ roundNumber' = 1 /\ round' = taskItems
      /\ played' = <<>> /\ marked' = <<>> /\ answers' = answers
      /\ rounds' = <<[items |-> taskItems, done |-> FALSE]>>
      /\ Range(played') = {} /\ Range(marked') = {}
  BY DEF StartSession, CreateSessionState, Range
<1>2. \A i \in Items : DOMAIN answers[i] = {}
  BY DEF StartSession, SessionInv, StatusAgreement, HistoryInv, RoundsOfAnswers
<1>3. /\ DOMAIN rounds' = {1} /\ Len(rounds') = 1
      /\ rounds'[1].items = taskItems
      /\ ~rounds'[1].done
  BY <1>1
<1>4. \A i \in Items : AnswersIn(i, 1)' = {} /\ i \notin Answered(1)'
  BY <1>1, <1>2 DEF AnswersIn, Answered
<1>5. HeardInv'
  BY <1>1, <1>2 DEF HeardInv, PlayedIsReported, AnsweredAfterHeard
<1>6. RoundsOfAnswers' /\ AnswersAreLatest'
  BY <1>1, <1>2 DEF RoundsOfAnswers, AnswersAreLatest
<1>7. OneAnswerEach'
  BY <1>3, <1>4 DEF OneAnswerEach
<1>8. RoundRows'
  BY <1>1, <1>3 DEF RoundRows
<1> QED
  BY <1>5, <1>6, <1>7, <1>8 DEF HistoryInv

LEMMA PlaybackKeepsHistory ==
  ASSUME SessionInv, HistoryInv, HeardInv,
         NEW cmd \in PlaybackCommands, RecordPlayback(cmd)
  PROVE  HistoryInv' /\ HeardInv'
<1>1. /\ ReducePlayback(cmd.round, cmd.list, cmd.finished)
      /\ cmd.list \in Seq(Items) /\ cmd.round = roundNumber
  BY InputsAssumption DEF RecordPlayback, PlaybackCommands, ReducePlayback
<1>2. /\ phase = "listening" /\ phase' \in {"listening", "grading"}
      /\ UNCHANGED <<roundNumber, round, marked, latest, rounds, answers>>
  BY <1>1, PlaybackFrame DEF RecordPlayback
<1>3. HistoryInv'
  <2>1. RoundsOfAnswers'
    BY <1>2 DEF HistoryInv, RoundsOfAnswers
  <2>2. OneAnswerEach' /\ AnswersAreLatest'
    BY <1>2 DEF HistoryInv, OneAnswerEach, AnswersAreLatest, AnswersIn, Answered
  <2>3. phase # "completed" /\ phase' # "completed"
    BY <1>2
  <2>4. \A r \in DOMAIN rounds :
          /\ rounds[r].done <=> r < roundNumber
          /\ r = roundNumber => rounds[r].items = round
          /\ r > 1 => /\ Range(rounds[r].items) = WrongIn(r - 1)
                      /\ InOrderOf(rounds[r].items, rounds[r - 1].items)
    BY <2>3 DEF HistoryInv, RoundRows
  <2>5. \A r : WrongIn(r)' = WrongIn(r)
    BY <1>2 DEF WrongIn, AnswersIn
  <2>6. Len(rounds') = roundNumber'
    BY <1>2 DEF HistoryInv, RoundRows
  <2>7. RoundRows'
    BY <1>2, <2>3, <2>4, <2>5, <2>6 DEF RoundRows
  <2> QED
    BY <2>1, <2>2, <2>7 DEF HistoryInv
<1>4. Range(played') \subseteq Range(played) \cup Range(cmd.list)
  BY <1>1, PlayedGrows DEF SessionInv, TypeOK
<1>5. playbackEvents' = playbackEvents \cup
        {[command |-> cmd.id, round |-> cmd.round, item |-> i] : i \in Range(cmd.list)}
  BY DEF RecordPlayback
<1>6. ASSUME NEW i \in Range(played')
      PROVE  \E e \in playbackEvents' : e.item = i /\ e.round = roundNumber
  <2>1. CASE i \in Range(played)
    BY <1>5, <2>1 DEF HeardInv, PlayedIsReported
  <2>2. CASE i \in Range(cmd.list)
    <3>1. [command |-> cmd.id, round |-> cmd.round, item |-> i] \in playbackEvents'
      BY <1>5, <2>2
    <3> QED
      BY <1>1, <3>1
  <2> QED
    BY <1>4, <2>1, <2>2
<1>7. HeardInv'
  BY <1>2, <1>5, <1>6 DEF HeardInv, PlayedIsReported, AnsweredAfterHeard
<1> QED
  BY <1>3, <1>7

\* What marks write to the answers: one more of the round that runs for each item
\* they mark, which had none of it, and nothing for any other item.
LEMMA AnswersOfMarks ==
  ASSUME SessionInv, HistoryInv, NEW cmd \in GradingCommands, SubmitBatchMarks(cmd)
  PROVE  LET S == Range(MarkedItems(cmd.marks))
         IN  /\ S \subseteq Range(round) /\ S \subseteq Items
             /\ \A i \in S :
                  LET n == Len(answers[i]) + 1
                  IN  /\ DOMAIN answers'[i] = DOMAIN answers[i] \cup {n}
                      /\ n \notin DOMAIN answers[i]
                      /\ \A k \in DOMAIN answers[i] : answers'[i][k] = answers[i][k]
                      /\ answers'[i][n].round = roundNumber
                      /\ answers'[i][n].result = latest'[i]
                      /\ i \notin Range(marked)
                      /\ AnswersIn(i, roundNumber) = {}
             /\ \A i \in Items \ S : answers'[i] = answers[i] /\ latest'[i] = latest[i]
<1> DEFINE S == Range(MarkedItems(cmd.marks))
           R(i) == ResultOf(cmd.marks, i)
<1>1. /\ ReduceMarks(cmd.round, cmd.marks) /\ cmd.marks \in Seq(Mark)
      /\ MachineInv /\ MachineTypeOK /\ cmd.round = roundNumber
  BY InputsAssumption
     DEF SubmitBatchMarks, ReduceMarks, GradingCommands, SessionInv, MachineInv
<1>2. S \subseteq Items /\ \A i \in S : R(i) \in Results
  BY <1>1, ShapeOfMarks
<1>3. \A i \in S : i \in Range(round) /\ i \notin Range(marked)
  BY <1>1, MarksAreDue DEF Due
<1>4. answers' = [i \in Items |->
        IF i \in S
          THEN Append(answers[i], [role |-> RoleOf(i, R(i)), result |-> R(i),
                                   round |-> cmd.round])
          ELSE answers[i]]
  BY DEF SubmitBatchMarks, RecordAnswers
<1>5. ASSUME NEW i \in S
      PROVE  LET n == Len(answers[i]) + 1
             IN  /\ DOMAIN answers'[i] = DOMAIN answers[i] \cup {n}
                 /\ n \notin DOMAIN answers[i]
                 /\ \A k \in DOMAIN answers[i] : answers'[i][k] = answers[i][k]
                 /\ answers'[i][n].round = roundNumber
                 /\ answers'[i][n].result = R(i)
  <2> DEFINE row == [role |-> RoleOf(i, R(i)), result |-> R(i), round |-> cmd.round]
  <2>1. row \in Answer
    BY <1>1, <1>2 DEF RoleOf, Answer, MachineTypeOK
  <2>2. answers[i] \in Seq(Answer)
    BY <1>2 DEF SessionInv, TypeOK
  <2>3. answers'[i] = Append(answers[i], row)
    BY <1>2, <1>4
  <2>4. row.round = roundNumber /\ row.result = R(i)
    BY <1>1
  <2> HIDE DEF row, R, S
  <2>5. /\ Append(answers[i], row) \in Seq(Answer) /\ Len(answers[i]) \in Nat
        /\ Len(Append(answers[i], row)) = Len(answers[i]) + 1
        /\ \A k \in 1..Len(answers[i]) : Append(answers[i], row)[k] = answers[i][k]
        /\ Append(answers[i], row)[Len(answers[i]) + 1] = row
    BY <2>1, <2>2, AppendProperties, LenProperties
  <2>6. /\ DOMAIN answers[i] = 1..Len(answers[i])
        /\ DOMAIN Append(answers[i], row) = 1..(Len(answers[i]) + 1)
    BY <2>2, <2>5, LenProperties
  <2> QED
    BY <2>3, <2>4, <2>5, <2>6
<1>6. ASSUME NEW i \in S PROVE AnswersIn(i, roundNumber) = {}
  <2>1. roundNumber \in DOMAIN rounds
    BY <1>1, MarksFrame, LenProperties DEF SessionInv, TypeOK, MachineTypeOK, MachineInv,
       RoundWellFormed, HistoryInv, RoundRows
  <2>2. i \notin Answered(roundNumber)
    BY <1>3 DEF Answered
  <2> QED
    BY <1>2, <2>1, <2>2 DEF HistoryInv, OneAnswerEach
<1>7. \A i \in S : latest'[i] = R(i)
  BY <1>1, MarkTables
<1>8. \A i \in Items \ S : answers'[i] = answers[i] /\ latest'[i] = latest[i]
  BY <1>1, <1>4, MarkTables
<1> HIDE DEF S, R
<1>9. S \subseteq Range(round) /\ S \subseteq Items
  BY <1>2, <1>3
<1>10. ASSUME NEW i \in S
       PROVE  LET n == Len(answers[i]) + 1
              IN  /\ DOMAIN answers'[i] = DOMAIN answers[i] \cup {n}
                  /\ n \notin DOMAIN answers[i]
                  /\ \A k \in DOMAIN answers[i] : answers'[i][k] = answers[i][k]
                  /\ answers'[i][n].round = roundNumber
                  /\ answers'[i][n].result = latest'[i]
                  /\ i \notin Range(marked)
                  /\ AnswersIn(i, roundNumber) = {}
  BY <1>3, <1>5, <1>6, <1>7
<1> QED
  BY <1>8, <1>9, <1>10 DEF S

\* The answers of a round before and after: marks add to the round that runs.
LEMMA AnswersInAfterMarks ==
  ASSUME SessionInv, HistoryInv, NEW cmd \in GradingCommands, SubmitBatchMarks(cmd),
         NEW i \in Items, NEW r
  PROVE  LET S == Range(MarkedItems(cmd.marks))
         IN  /\ \A k \in AnswersIn(i, r) : answers'[i][k] = answers[i][k]
             /\ i \notin S \/ r # roundNumber => AnswersIn(i, r)' = AnswersIn(i, r)
             /\ i \in S /\ r = roundNumber => AnswersIn(i, r)' = {Len(answers[i]) + 1}
<1> DEFINE S == Range(MarkedItems(cmd.marks))
           n == Len(answers[i]) + 1
<1>1. CASE i \in S
  <2>1. /\ DOMAIN answers'[i] = DOMAIN answers[i] \cup {n}
        /\ n \notin DOMAIN answers[i]
        /\ \A k \in DOMAIN answers[i] : answers'[i][k] = answers[i][k]
        /\ answers'[i][n].round = roundNumber
        /\ AnswersIn(i, roundNumber) = {}
    BY <1>1, AnswersOfMarks
  <2> HIDE DEF n
  <2>2. AnswersIn(i, r)' = {k \in DOMAIN answers'[i] : answers'[i][k].round = r}
    BY DEF AnswersIn
  <2>3. AnswersIn(i, r) = {k \in DOMAIN answers[i] : answers[i][k].round = r}
    BY DEF AnswersIn
  <2>4. ASSUME r # roundNumber PROVE AnswersIn(i, r)' = AnswersIn(i, r)
    <3>1. \A k \in DOMAIN answers'[i] :
            answers'[i][k].round = r <=> k \in DOMAIN answers[i] /\ answers[i][k].round = r
      BY <2>1, <2>4
    <3> QED
      BY <2>1, <2>2, <2>3, <3>1
  <2>5. ASSUME r = roundNumber PROVE AnswersIn(i, r)' = {n}
    <3>1. \A k \in DOMAIN answers[i] : answers[i][k].round # roundNumber
      BY <2>1 DEF AnswersIn
    <3>2. \A k \in DOMAIN answers'[i] : answers'[i][k].round = r <=> k = n
      BY <2>1, <2>5, <3>1
    <3> QED
      BY <2>1, <2>2, <3>2
  <2>6. \A k \in AnswersIn(i, r) : answers'[i][k] = answers[i][k]
    BY <2>1 DEF AnswersIn
  <2> QED
    BY <1>1, <2>4, <2>5, <2>6 DEF n
<1>2. CASE i \notin S
  <2>1. answers'[i] = answers[i]
    BY <1>2, AnswersOfMarks
  <2> QED
    BY <1>2, <2>1 DEF AnswersIn
<1> QED
  BY <1>1, <1>2

\* What marks write to the rounds: the session goes on in its round, completes
\* it, or closes it and opens the next one.
LEMMA RoundsOfMarks ==
  ASSUME SessionInv, HistoryInv, NEW cmd \in GradingCommands, SubmitBatchMarks(cmd)
  PROVE  LET S == Range(MarkedItems(cmd.marks))
         IN  /\ roundNumber \in Nat \ {0}
             /\ Len(rounds) = roundNumber /\ DOMAIN rounds = 1..roundNumber
             /\ \A r \in 1..roundNumber :
                  /\ rounds'[r].items = rounds[r].items
                  /\ r # roundNumber => rounds'[r].done = rounds[r].done
             /\ \/ /\ roundNumber' = roundNumber /\ round' = round
                   /\ Len(rounds') = roundNumber /\ DOMAIN rounds' = 1..roundNumber
                   /\ rounds'[roundNumber].done <=> phase' = "completed"
                   /\ Range(marked') = Range(marked) \cup S
                \/ /\ roundNumber' = roundNumber + 1 /\ phase' = "listening"
                   /\ Len(rounds') = roundNumber + 1 /\ DOMAIN rounds' = 1..(roundNumber + 1)
                   /\ rounds'[roundNumber].done
                   /\ ~rounds'[roundNumber + 1].done
                   /\ rounds'[roundNumber + 1].items = round'
                   /\ Range(marked') = {}
                   /\ NextRound(cmd.marks)
<1> DEFINE S == Range(MarkedItems(cmd.marks))
           closed == [rounds EXCEPT ![roundNumber].done = TRUE]
           Row == [items : Seq(Items), done : BOOLEAN]
<1>1. /\ ReduceMarks(cmd.round, cmd.marks) /\ cmd.marks \in Seq(Mark)
      /\ MachineInv /\ MachineTypeOK /\ TypeOK /\ RoundRows /\ RecordRounds
  BY InputsAssumption DEF SubmitBatchMarks, GradingCommands, SessionInv, MachineInv, HistoryInv
<1>2. roundNumber \in Nat \ {0} /\ phase = "grading"
  BY <1>1, MarksFrame DEF MachineInv, RoundWellFormed, MachineTypeOK
<1>3. rounds \in Seq(Row) /\ Len(rounds) = roundNumber /\ DOMAIN rounds = 1..roundNumber
  BY <1>1, LenProperties DEF TypeOK, RoundRows
<1>4. ~rounds[roundNumber].done
  <2>1. roundNumber \in DOMAIN rounds
    BY <1>2, <1>3
  <2>2. rounds[roundNumber].done <=> (roundNumber < roundNumber \/ phase = "completed")
    BY <1>1, <2>1, Zenon DEF RoundRows
  <2> QED
    BY <1>2, <2>2
<1>5. /\ closed \in Seq(Row) /\ Len(closed) = roundNumber /\ DOMAIN closed = 1..roundNumber
      /\ \A r \in 1..roundNumber :
           /\ closed[r].items = rounds[r].items
           /\ r # roundNumber => closed[r].done = rounds[r].done
      /\ closed[roundNumber].done
  <2>1. rounds \in [1..roundNumber -> Row]
    BY <1>3, LenProperties
  <2>2. closed \in [1..roundNumber -> Row]
    BY <2>1
  <2>3. closed \in Seq(Row) /\ Len(closed) = roundNumber
    <3>1. roundNumber \in Nat
      BY <1>2
    <3> HIDE DEF closed, Row
    <3> QED
      BY <2>2, <3>1, ListOfFunction
  <2>4. DOMAIN closed = 1..roundNumber
    BY <2>2
  <2>5. \A r \in 1..roundNumber : r # roundNumber => closed[r] = rounds[r]
    BY <1>3
  <2>6. closed[roundNumber] = [rounds[roundNumber] EXCEPT !.done = TRUE]
    <3>1. roundNumber \in DOMAIN rounds
      BY <1>2, <1>3
    <3> QED
      BY <3>1, Zenon
  <2>7. rounds[roundNumber] \in Row
    BY <1>2, <2>1
  <2>8. closed[roundNumber].items = rounds[roundNumber].items
    BY <2>6, <2>7
  <2>9. closed[roundNumber].done
    BY <2>6, <2>7
  <2> QED
    BY <2>3, <2>4, <2>5, <2>8, <2>9
<1> HIDE DEF closed, Row
<1>6. rounds' = IF phase' = "completed" THEN closed
                ELSE IF roundNumber' # roundNumber
                     THEN Append(closed, [items |-> round', done |-> FALSE])
                     ELSE rounds
  BY <1>1 DEF RecordRounds, closed
<1>7. ASSUME marked' = marked \o MarkedItems(cmd.marks)
      PROVE  Range(marked') = Range(marked) \cup S
  BY <1>1, <1>7, ShapeOfMarks, RangeConcatenation DEF MachineTypeOK
<1> HIDE DEF S
<1>8. CASE GoOnListening(cmd.marks)
  <2>1. /\ phase' = "listening" /\ roundNumber' = roundNumber /\ round' = round
        /\ marked' = marked \o MarkedItems(cmd.marks)
    BY <1>8 DEF GoOnListening
  <2>2. rounds' = rounds
    BY <1>6, <2>1
  <2> QED
    BY <1>2, <1>3, <1>4, <1>7, <2>1, <2>2 DEF S
<1>9. CASE Complete(cmd.marks)
  <2>1. /\ phase' = "completed" /\ roundNumber' = roundNumber /\ round' = round
        /\ marked' = marked \o MarkedItems(cmd.marks)
    BY <1>9 DEF Complete
  <2>2. rounds' = closed
    BY <1>6, <2>1
  <2> QED
    BY <1>2, <1>3, <1>5, <1>7, <2>1, <2>2 DEF S
<1>10. CASE NextRound(cmd.marks)
  <2> DEFINE new == [items |-> round', done |-> FALSE]
  <2>1. /\ phase' = "listening" /\ roundNumber' = roundNumber + 1 /\ Range(marked') = {}
    BY <1>10 DEF NextRound, Range
  <2>2. rounds' = Append(closed, new)
    BY <1>2, <1>6, <2>1
  <2>3. new \in Row
    BY <1>1, MarksKeepTypes DEF MachineTypeOK, Row
  <2>4. new.items = round' /\ ~new.done
    OBVIOUS
  <2> HIDE DEF new
  <2>5. /\ Len(rounds') = roundNumber + 1 /\ rounds' \in Seq(Row)
        /\ \A r \in 1..roundNumber : rounds'[r] = closed[r]
        /\ rounds'[roundNumber + 1] = new
    BY <1>5, <2>2, <2>3, AppendProperties
  <2>6. DOMAIN rounds' = 1..(roundNumber + 1)
    BY <2>5, LenProperties
  <2>7. rounds'[roundNumber].done
    BY <1>2, <1>5, <2>5
  <2>8. rounds'[roundNumber + 1].items = round' /\ ~rounds'[roundNumber + 1].done
    BY <2>4, <2>5
  <2>9. \A r \in 1..roundNumber :
          /\ rounds'[r].items = rounds[r].items
          /\ r # roundNumber => rounds'[r].done = rounds[r].done
    BY <1>5, <2>5
  <2> QED
    BY <1>2, <1>3, <1>10, <2>1, <2>5, <2>6, <2>7, <2>8, <2>9
<1> QED
  BY <1>1, <1>8, <1>9, <1>10 DEF ReduceMarks

\* After marks a round has an answer of every item it had one of, and the round
\* that runs one more of each item they mark.
LEMMA AnsweredAfterMarks ==
  ASSUME SessionInv, HistoryInv, NEW cmd \in GradingCommands, SubmitBatchMarks(cmd),
         NEW r \in 1..roundNumber'
  PROVE  LET S == Range(MarkedItems(cmd.marks))
         IN  /\ r < roundNumber => Answered(r)' = Answered(r)
             /\ r = roundNumber => Answered(r)' = Answered(r) \cup S
             /\ r > roundNumber => Answered(r)' = {}
<1> DEFINE S == Range(MarkedItems(cmd.marks))
<1>1. /\ ReduceMarks(cmd.round, cmd.marks) /\ cmd.marks \in Seq(Mark) /\ MachineInv
      /\ S \subseteq Range(round)
  BY InputsAssumption, AnswersOfMarks DEF SubmitBatchMarks, GradingCommands, SessionInv
<1>2. NextRound(cmd.marks) => Range(round) \subseteq Range(marked) \cup S
  BY <1>1, DoneMeansAllMarked DEF NextRound
<1> HIDE DEF S
<1>3. /\ roundNumber \in Nat \ {0} /\ DOMAIN rounds = 1..roundNumber
      /\ \A q \in 1..roundNumber : rounds'[q].items = rounds[q].items
      /\ \/ roundNumber' = roundNumber /\ Range(marked') = Range(marked) \cup S
         \/ roundNumber' = roundNumber + 1 /\ Range(marked') = {} /\ NextRound(cmd.marks)
  BY RoundsOfMarks DEF S
<1>4. Answered(r)' = {i \in Range(rounds'[r].items) : r = roundNumber' => i \in Range(marked')}
  BY DEF Answered
<1>5. CASE r < roundNumber
  <2>1. rounds'[r].items = rounds[r].items /\ r # roundNumber' /\ r # roundNumber
    BY <1>3, <1>5
  <2>2. Answered(r) = Range(rounds[r].items)
    BY <2>1 DEF Answered
  <2>3. Answered(r)' = Range(rounds'[r].items)
    BY <1>4, <2>1
  <2> QED
    BY <1>3, <1>5, <2>1, <2>2, <2>3 DEF S
<1>6. CASE r = roundNumber
  <2>1. rounds'[r].items = round /\ rounds[r].items = round
    BY <1>3, <1>6 DEF HistoryInv, RoundRows
  <2>2. Answered(r) = {i \in Range(round) : i \in Range(marked)}
    BY <1>6, <2>1 DEF Answered
  <2>3. Answered(r)' = {i \in Range(round) : i \in Range(marked) \cup S}
    BY <1>2, <1>3, <1>4, <1>6, <2>1
  <2> QED
    BY <1>1, <1>3, <1>6, <2>2, <2>3 DEF S
<1>7. CASE r > roundNumber
  <2>1. r = roundNumber' /\ Range(marked') = {}
    BY <1>3, <1>7
  <2> QED
    BY <1>3, <1>4, <1>7, <2>1
<1> QED
  BY <1>3, <1>5, <1>6, <1>7

\* The next round asks the items the round was answered wrong, in its order.
LEMMA NextRoundIsWhatWasWrong ==
  ASSUME SessionInv, HistoryInv, NEW cmd \in GradingCommands, SubmitBatchMarks(cmd),
         NextRound(cmd.marks), NEW n, n = roundNumber
  PROVE  /\ Range(round') = WrongIn(n)'
         /\ InOrderOf(round', round)
<1> DEFINE S == Range(MarkedItems(cmd.marks))
<1>1. /\ ReduceMarks(cmd.round, cmd.marks) /\ cmd.marks \in Seq(Mark)
      /\ MachineInv /\ MachineTypeOK /\ cmd.round = roundNumber
  BY InputsAssumption
     DEF SubmitBatchMarks, ReduceMarks, GradingCommands, SessionInv, MachineInv
<1>2. PICK next \in Rounds : IncorrectItems(next, WithLatest(cmd.marks)) /\ round' = next
  BY DEF NextRound
<1>3. latest' = WithLatest(cmd.marks)
  BY <1>1 DEF ReduceMarks
<1>4. InOrderOf(round', round)
  BY <1>1, <1>2, RoundsAreLists DEF InOrderOf, IncorrectItems
<1>5. Range(round') = {i \in Range(round) : latest'[i] # "correct"}
  BY <1>2, <1>3 DEF IncorrectItems
<1>6. n \in DOMAIN rounds /\ rounds[n].items = round /\ rounds'[n].items = round
  BY RoundsOfMarks DEF HistoryInv, RoundRows
<1>7. Range(round) \subseteq Range(marked) \cup S /\ Range(round) \subseteq Items
  BY <1>1, DoneMeansAllMarked, RangeOfList DEF NextRound, MachineTypeOK
<1> HIDE DEF S
<1>8. ASSUME NEW i \in Range(round)
      PROVE  /\ \E k \in AnswersIn(i, n)' : TRUE
             /\ \A k \in AnswersIn(i, n)' : answers'[i][k].result = latest'[i]
             /\ latest'[i] \in Results
  <2>1. CASE i \in S
    <3>1. /\ AnswersIn(i, n)' = {Len(answers[i]) + 1}
          /\ answers'[i][Len(answers[i]) + 1].result = latest'[i]
      BY <2>1, AnswersInAfterMarks, AnswersOfMarks DEF S
    <3>2. latest'[i] \in Results
      BY <1>1, <2>1, MarkTables, ShapeOfMarks DEF S
    <3> QED
      BY <3>1, <3>2
  <2>2. CASE i \notin S
    <3>1. i \in Range(marked) /\ i \in Items
      BY <1>7, <2>2
    <3>2. /\ AnswersIn(i, n)' = AnswersIn(i, n)
          /\ answers'[i] = answers[i] /\ latest'[i] = latest[i]
      BY <2>2, <3>1, AnswersInAfterMarks, AnswersOfMarks DEF S
    <3>3. i \in Answered(n)
      BY <1>6, <3>1 DEF Answered
    <3>4. PICK k \in DOMAIN answers[i] : AnswersIn(i, n) = {k}
      BY <1>6, <3>1, <3>3 DEF HistoryInv, OneAnswerEach
    <3>5. answers[i][k].result = latest[i]
      BY <3>1, <3>4 DEF HistoryInv, AnswersAreLatest
    <3>6. answers[i][k].result \in Results
      <4>1. answers[i] \in Seq(Answer)
        BY <3>1 DEF SessionInv, TypeOK
      <4>2. answers[i][k] \in Answer
        BY <3>4, <4>1, RangeOfList
      <4> QED
        BY <4>2 DEF Answer
    <3> QED
      BY <3>2, <3>4, <3>5, <3>6
  <2> QED
    BY <2>1, <2>2
<1>9. WrongIn(n)' =
        {i \in Range(round) : \E k \in AnswersIn(i, n)' : answers'[i][k].result = "wrong"}
  BY <1>6 DEF WrongIn
<1> QED
  BY <1>4, <1>5, <1>8, <1>9 DEF Results

LEMMA MarksKeepHistory ==
  ASSUME SessionInv, HistoryInv, NEW cmd \in GradingCommands, SubmitBatchMarks(cmd)
  PROVE  HistoryInv'
<1> DEFINE S == Range(MarkedItems(cmd.marks))
<1>1. /\ ReduceMarks(cmd.round, cmd.marks) /\ phase = "grading" /\ phase' # "none"
  BY MarksFrame DEF SubmitBatchMarks, ReduceMarks
<1>2. /\ roundNumber \in Nat \ {0} /\ roundNumber' \in {roundNumber, roundNumber + 1}
      /\ DOMAIN rounds = 1..roundNumber
      /\ DOMAIN rounds' = 1..roundNumber' /\ Len(rounds') = roundNumber'
  BY RoundsOfMarks
<1>3. S \subseteq Items
  BY AnswersOfMarks
<1> HIDE DEF S
<1>4. RoundsOfAnswers'
  <2>1. ASSUME NEW i \in Items, NEW k \in DOMAIN answers'[i]
        PROVE  answers'[i][k].round \in 1..roundNumber'
    <3>1. \A j \in DOMAIN answers[i] : answers[i][j].round \in 1..roundNumber
      BY DEF HistoryInv, RoundsOfAnswers
    <3>2. \/ answers'[i][k].round = roundNumber
          \/ k \in DOMAIN answers[i] /\ answers'[i][k].round = answers[i][k].round
      BY <2>1, AnswersOfMarks
    <3> QED
      BY <1>2, <3>1, <3>2
  <2> QED
    BY <1>1, <2>1 DEF RoundsOfAnswers
<1>5. OneAnswerEach'
  <2>1. ASSUME NEW i \in Items, NEW r \in 1..roundNumber'
        PROVE  /\ i \in Answered(r)' => \E k \in DOMAIN answers'[i] : AnswersIn(i, r)' = {k}
               /\ i \notin Answered(r)' => AnswersIn(i, r)' = {}
    <3>1. r > roundNumber => AnswersIn(i, r) = {}
      BY <1>2 DEF HistoryInv, RoundsOfAnswers, AnswersIn
    <3>2. r <= roundNumber =>
            /\ i \in Answered(r) => \E k \in DOMAIN answers[i] : AnswersIn(i, r) = {k}
            /\ i \notin Answered(r) => AnswersIn(i, r) = {}
      BY <1>2 DEF HistoryInv, OneAnswerEach
    <3>3. DOMAIN answers[i] \subseteq DOMAIN answers'[i]
      BY AnswersOfMarks
    <3>4. CASE i \in S /\ r = roundNumber
      <4>1. AnswersIn(i, r)' = {Len(answers[i]) + 1}
        BY <3>4, AnswersInAfterMarks DEF S
      <4>2. Len(answers[i]) + 1 \in DOMAIN answers'[i]
        BY <3>4, AnswersOfMarks DEF S
      <4>3. i \in Answered(r)'
        BY <3>4, AnsweredAfterMarks DEF S
      <4> QED
        BY <4>1, <4>2, <4>3
    <3>5. CASE ~(i \in S /\ r = roundNumber)
      <4>1. AnswersIn(i, r)' = AnswersIn(i, r)
        BY <3>5, AnswersInAfterMarks DEF S
      <4>2. r <= roundNumber => (i \in Answered(r)' <=> i \in Answered(r))
        BY <1>2, <3>5, AnsweredAfterMarks DEF S
      <4>3. r > roundNumber => i \notin Answered(r)'
        BY AnsweredAfterMarks
      <4> QED
        BY <1>2, <3>1, <3>2, <3>3, <4>1, <4>2, <4>3
    <3> QED
      BY <3>4, <3>5
  <2> QED
    BY <1>2, <2>1 DEF OneAnswerEach
<1>6. AnswersAreLatest'
  <2>1. ASSUME NEW i \in Range(marked'), NEW k \in AnswersIn(i, roundNumber)'
        PROVE  answers'[i][k].result = latest'[i]
    <3>1. roundNumber' = roundNumber /\ i \in Range(marked) \cup S
      BY RoundsOfMarks DEF S
    <3>2. PICK n : n = roundNumber
      OBVIOUS
    <3>3. k \in AnswersIn(i, n)'
      BY <3>1, <3>2 DEF AnswersIn
    <3>4. CASE i \in S
      BY <1>3, <3>2, <3>3, <3>4, AnswersInAfterMarks, AnswersOfMarks DEF S
    <3>5. CASE i \notin S
      <4>1. i \in Items /\ i \in Range(marked)
        BY <3>1, <3>5, RangeOfList DEF SessionInv, TypeOK, MachineTypeOK
      <4>2. answers'[i] = answers[i] /\ latest'[i] = latest[i]
        BY <3>5, <4>1, AnswersOfMarks DEF S
      <4>3. k \in AnswersIn(i, roundNumber)
        BY <3>2, <3>3, <4>2 DEF AnswersIn
      <4> QED
        BY <4>1, <4>2, <4>3 DEF HistoryInv, AnswersAreLatest
    <3> QED
      BY <3>4, <3>5
  <2> QED
    BY <2>1 DEF AnswersAreLatest
<1>7. RoundRows'
  <2>1. ASSUME NEW r \in 1..roundNumber'
        PROVE  rounds'[r].done <=> (r < roundNumber' \/ phase' = "completed")
    <3>1. \A q \in 1..roundNumber : q # roundNumber => rounds[q].done
      BY <1>2 DEF HistoryInv, RoundRows
    <3>2. r < roundNumber => rounds'[r].done
      BY <1>2, <3>1, RoundsOfMarks
    <3> QED
      BY <1>2, <3>2, RoundsOfMarks
  <2>2. /\ \A q \in 1..roundNumber : rounds'[q].items = rounds[q].items
        /\ rounds[roundNumber].items = round
        /\ \/ roundNumber' = roundNumber /\ round' = round
           \/ /\ roundNumber' = roundNumber + 1
              /\ rounds'[roundNumber + 1].items = round'
              /\ NextRound(cmd.marks)
    BY <1>2, RoundsOfMarks DEF HistoryInv, RoundRows
  <2>3. rounds'[roundNumber'].items = round'
    BY <1>2, <2>2
  <2>4. ASSUME NEW r \in 1..roundNumber', r > 1
        PROVE  /\ Range(rounds'[r].items) = WrongIn(r - 1)'
               /\ InOrderOf(rounds'[r].items, rounds'[r - 1].items)
    <3>1. PICK q \in Nat : q = r - 1
      BY <1>2, <2>4
    <3>2. CASE r <= roundNumber
      <4>1. /\ Range(rounds[r].items) = WrongIn(q)
            /\ InOrderOf(rounds[r].items, rounds[q].items)
        BY <1>2, <2>4, <3>1, <3>2 DEF HistoryInv, RoundRows
      <4>2. /\ q \in 1..roundNumber /\ r \in 1..roundNumber /\ q # roundNumber
            /\ rounds'[r].items = rounds[r].items /\ rounds'[q].items = rounds[q].items
        BY <1>2, <2>2, <2>4, <3>1, <3>2
      <4>3. Range(rounds[q].items) \subseteq Items
        BY <1>2, <4>2, ItemsOfRounds DEF SessionInv
      <4>4. \A i \in Items : /\ AnswersIn(i, q)' = AnswersIn(i, q)
                            /\ \A k \in AnswersIn(i, q) : answers'[i][k] = answers[i][k]
        BY <4>2, AnswersInAfterMarks
      <4>5. WrongIn(q)' = {i \in Range(rounds'[q].items) :
                             \E k \in AnswersIn(i, q)' : answers'[i][k].result = "wrong"}
        BY DEF WrongIn
      <4>6. WrongIn(q)' = WrongIn(q)
        BY <4>2, <4>3, <4>4, <4>5 DEF WrongIn
      <4> QED
        BY <3>1, <4>1, <4>2, <4>6
    <3>3. CASE r > roundNumber
      <4>1. r = roundNumber + 1 /\ q = roundNumber /\ NextRound(cmd.marks)
        BY <1>2, <2>2, <3>1, <3>3
      <4>2. /\ rounds'[r].items = round' /\ rounds'[q].items = round
        BY <1>2, <2>2, <4>1
      <4>3. Range(round') = WrongIn(q)' /\ InOrderOf(round', round)
        BY <4>1, NextRoundIsWhatWasWrong
      <4> QED
        BY <3>1, <4>2, <4>3
    <3> QED
      BY <1>2, <3>2, <3>3
  <2> QED
    BY <1>2, <2>1, <2>3, <2>4 DEF RoundRows
<1> QED
  BY <1>4, <1>5, <1>6, <1>7 DEF HistoryInv

LEMMA MarksKeepHeard ==
  ASSUME SessionInv, HistoryInv, HeardInv, NEW cmd \in GradingCommands, SubmitBatchMarks(cmd)
  PROVE  HeardInv'
<1> DEFINE S == Range(MarkedItems(cmd.marks))
<1>1. /\ ReduceMarks(cmd.round, cmd.marks) /\ phase = "grading" /\ MachineInv
      /\ cmd.marks \in Seq(Mark) /\ playbackEvents' = playbackEvents
  BY MarksFrame, InputsAssumption DEF SubmitBatchMarks, GradingCommands, SessionInv
<1>2. PlayedIsReported'
  <2>1. \/ roundNumber' = roundNumber /\ played' = played
        \/ played' = <<>>
    BY <1>1 DEF ReduceMarks, GoOnListening, Complete, NextRound
  <2>2. played' = <<>> => Range(played') = {}
    BY DEF Range
  <2> QED
    BY <1>1, <2>1, <2>2 DEF HeardInv, PlayedIsReported
<1>3. S \subseteq Range(played)
  <2>1. ASSUME NEW i \in S
        PROVE  i \in Due /\ (mode = "item_by_item" => i = round[Len(marked) + 1])
    <3>1. i \in Due
      BY <1>1, MarksAreDue
    <3>2. ASSUME mode = "item_by_item" PROVE i = round[Len(marked) + 1]
      <4>1. MarkedItems(cmd.marks) = <<round[Len(marked) + 1]>>
        BY <1>1, <3>2 DEF ReduceMarks, CoversWhatIsDue
      <4> QED
        BY <4>1, RangeOfSingle
    <3> QED
      BY <3>1, <3>2
  <2> QED
    BY <1>1, <2>1, PlayedWhatIsGraded
<1>4. ASSUME NEW i \in Items, NEW k \in DOMAIN answers'[i]
      PROVE  \E e \in playbackEvents : e.item = i /\ e.round = answers'[i][k].round
  <2>1. CASE k \in DOMAIN answers[i] /\ answers'[i][k] = answers[i][k]
    BY <2>1 DEF HeardInv, AnsweredAfterHeard
  <2>2. CASE i \in S /\ answers'[i][k].round = roundNumber
    BY <1>3, <2>2 DEF HeardInv, PlayedIsReported
  <2> QED
    BY <1>4, <2>1, <2>2, AnswersOfMarks
<1> QED
  BY <1>1, <1>2, <1>4 DEF HeardInv, AnsweredAfterHeard

\* The history of the session is in order after every transaction.
LEMMA HistoryHolds == Spec => [](HistoryInv /\ HeardInv)
<1>1. Init => HistoryInv /\ HeardInv
  BY HistoryInit
<1>2. SessionInv /\ HistoryInv /\ HeardInv /\ [Next]_vars => HistoryInv' /\ HeardInv'
  <2> SUFFICES ASSUME SessionInv, HistoryInv, HeardInv, [Next]_vars
               PROVE  HistoryInv' /\ HeardInv'
    OBVIOUS
  <2>1. CASE StartSession
    BY <2>1, StartKeepsHistory
  <2>2. CASE \E cmd \in PlaybackCommands : RecordPlayback(cmd)
    BY <2>2, PlaybackKeepsHistory
  <2>3. CASE \E cmd \in GradingCommands : SubmitBatchMarks(cmd)
    BY <2>3, MarksKeepHistory, MarksKeepHeard
  <2>4. CASE Management
    BY <2>4, ManagementLeavesWork, HistoryUntouched
  <2>5. CASE UNCHANGED vars
    BY <2>5, HistoryUntouched DEF vars, recordVars, sessionVars, reviewVars
  <2> QED
    BY <2>1, <2>2, <2>3, <2>4, <2>5, NextByGroup
<1> QED
  BY <1>1, <1>2, SessionInvHolds, PTL DEF Spec

\* The rows of rounds and answers tell one story of the session: each round that
\* asked and marked an item has one answer of it, and the next round asks exactly
\* what was answered wrong, in the same order.
THEOREM RoundHistoryHolds == Spec => []RoundHistory
<1>1. SessionInv /\ HistoryInv => RoundHistory
  BY AnsweredOnce DEF SessionInv
<1> QED
  BY <1>1, SessionInvHolds, HistoryHolds, PTL

\* No answer counts for an item that was not reported as played in its round.
THEOREM AnswersComeAfterListening == Spec => []AnsweredAfterHeard
<1>1. HeardInv => AnsweredAfterHeard
  BY DEF HeardInv
<1> QED
  BY <1>1, HistoryHolds, PTL

=============================================================================
