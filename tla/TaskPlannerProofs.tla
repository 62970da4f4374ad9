--------------------------- MODULE TaskPlannerProofs ---------------------------
(***************************************************************************)
(* Proofs about TaskPlanner: however many builds, marks and cancellations  *)
(* meet, a card is handed out in one task at a time and as what it still   *)
(* is, and a batch is built once.  TaskPlanner implements CardsInHand.     *)
(***************************************************************************)
EXTENDS TaskPlanner, FiniteSetTheorems, TLAPS

-----------------------------------------------------------------------------
(***************************************************************************)
(* The inductive invariant.                                                *)
(***************************************************************************)

\* The rows of tasks and cards.
RowsFit ==
  /\ DOMAIN memory = Cards
  /\ DOMAIN tasks = Keys
  /\ \A key \in Keys : /\ DOMAIN tasks[key] = {"status", "kinds"}
                       /\ CardsOf(key) \subseteq Cards

Steps  == {"idle", "created", "active", "due", "lists", "parts"}
Plans  == {"created", "active", "due"}
Fields == {"step", "command", "part", "wanted", "reviews", "active", "due", "made",
           "sections", "extra", "lists", "taken"}

\* The child's row is locked: one build runs at a time.
OneBuild ==
  /\ DOMAIN tx = Requests
  /\ \A r, q \in Requests : tx[r] # Idle /\ tx[q] # Idle => r = q

\* The cards in the parts a build t has made.
MadeBy(t) == UNION {DOMAIN t.made[p] : p \in Parts}

IsBatch(t) == t.step = "lists" \/ t.lists # 0

\* What a build knows at each of its steps, whatever happens around it.  A daily
\* task has one part and reads no lists; a batch takes no due cards, and works
\* through its sections, whose cards are in no part yet.
PlanFits(t) ==
  /\ DOMAIN t = Fields /\ DOMAIN t.made = Parts
  /\ t.step \in Steps
  /\ t.step = "idle" => t = Idle
  /\ t.step # "idle" => t.command \in Commands
  /\ t.step = "lists" => t.lists \in {0, 1}
  /\ t.step # "lists" => t.lists \in {0, 2}
  /\ t.step \in Plans => t.part \in (IF IsBatch(t) THEN BatchParts ELSE {"daily"})
  /\ t.step \notin Plans => t.part = "none"
  /\ t.wanted \subseteq Cards /\ t.due \subseteq Cards /\ t.extra \subseteq Cards
  /\ t.sections \subseteq Sections
  /\ MadeBy(t) \subseteq Cards
  /\ ~IsBatch(t) => /\ t.sections = {} /\ t.extra = {}
                    /\ \A p \in BatchParts : t.made[p] = <<>>
  /\ IsBatch(t) => t.reviews = 0 /\ t.due = {}
  /\ \A c \in MadeBy(t) : SectionOf[c] \notin t.sections
  /\ \A p, q \in Parts : DOMAIN t.made[p] \cap DOMAIN t.made[q] # {} => p = q
  /\ t.part = "extra" => t.sections = {}
  /\ t.part \in Sections => /\ t.part \notin t.sections
                            /\ \A c \in t.wanted : SectionOf[c] = t.part
                            /\ t.wanted \cap (t.taken \cup MadeBy(t)) = {}

\* What it has read still holds: of the cards it counts on none is in an active
\* task, so none of them is marked meanwhile.
ReadingsStand(t) ==
  /\ MadeBy(t) \cap ActiveCards = {}
  /\ \A p \in Parts : \A c \in DOMAIN t.made[p] : Accepts(t.made[p][c], memory[c])
  /\ t.step \in {"active", "due"} => ActiveCards \cup MadeBy(t) \subseteq t.active
  /\ \A c \in t.due : t.step = "due" => memory[c] = "due" /\ c \notin t.active
  /\ t.lists # 0 => ActiveCards \subseteq t.taken
  /\ t.lists = 2 => StartedCards \subseteq t.taken
  /\ IsBatch(t) => \A p \in BatchParts : tasks[<<t.command, p>>] = NoTask

BuildsFit == \A t \in {tx[r] : r \in Requests} : PlanFits(t) /\ ReadingsStand(t)

IInv == RowsFit /\ OneBuild /\ BuildsFit /\ CardInOneTask /\ KindsFit

-----------------------------------------------------------------------------
(***************************************************************************)
(* What every kind of step comes down to.                                  *)
(***************************************************************************)

LEMMA IdleFits ==
  PlanFits(Idle) /\ ReadingsStand(Idle) /\ ReadingsStand(Idle)'
<1>1. /\ DOMAIN Idle = Fields /\ DOMAIN Idle.made = Parts
      /\ Idle.step = "idle" /\ Idle.part = "none" /\ Idle.lists = 0
      /\ Idle.wanted = {} /\ Idle.due = {} /\ Idle.extra = {} /\ Idle.sections = {}
      /\ \A p \in Parts : Idle.made[p] = <<>> /\ DOMAIN Idle.made[p] = {}
  BY DEF Idle, Fields
<1>2. BatchParts \subseteq Parts /\ "none" \notin Sections
  BY PlannerAssumption DEF Parts, BatchParts
<1>3. MadeBy(Idle) = {}
  BY <1>1 DEF MadeBy
<1>4. ~IsBatch(Idle)
  BY <1>1 DEF IsBatch
<1> HIDE DEF Idle
<1>5. PlanFits(Idle)
  BY <1>1, <1>2, <1>3, <1>4 DEF PlanFits, Steps, Plans
<1>6. ReadingsStand(Idle)
  BY <1>1, <1>3, <1>4 DEF ReadingsStand
<1>7. ReadingsStand(Idle)'
  BY <1>1, <1>3, <1>4 DEF ReadingsStand
<1> QED
  BY <1>5, <1>6, <1>7

\* A step that changes no row: what is said about them stays true.
LEMMA RowsStay ==
  ASSUME UNCHANGED <<memory, tasks>>
  PROVE  /\ ActiveKeys' = ActiveKeys /\ ActiveCards' = ActiveCards
         /\ StartedCards' = StartedCards
         /\ RowsFit => RowsFit'
         /\ CardInOneTask => CardInOneTask'
         /\ KindsFit => KindsFit'
         /\ \A t : ReadingsStand(t) => ReadingsStand(t)'
<1>1. /\ ActiveKeys' = ActiveKeys /\ ActiveCards' = ActiveCards
      /\ StartedCards' = StartedCards
      /\ \A key : CardsOf(key)' = CardsOf(key)
  BY DEF ActiveKeys, ActiveCards, StartedCards, CardsOf
<1>2. RowsFit => RowsFit'
  BY <1>1 DEF RowsFit
<1>3. CardInOneTask => CardInOneTask'
  BY <1>1 DEF CardInOneTask
<1>4. KindsFit => KindsFit'
  BY <1>1 DEF KindsFit
<1>5. ASSUME NEW t, ReadingsStand(t) PROVE ReadingsStand(t)'
  BY <1>1, <1>5 DEF ReadingsStand
<1> QED
  BY <1>1, <1>2, <1>3, <1>4, <1>5

\* A build takes its next step: it is enough that its new state fits.
LEMMA BuildGoesOn ==
  ASSUME IInv, NEW r \in Requests, tx[r] # Idle \/ ChildIsFree,
         NEW s, PlanFits(s), ReadingsStand(s), GoOn(r, s)
  PROVE  IInv'
<1>1. /\ DOMAIN tx' = Requests /\ tx'[r] = s
      /\ \A q \in Requests : q # r => tx'[q] = tx[q] /\ tx[q] = Idle
      /\ UNCHANGED <<memory, tasks>>
  BY DEF IInv, OneBuild, GoOn, ChildIsFree
<1>2. RowsFit' /\ CardInOneTask' /\ KindsFit'
  BY <1>1, RowsStay DEF IInv
<1>3. OneBuild'
  BY <1>1 DEF OneBuild
<1>4. ReadingsStand(s)'
  BY <1>1, RowsStay
<1>5. BuildsFit'
  <2>1. ASSUME NEW t \in {tx'[q] : q \in Requests} PROVE PlanFits(t) /\ ReadingsStand(t)'
    <3>1. t = s \/ t = Idle
      BY <1>1
    <3> QED
      BY <1>4, <3>1, IdleFits
  <2> QED
    BY <2>1 DEF BuildsFit
<1> QED
  BY <1>2, <1>3, <1>5 DEF IInv

\* A step around the builds: no card comes into an active task, only cards of
\* active tasks are marked, and no task appears.
Around ==
  /\ tx' = tx
  /\ ActiveCards' \subseteq ActiveCards
  /\ \A c \in Cards : memory'[c] = memory[c] \/ c \in ActiveCards
                      \/ (memory[c] = "later" /\ memory'[c] = "due")
  /\ \A key \in Keys : tasks[key] = NoTask => tasks'[key] = NoTask

LEMMA BuildsStand ==
  ASSUME IInv, Around
  PROVE  OneBuild' /\ BuildsFit'
<1>1. OneBuild'
  BY DEF IInv, OneBuild, Around
<1>2. StartedCards' \subseteq StartedCards \cup ActiveCards
  BY DEF Around, StartedCards
<1>3. ASSUME NEW t, PlanFits(t), ReadingsStand(t) PROVE ReadingsStand(t)'
  <2>1. MadeBy(t) \cap ActiveCards' = {}
    BY <1>3 DEF Around, ReadingsStand
  <2>2. ASSUME NEW p \in Parts, NEW c \in DOMAIN t.made[p]
        PROVE  Accepts(t.made[p][c], memory'[c])
    <3>1. c \in MadeBy(t)
      BY DEF MadeBy
    <3>2. c \in Cards /\ c \notin ActiveCards /\ Accepts(t.made[p][c], memory[c])
      BY <1>3, <3>1 DEF PlanFits, ReadingsStand
    <3>3. memory'[c] = memory[c] \/ (memory[c] = "later" /\ memory'[c] = "due")
      BY <3>2 DEF Around
    <3> QED
      BY <3>2, <3>3 DEF Accepts
  <2>3. t.step \in {"active", "due"} => ActiveCards' \cup MadeBy(t) \subseteq t.active
    BY <1>3 DEF Around, ReadingsStand
  <2>4. ASSUME NEW c \in t.due, t.step = "due"
        PROVE  memory'[c] = "due" /\ c \notin t.active
    <3>1. c \in Cards /\ memory[c] = "due" /\ c \notin t.active /\ ActiveCards \subseteq t.active
      BY <1>3, <2>4 DEF PlanFits, ReadingsStand
    <3> QED
      BY <3>1 DEF Around
  <2>5. /\ t.lists # 0 => ActiveCards' \subseteq t.taken
        /\ t.lists = 2 => StartedCards' \subseteq t.taken
    BY <1>2, <1>3 DEF Around, ReadingsStand
  <2>6. ASSUME IsBatch(t), NEW p \in BatchParts PROVE tasks'[<<t.command, p>>] = NoTask
    <3>1. t.step # "idle"
      BY <2>6, IdleFits, <1>3 DEF PlanFits, IsBatch, Idle
    <3>2. <<t.command, p>> \in Keys
      BY <1>3, <3>1 DEF PlanFits, Keys, Parts
    <3> QED
      BY <1>3, <2>6, <3>2 DEF Around, ReadingsStand
  <2> QED
    BY <2>1, <2>2, <2>3, <2>4, <2>5, <2>6 DEF ReadingsStand
<1>4. BuildsFit'
  BY <1>3 DEF IInv, BuildsFit, Around
<1> QED
  BY <1>1, <1>4

\* Tasks that only lose cards, or end, stay apart.
LEMMA TasksStayApart ==
  ASSUME CardInOneTask,
         \A key \in Keys : key \in ActiveKeys' =>
           key \in ActiveKeys /\ CardsOf(key)' \subseteq CardsOf(key)
  PROVE  CardInOneTask' /\ ActiveCards' \subseteq ActiveCards
<1>1. ActiveKeys' \subseteq Keys
  BY DEF ActiveKeys
<1>2. CardInOneTask'
  <2> SUFFICES ASSUME NEW key \in ActiveKeys', NEW other \in ActiveKeys',
                      CardsOf(key)' \cap CardsOf(other)' # {}
               PROVE  key = other
    BY DEF CardInOneTask
  <2>1. CardsOf(key) \cap CardsOf(other) # {} /\ key \in ActiveKeys /\ other \in ActiveKeys
    BY <1>1
  <2> QED
    BY <2>1 DEF CardInOneTask
<1>3. ActiveCards' \subseteq ActiveCards
  <2> SUFFICES ASSUME NEW key \in ActiveKeys', NEW c \in CardsOf(key)'
               PROVE  c \in ActiveCards
    BY DEF ActiveCards
  <2>1. key \in ActiveKeys /\ c \in CardsOf(key)
    BY <1>1
  <2> QED
    BY <2>1 DEF ActiveCards
<1> QED
  BY <1>2, <1>3

-----------------------------------------------------------------------------
(***************************************************************************)
(* What happens to tasks and cards around the builds.                      *)
(***************************************************************************)

LEMMA MarkFirstKeeps ==
  ASSUME IInv, NEW key \in Keys, NEW c \in Cards, MarkFirst(key, c)
  PROVE  IInv' /\ Around
<1>1. /\ tasks' = [tasks EXCEPT ![key].kinds[c] = "marked"]
      /\ memory' = [memory EXCEPT ![c] = "later"] /\ tx' = tx
      /\ key \in ActiveKeys /\ c \in CardsOf(key) /\ tasks[key].status = "active"
  BY DEF MarkFirst, ActiveKeys
<1>2. /\ DOMAIN tasks' = Keys /\ DOMAIN memory' = Cards
      /\ \A k \in Keys : k # key => tasks'[k] = tasks[k]
      /\ DOMAIN tasks'[key] = {"status", "kinds"} /\ tasks'[key].status = tasks[key].status
      /\ CardsOf(key)' = CardsOf(key) /\ tasks'[key].kinds[c] = "marked"
      /\ \A d \in CardsOf(key) : d # c => tasks'[key].kinds[d] = tasks[key].kinds[d]
      /\ memory'[c] = "later" /\ \A d \in Cards : d # c => memory'[d] = memory[d]
  BY <1>1 DEF IInv, RowsFit, CardsOf
<1>3. /\ \A k \in Keys : CardsOf(k)' = CardsOf(k)
      /\ ActiveKeys' = ActiveKeys
  BY <1>2 DEF CardsOf, ActiveKeys
<1>4. RowsFit'
  BY <1>2, <1>3 DEF IInv, RowsFit
<1>5. CardInOneTask' /\ ActiveCards' \subseteq ActiveCards
  BY <1>3, TasksStayApart DEF IInv
<1>6. c \in ActiveCards
  BY <1>1 DEF ActiveCards
<1>7. Around
  <2>1. \A k \in Keys : tasks[k] = NoTask => tasks'[k] = NoTask
    BY <1>1, <1>2 DEF NoTask
  <2> QED
    BY <1>1, <1>2, <1>5, <1>6, <2>1 DEF Around
<1>8. KindsFit'
  <2> SUFFICES ASSUME NEW k \in ActiveKeys, NEW d \in CardsOf(k),
                      tasks'[k].kinds[d] # "marked"
               PROVE  Accepts(tasks'[k].kinds[d], memory'[d])
    BY <1>3 DEF KindsFit, ActiveKeys
  <2>1. d # c
    BY <1>1, <1>2 DEF IInv, CardInOneTask
  <2>2. k \in Keys /\ d \in Cards
    BY DEF ActiveKeys, IInv, RowsFit
  <2>3. memory'[d] = memory[d] /\ tasks'[k].kinds[d] = tasks[k].kinds[d]
    BY <1>2, <2>1, <2>2
  <2> QED
    BY <2>3 DEF IInv, KindsFit
<1> QED
  BY <1>4, <1>5, <1>7, <1>8, BuildsStand DEF IInv

LEMMA BecomeDueKeeps ==
  ASSUME IInv, NEW c \in Cards, BecomeDue(c)
  PROVE  IInv' /\ Around
<1>1. /\ memory[c] = "later" /\ memory'[c] = "due" /\ DOMAIN memory' = Cards
      /\ \A d \in Cards : d # c => memory'[d] = memory[d]
      /\ tasks' = tasks /\ tx' = tx
  BY DEF BecomeDue, IInv, RowsFit
<1>2. /\ ActiveKeys' = ActiveKeys /\ ActiveCards' = ActiveCards
      /\ \A key : CardsOf(key)' = CardsOf(key)
  BY <1>1 DEF ActiveKeys, ActiveCards, CardsOf
<1>3. RowsFit' /\ CardInOneTask'
  BY <1>1, <1>2 DEF IInv, RowsFit, CardInOneTask
<1>4. Around
  BY <1>1, <1>2 DEF Around
<1>5. KindsFit'
  <2> SUFFICES ASSUME NEW k \in ActiveKeys, NEW d \in CardsOf(k),
                      tasks[k].kinds[d] # "marked"
               PROVE  Accepts(tasks[k].kinds[d], memory'[d])
    BY <1>1, <1>2 DEF KindsFit
  <2>1. Accepts(tasks[k].kinds[d], memory[d]) /\ d \in Cards
    BY DEF IInv, KindsFit, RowsFit, ActiveKeys
  <2> QED
    BY <1>1, <2>1 DEF Accepts
<1> QED
  BY <1>3, <1>4, <1>5, BuildsStand DEF IInv

\* Of one task the row changes: it ends, or keeps a part of its cards as they are.
LEMMA ShrinkingKeeps ==
  ASSUME IInv, NEW key \in ActiveKeys, NEW row,
         tasks' = [tasks EXCEPT ![key] = row], UNCHANGED <<memory, tx>>,
         DOMAIN row = {"status", "kinds"},
         DOMAIN row.kinds \subseteq CardsOf(key),
         \A c \in DOMAIN row.kinds : row.kinds[c] = tasks[key].kinds[c]
  PROVE  IInv' /\ Around
<1>1. /\ key \in Keys /\ tasks[key].status = "active"
      /\ DOMAIN tasks' = Keys /\ tasks'[key] = row
      /\ \A k \in Keys : k # key => tasks'[k] = tasks[k]
  BY DEF ActiveKeys, IInv, RowsFit
<1>2. \A k \in Keys : /\ CardsOf(k)' \subseteq CardsOf(k)
                      /\ k \in ActiveKeys' => k \in ActiveKeys
                      /\ \A c \in CardsOf(k)' : tasks'[k].kinds[c] = tasks[k].kinds[c]
  BY <1>1 DEF CardsOf, ActiveKeys
<1>3. RowsFit'
  BY <1>1, <1>2 DEF IInv, RowsFit
<1>4. CardInOneTask' /\ ActiveCards' \subseteq ActiveCards
  BY <1>2, TasksStayApart DEF IInv
<1>5. Around
  <2>1. \A k \in Keys : tasks[k] = NoTask => tasks'[k] = NoTask
    BY <1>1 DEF NoTask
  <2> QED
    BY <1>4, <2>1 DEF Around
<1>6. KindsFit'
  <2> SUFFICES ASSUME NEW k \in ActiveKeys', NEW c \in CardsOf(k)',
                      tasks'[k].kinds[c] # "marked"
               PROVE  Accepts(tasks'[k].kinds[c], memory'[c])
    BY DEF KindsFit
  <2>1. k \in Keys
    BY DEF ActiveKeys
  <2> QED
    BY <1>2, <2>1 DEF IInv, KindsFit
<1> QED
  BY <1>3, <1>4, <1>5, <1>6, BuildsStand DEF IInv

LEMMA EndingKeeps ==
  ASSUME IInv, NEW key \in Keys, Complete(key) \/ CancelTask(key)
  PROVE  IInv' /\ Around
<1>1. /\ key \in ActiveKeys /\ UNCHANGED <<memory, tx>>
      /\ tasks' = [tasks EXCEPT ![key] = Over]
  BY DEF Complete, CancelTask
<1>2. DOMAIN Over = {"status", "kinds"} /\ DOMAIN Over.kinds = {}
  BY DEF Over
<1> QED
  BY <1>1, <1>2, ShrinkingKeeps

LEMMA RemovalKeeps ==
  ASSUME IInv, NEW key \in Keys, NEW c \in Cards, RemoveUnstartedTaskItem(key, c)
  PROVE  IInv' /\ Around
<1> DEFINE rest == CardsOf(key) \ {c}
           less == [status |-> "active", kinds |-> Restrict(tasks[key].kinds, rest)]
           row  == IF rest = {} THEN Over ELSE less
<1>1. key \in ActiveKeys /\ UNCHANGED <<memory, tx>>
  BY DEF RemoveUnstartedTaskItem
<1>2. tasks' = [tasks EXCEPT ![key] = row]
  <2>1. CASE rest = {}
    BY <2>1 DEF RemoveUnstartedTaskItem
  <2>2. CASE rest # {}
    BY <2>2 DEF RemoveUnstartedTaskItem
  <2> QED
    BY <2>1, <2>2
<1>3. DOMAIN Over = {"status", "kinds"} /\ DOMAIN Over.kinds = {}
  BY DEF Over
<1>4. DOMAIN less = {"status", "kinds"} /\ less.kinds = Restrict(tasks[key].kinds, rest)
  OBVIOUS
<1>5. /\ DOMAIN less.kinds = rest
      /\ \A d \in rest : less.kinds[d] = tasks[key].kinds[d]
  BY <1>4 DEF Restrict
<1> HIDE DEF less
<1>6. /\ DOMAIN row = {"status", "kinds"}
      /\ DOMAIN row.kinds \subseteq CardsOf(key)
      /\ \A d \in DOMAIN row.kinds : row.kinds[d] = tasks[key].kinds[d]
  BY <1>3, <1>4, <1>5
<1> HIDE DEF row
<1> QED
  BY <1>1, <1>2, <1>6, ShrinkingKeeps

-----------------------------------------------------------------------------
(***************************************************************************)
(* The build of a task.                                                    *)
(***************************************************************************)

\* A build that runs: what is said about its state, with the fields it has.
LEMMA Running ==
  ASSUME IInv, NEW r \in Requests
  PROVE  /\ PlanFits(tx[r]) /\ ReadingsStand(tx[r])
         /\ tx[r].step # "idle" => tx[r] # Idle
         /\ DOMAIN tx[r] = Fields
<1>1. PlanFits(tx[r]) /\ ReadingsStand(tx[r])
  BY DEF IInv, BuildsFit
<1>2. Idle.step = "idle"
  BY DEF Idle
<1> QED
  BY <1>1, <1>2 DEF PlanFits

LEMMA ReadActiveKeeps ==
  ASSUME IInv, NEW r \in Requests, ReadActive(r)
  PROVE  IInv'
<1> DEFINE t == tx[r]
           s == [t EXCEPT !.step = "active", !.active = ActiveCards \cup CardsMade(r)]
<1>1. /\ t.step = "created" /\ GoOn(r, s)
      /\ PlanFits(t) /\ ReadingsStand(t) /\ t # Idle /\ DOMAIN t = Fields
  BY Running DEF ReadActive
<1>2. CardsMade(r) = MadeBy(t)
  BY DEF CardsMade, MadeBy
<1> HIDE DEF t
<1>3. /\ DOMAIN s = Fields /\ s.step = "active" /\ s.active = ActiveCards \cup CardsMade(r)
      /\ s.command = t.command /\ s.part = t.part /\ s.wanted = t.wanted
      /\ s.reviews = t.reviews /\ s.due = t.due /\ s.made = t.made
      /\ s.sections = t.sections /\ s.extra = t.extra /\ s.lists = t.lists
      /\ s.taken = t.taken
  BY <1>1 DEF Fields
<1> HIDE DEF s
<1>4. MadeBy(s) = MadeBy(t) /\ (IsBatch(s) <=> IsBatch(t))
  BY <1>1, <1>3 DEF MadeBy, IsBatch
<1>5. PlanFits(s)
  BY <1>1, <1>3, <1>4 DEF PlanFits, Steps, Plans
<1>6. ReadingsStand(s)
  BY <1>1, <1>2, <1>3, <1>4 DEF ReadingsStand
<1> QED
  BY <1>1, <1>5, <1>6, BuildGoesOn DEF t

LEMMA ReadDueKeeps ==
  ASSUME IInv, NEW r \in Requests, ReadDue(r)
  PROVE  IInv'
<1> DEFINE t == tx[r]
           due == {c \in Cards : memory[c] = "due"} \ t.active
<1>1. /\ t.step = "active"
      /\ PlanFits(t) /\ ReadingsStand(t) /\ t # Idle /\ DOMAIN t = Fields
  BY Running DEF ReadDue
<1>2. PICK chosen \in SUBSET due :
        /\ Cardinality(chosen) = t.reviews \/ (chosen = due /\ Cardinality(due) <= t.reviews)
        /\ GoOn(r, [t EXCEPT !.step = "due", !.due = chosen])
  BY DEF ReadDue
<1> DEFINE s == [t EXCEPT !.step = "due", !.due = chosen]
<1>3. t.reviews = 0 => chosen = {}
  <2>1. IsFiniteSet(due) /\ IsFiniteSet(chosen)
    BY PlannerAssumption, FS_Subset
  <2>2. Cardinality(due) \in Nat
    BY <2>1, FS_CardinalityType
  <2> HIDE DEF due
  <2>3. t.reviews = 0 => Cardinality(chosen) = 0
    BY <1>2, <2>2
  <2> QED
    BY <2>1, <2>3, FS_EmptySet
<1>4. \A c \in chosen : c \in Cards /\ memory[c] = "due" /\ c \notin t.active
  OBVIOUS
<1> HIDE DEF t, due
<1>5. /\ DOMAIN s = Fields /\ s.step = "due" /\ s.due = chosen
      /\ s.command = t.command /\ s.part = t.part /\ s.wanted = t.wanted
      /\ s.reviews = t.reviews /\ s.active = t.active /\ s.made = t.made
      /\ s.sections = t.sections /\ s.extra = t.extra /\ s.lists = t.lists
      /\ s.taken = t.taken
  BY <1>1 DEF Fields
<1> HIDE DEF s
<1>6. MadeBy(s) = MadeBy(t) /\ (IsBatch(s) <=> IsBatch(t))
  BY <1>1, <1>5 DEF MadeBy, IsBatch
<1>7. PlanFits(s)
  BY <1>1, <1>3, <1>4, <1>5, <1>6 DEF PlanFits, Steps, Plans
<1>8. ReadingsStand(s)
  BY <1>1, <1>4, <1>5, <1>6 DEF ReadingsStand
<1> QED
  BY <1>1, <1>2, <1>7, <1>8, BuildGoesOn DEF t, s

LEMMA PlanItemsKeeps ==
  ASSUME IInv, NEW r \in Requests, PlanItems(r)
  PROVE  IInv'
<1> DEFINE t == tx[r]
           s == [t EXCEPT !.step = "parts", !.part = "none", !.wanted = {}, !.active = {},
                          !.due = {}, !.made[t.part] = Planned(r)]
<1>1. /\ t.step = "due"
      /\ PlanFits(t) /\ ReadingsStand(t) /\ t # Idle /\ DOMAIN t = Fields
  BY Running DEF PlanItems
<1>2. CASE IsRefused(r) /\ Refuse(r)
  BY <1>1, <1>2, IdleFits, BuildGoesOn DEF Refuse
<1>3. CASE GoOn(r, s)
  <2> DEFINE planned == Planned(r)
  <2>1. /\ DOMAIN planned = t.due \cup (t.wanted \ t.active)
        /\ \A c \in DOMAIN planned : planned[c] = KindOf(r, c)
    BY DEF Planned, Selected
  <2>2. /\ t.part \in Parts
        /\ t.part \in Sections \/ t.part = "extra" \/ t.part = "daily"
        /\ "daily" \notin BatchParts /\ "none" \notin Sections
        /\ ~IsBatch(t) => t.part = "daily"
        /\ IsBatch(t) => t.part \in BatchParts
    BY <1>1, PlannerAssumption DEF PlanFits, Plans, Parts, BatchParts
  <2>3. \A c \in DOMAIN planned : Accepts(planned[c], memory[c])
    <3> SUFFICES ASSUME NEW c \in DOMAIN planned PROVE Accepts(KindOf(r, c), memory[c])
      BY <2>1
    <3>1. CASE c \in t.due
      BY <1>1, <3>1 DEF KindOf, Accepts, ReadingsStand
    <3>2. CASE c \notin t.due
      <4>1. c \in Cards
        BY <1>1, <2>1, <3>2 DEF PlanFits
      <4> QED
        BY <3>2, <4>1 DEF KindOf, Accepts, StartedCards
    <3> QED
      BY <3>1, <3>2
  <2>4. /\ \A c \in DOMAIN planned : c \in Cards /\ c \notin t.active
        /\ ActiveCards \cup MadeBy(t) \subseteq t.active
    BY <1>1, <2>1 DEF PlanFits, ReadingsStand
  <2>5. t.part \in Sections => \A c \in DOMAIN planned : SectionOf[c] = t.part
    <3> SUFFICES ASSUME t.part \in Sections PROVE t.due = {}
      BY <1>1, <2>1 DEF PlanFits
    <3>1. IsBatch(t)
      BY <1>1, PlannerAssumption DEF PlanFits, Plans
    <3> QED
      BY <1>1, <3>1 DEF PlanFits
  <2> HIDE DEF t, planned
  <2>6. /\ DOMAIN s = Fields /\ s.step = "parts" /\ s.part = "none" /\ s.wanted = {}
        /\ s.due = {} /\ s.command = t.command /\ s.reviews = t.reviews
        /\ s.made = [t.made EXCEPT ![t.part] = planned]
        /\ s.sections = t.sections /\ s.extra = t.extra /\ s.lists = t.lists
        /\ s.taken = t.taken
    BY <1>1 DEF Fields, planned
  <2> HIDE DEF s
  <2>7. /\ DOMAIN s.made = Parts /\ s.made[t.part] = planned
        /\ \A p \in Parts : p # t.part => s.made[p] = t.made[p]
    BY <1>1, <2>2, <2>6 DEF PlanFits
  <2>8. MadeBy(s) \subseteq MadeBy(t) \cup DOMAIN planned
    BY <2>2, <2>7 DEF MadeBy
  <2>9. IsBatch(s) <=> IsBatch(t)
    BY <1>1, <2>6 DEF PlanFits, IsBatch
  <2>10. PlanFits(s)
    <3>1. /\ s.step \in Steps /\ s.step # "idle" /\ s.step # "lists" /\ s.step \notin Plans
          /\ s.command \in Commands /\ s.lists \in {0, 2} /\ s.part = "none"
          /\ s.part \notin Sections
      BY <1>1, <2>2, <2>6 DEF PlanFits, Steps, Plans
    <3>2. MadeBy(s) \subseteq Cards
      BY <1>1, <2>4, <2>8 DEF PlanFits
    <3>3. s.wanted \subseteq Cards /\ s.due \subseteq Cards /\ s.extra \subseteq Cards
          /\ s.sections \subseteq Sections
      BY <1>1, <2>6 DEF PlanFits
    <3>4. ~IsBatch(s) => /\ s.sections = {} /\ s.extra = {}
                         /\ \A p \in BatchParts : s.made[p] = <<>>
      <4>1. BatchParts \subseteq Parts
        BY DEF Parts
      <4> QED
        BY <1>1, <2>2, <2>6, <2>7, <2>9, <4>1 DEF PlanFits
    <3>5. IsBatch(s) => s.reviews = 0 /\ s.due = {}
      BY <1>1, <2>6, <2>9 DEF PlanFits
    <3>6. \A c \in MadeBy(s) : SectionOf[c] \notin s.sections
      <4> SUFFICES ASSUME NEW c \in MadeBy(s) PROVE SectionOf[c] \notin t.sections
        BY <2>6
      <4>1. CASE c \in MadeBy(t)
        BY <1>1, <4>1 DEF PlanFits
      <4>2. CASE c \in DOMAIN planned /\ t.part \in Sections
        BY <1>1, <2>5, <4>2 DEF PlanFits
      <4>3. CASE t.part = "daily"
        BY <1>1, <2>2, <4>3 DEF PlanFits
      <4>4. CASE t.part = "extra"
        BY <1>1, <4>4 DEF PlanFits
      <4> QED
        BY <2>2, <2>8, <4>1, <4>2, <4>3, <4>4
    <3>7. ASSUME NEW p \in Parts, NEW q \in Parts,
                 DOMAIN s.made[p] \cap DOMAIN s.made[q] # {}
          PROVE  p = q
      <4>1. \A o \in Parts : DOMAIN t.made[o] \cap DOMAIN planned = {}
        BY <2>4 DEF MadeBy
      <4>2. p # t.part /\ q # t.part => p = q
        BY <1>1, <2>7, <3>7 DEF PlanFits
      <4> QED
        BY <2>7, <3>7, <4>1, <4>2
    <3> QED
      BY <2>6, <2>7, <3>1, <3>2, <3>3, <3>4, <3>5, <3>6, <3>7 DEF PlanFits
  <2>11. ReadingsStand(s)
    <3>1. MadeBy(s) \cap ActiveCards = {}
      BY <1>1, <2>4, <2>8 DEF ReadingsStand
    <3>2. \A p \in Parts : \A c \in DOMAIN s.made[p] : Accepts(s.made[p][c], memory[c])
      BY <1>1, <2>3, <2>7 DEF ReadingsStand
    <3> QED
      BY <1>1, <2>6, <2>9, <3>1, <3>2 DEF ReadingsStand
  <2> QED
    BY <1>1, <1>3, <2>10, <2>11, BuildGoesOn DEF t
<1> QED
  BY <1>2, <1>3 DEF PlanItems

LEMMA BeginDailyKeeps ==
  ASSUME IInv, NEW r \in Requests, NEW k \in Commands, NEW cards \in SUBSET Cards,
         NEW reviews, BeginDaily(r, k, cards, reviews)
  PROVE  IInv'
<1> DEFINE s == [Idle EXCEPT !.step = "created", !.command = k, !.part = "daily",
                             !.wanted = cards, !.reviews = reviews]
<1>1. ChildIsFree /\ GoOn(r, s)
  BY DEF BeginDaily
<1>2. /\ DOMAIN s = Fields /\ DOMAIN s.made = Parts
      /\ s.step = "created" /\ s.command = k /\ s.part = "daily" /\ s.wanted = cards
      /\ s.lists = 0 /\ s.due = {} /\ s.extra = {} /\ s.sections = {}
      /\ \A p \in Parts : s.made[p] = <<>> /\ DOMAIN s.made[p] = {}
  BY DEF Idle, Fields
<1> HIDE DEF s
<1>3. BatchParts \subseteq Parts /\ "daily" \notin Sections
  BY PlannerAssumption DEF Parts, BatchParts
<1>4. MadeBy(s) = {} /\ ~IsBatch(s)
  BY <1>2 DEF MadeBy, IsBatch
<1>5. PlanFits(s)
  BY <1>2, <1>3, <1>4 DEF PlanFits, Steps, Plans
<1>6. ReadingsStand(s)
  BY <1>2, <1>4 DEF ReadingsStand
<1> QED
  BY <1>1, <1>5, <1>6, BuildGoesOn

-----------------------------------------------------------------------------
(***************************************************************************)
(* The build of a batch.                                                   *)
(***************************************************************************)

LEMMA BeginBatchKeeps ==
  ASSUME IInv, NEW r \in Requests, NEW k \in Commands, NEW sections \in SUBSET Sections,
         NEW extra \in SUBSET Cards, BeginBatch(r, k, sections, extra)
  PROVE  IInv'
<1> DEFINE s == [Idle EXCEPT !.step = "lists", !.command = k,
                             !.sections = sections, !.extra = extra]
<1>1. ChildIsFree /\ GoOn(r, s) /\ \A p \in BatchParts : tasks[<<k, p>>] = NoTask
  BY DEF BeginBatch, IsNewBatch
<1>2. /\ DOMAIN s = Fields /\ DOMAIN s.made = Parts
      /\ s.step = "lists" /\ s.command = k /\ s.part = "none" /\ s.wanted = {}
      /\ s.lists = 0 /\ s.due = {} /\ s.extra = extra /\ s.sections = sections
      /\ s.reviews = 0
      /\ \A p \in Parts : s.made[p] = <<>> /\ DOMAIN s.made[p] = {}
  BY DEF Idle, Fields
<1> HIDE DEF s
<1>3. BatchParts \subseteq Parts /\ "none" \notin Sections
  BY PlannerAssumption DEF Parts, BatchParts
<1>4. MadeBy(s) = {} /\ IsBatch(s)
  BY <1>2 DEF MadeBy, IsBatch
<1>5. PlanFits(s)
  BY <1>2, <1>3, <1>4 DEF PlanFits, Steps, Plans
<1>6. ReadingsStand(s)
  BY <1>1, <1>2, <1>4 DEF ReadingsStand
<1> QED
  BY <1>1, <1>5, <1>6, BuildGoesOn

LEMMA ReadListKeeps ==
  ASSUME IInv, NEW r \in Requests, ReadList(r)
  PROVE  IInv'
<1> DEFINE t == tx[r]
           n == t.lists + 1
           s == [t EXCEPT !.lists = n, !.taken = @ \cup Lists[n],
                          !.step = IF n = 2 THEN "parts" ELSE "lists"]
<1>1. /\ t.step = "lists" /\ GoOn(r, s)
      /\ PlanFits(t) /\ ReadingsStand(t) /\ t # Idle /\ DOMAIN t = Fields
  BY Running DEF ReadList
<1>2. t.lists \in {0, 1} /\ IsBatch(t)
  BY <1>1 DEF PlanFits, IsBatch
<1>3. /\ t.lists = 0 => n = 1 /\ Lists[n] = ActiveCards
      /\ t.lists = 1 => n = 2 /\ Lists[n] = StartedCards
  BY DEF Lists
<1> HIDE DEF t, n
<1>4. /\ DOMAIN s = Fields /\ s.step = (IF n = 2 THEN "parts" ELSE "lists") /\ s.lists = n
      /\ s.taken = t.taken \cup Lists[n]
      /\ s.command = t.command /\ s.part = t.part /\ s.wanted = t.wanted
      /\ s.reviews = t.reviews /\ s.active = t.active /\ s.due = t.due /\ s.made = t.made
      /\ s.sections = t.sections /\ s.extra = t.extra
  BY <1>1 DEF Fields
<1> HIDE DEF s
<1>5. MadeBy(s) = MadeBy(t) /\ IsBatch(s)
  BY <1>2, <1>3, <1>4 DEF MadeBy, IsBatch
<1>6. t.part = "none" /\ "none" \notin Sections
  BY <1>1, PlannerAssumption DEF PlanFits, Plans
<1>7. PlanFits(s)
  <2>1. /\ s.step \in {"parts", "lists"} /\ s.step \notin Plans
        /\ s.step = "lists" => s.lists \in {0, 1}
        /\ s.step # "lists" => s.lists \in {0, 2}
    BY <1>2, <1>3, <1>4 DEF Plans
  <2> QED
    BY <1>1, <1>2, <1>4, <1>5, <1>6, <2>1 DEF PlanFits, Steps
<1>8. ReadingsStand(s)
  <2>1. s.lists # 0 => ActiveCards \subseteq s.taken
    BY <1>1, <1>2, <1>3, <1>4 DEF ReadingsStand
  <2>2. s.lists = 2 => StartedCards \subseteq s.taken
    BY <1>2, <1>3, <1>4
  <2>3. s.step # "due" /\ s.step # "active"
    BY <1>4
  <2> QED
    BY <1>1, <1>2, <1>4, <1>5, <2>1, <2>2, <2>3 DEF ReadingsStand
<1> QED
  BY <1>1, <1>7, <1>8, BuildGoesOn DEF t

LEMMA BuildSectionKeeps ==
  ASSUME IInv, NEW r \in Requests, NEW section \in Sections, BuildSection(r, section)
  PROVE  IInv'
<1> DEFINE t == tx[r]
           cards == {c \in Cards : SectionOf[c] = section} \ t.taken
           rest  == [t EXCEPT !.sections = @ \ {section}]
           s     == [rest EXCEPT !.step = "created", !.part = section, !.wanted = cards]
<1>1. /\ t.step = "parts" /\ section \in t.sections
      /\ PlanFits(t) /\ ReadingsStand(t) /\ t # Idle /\ DOMAIN t = Fields
      /\ GoOn(r, rest) \/ GoOn(r, s)
  BY Running DEF BuildSection
<1>2. \A c \in cards : c \in Cards /\ SectionOf[c] = section /\ c \notin t.taken
  OBVIOUS
<1> HIDE DEF t, cards
<1>3. /\ DOMAIN rest = Fields /\ rest.sections = t.sections \ {section}
      /\ rest.step = t.step /\ rest.part = t.part /\ rest.wanted = t.wanted
      /\ rest.command = t.command
      /\ rest.reviews = t.reviews /\ rest.active = t.active /\ rest.due = t.due
      /\ rest.made = t.made /\ rest.extra = t.extra /\ rest.lists = t.lists
      /\ rest.taken = t.taken
  BY <1>1 DEF Fields
<1> HIDE DEF rest
<1>4. /\ DOMAIN s = Fields /\ s.sections = rest.sections
      /\ s.step = "created" /\ s.part = section /\ s.wanted = cards
      /\ s.command = rest.command
      /\ s.reviews = rest.reviews /\ s.active = rest.active /\ s.due = rest.due
      /\ s.made = rest.made /\ s.extra = rest.extra /\ s.lists = rest.lists
      /\ s.taken = rest.taken
  BY <1>3 DEF Fields
<1> HIDE DEF s
<1>5. /\ MadeBy(rest) = MadeBy(t) /\ MadeBy(s) = MadeBy(t)
      /\ IsBatch(t) /\ IsBatch(rest) /\ IsBatch(s)
      /\ t.lists = 2 /\ t.part = "none"
  BY <1>1, <1>3, <1>4 DEF MadeBy, IsBatch, PlanFits, Plans
<1>6. /\ "none" \notin Sections /\ "extra" \notin Sections
      /\ section \in BatchParts
  BY PlannerAssumption DEF BatchParts
<1>7. PlanFits(rest) /\ ReadingsStand(rest)
  <2>1. PlanFits(rest)
    BY <1>1, <1>3, <1>5, <1>6 DEF PlanFits, Plans
  <2>2. ReadingsStand(rest)
    BY <1>1, <1>3, <1>5 DEF ReadingsStand
  <2> QED
    BY <2>1, <2>2
<1>8. PlanFits(s)
  <2>1. cards \cap (s.taken \cup MadeBy(s)) = {}
    BY <1>1, <1>2, <1>3, <1>4, <1>5 DEF PlanFits
  <2>2. /\ s.part \notin s.sections /\ \A c \in s.wanted : SectionOf[c] = s.part
        /\ s.wanted \subseteq Cards /\ s.part # "extra"
    BY <1>2, <1>3, <1>4, <1>6
  <2>3. \A c \in MadeBy(s) : SectionOf[c] \notin s.sections
    BY <1>1, <1>3, <1>4, <1>5 DEF PlanFits
  <2>4. /\ s.step \in Steps /\ s.step # "idle" /\ s.step # "lists" /\ s.step \in Plans
        /\ s.lists \in {0, 2} /\ s.part \in BatchParts
    BY <1>3, <1>4, <1>5, <1>6 DEF Steps, Plans
  <2>5. /\ s.command \in Commands /\ s.due \subseteq Cards /\ s.extra \subseteq Cards
        /\ s.sections \subseteq Sections /\ s.reviews = 0 /\ s.due = {}
    BY <1>1, <1>3, <1>4, <1>5 DEF PlanFits
  <2>6. /\ DOMAIN s.made = Parts /\ MadeBy(s) \subseteq Cards
        /\ \A p, q \in Parts : DOMAIN s.made[p] \cap DOMAIN s.made[q] # {} => p = q
    BY <1>1, <1>3, <1>4, <1>5 DEF PlanFits
  <2> QED
    BY <1>4, <1>5, <2>1, <2>2, <2>3, <2>4, <2>5, <2>6 DEF PlanFits
<1>9. ReadingsStand(s)
  BY <1>1, <1>3, <1>4, <1>5 DEF ReadingsStand
<1> QED
  BY <1>1, <1>7, <1>8, <1>9, BuildGoesOn DEF t

LEMMA BuildExtraKeeps ==
  ASSUME IInv, NEW r \in Requests, BuildExtra(r)
  PROVE  IInv'
<1> DEFINE t == tx[r]
           s == [t EXCEPT !.step = "created", !.part = "extra", !.wanted = t.extra,
                          !.extra = {}]
<1>1. /\ t.step = "parts" /\ t.sections = {} /\ t.extra # {} /\ GoOn(r, s)
      /\ PlanFits(t) /\ ReadingsStand(t) /\ t # Idle /\ DOMAIN t = Fields
  BY Running DEF BuildExtra
<1> HIDE DEF t
<1>2. /\ DOMAIN s = Fields /\ s.step = "created" /\ s.part = "extra"
      /\ s.wanted = t.extra /\ s.extra = {} /\ s.sections = t.sections
      /\ s.command = t.command
      /\ s.reviews = t.reviews /\ s.active = t.active /\ s.due = t.due /\ s.made = t.made
      /\ s.lists = t.lists /\ s.taken = t.taken
  BY <1>1 DEF Fields
<1> HIDE DEF s
<1>3. MadeBy(s) = MadeBy(t) /\ IsBatch(t) /\ IsBatch(s)
  BY <1>1, <1>2 DEF MadeBy, IsBatch, PlanFits
<1>4. "extra" \notin Sections /\ "extra" \in BatchParts
  BY PlannerAssumption DEF BatchParts
<1>5. PlanFits(s)
  BY <1>1, <1>2, <1>3, <1>4 DEF PlanFits, Steps, Plans
<1>6. ReadingsStand(s)
  BY <1>1, <1>2, <1>3 DEF ReadingsStand
<1> QED
  BY <1>1, <1>5, <1>6, BuildGoesOn DEF t

\* A build that commits: its tasks appear, and no other build runs.
LEMMA CommitKeeps ==
  ASSUME IInv, NEW r \in Requests, tx[r].step = "parts", Commit(r)
  PROVE  IInv'
<1> DEFINE t == tx[r]
           IsNew(key) == key[1] = t.command /\ t.made[key[2]] # <<>>
<1>1. /\ PlanFits(t) /\ ReadingsStand(t) /\ t # Idle
      /\ tx' = [tx EXCEPT ![r] = Idle] /\ memory' = memory
      /\ tasks' = [key \in Keys |->
                     IF IsNew(key) THEN [status |-> "active", kinds |-> t.made[key[2]]]
                     ELSE tasks[key]]
  BY Running DEF Commit
<1>2. \A q \in Requests : tx'[q] = Idle
  BY <1>1 DEF IInv, OneBuild
<1>3. OneBuild' /\ BuildsFit'
  <2>1. OneBuild'
    BY <1>1, <1>2 DEF IInv, OneBuild
  <2>2. ASSUME NEW s \in {tx'[q] : q \in Requests} PROVE PlanFits(s) /\ ReadingsStand(s)'
    BY <1>2, IdleFits
  <2> QED
    BY <2>1, <2>2 DEF BuildsFit
<1> HIDE DEF t
<1>4. ASSUME NEW key \in Keys
      PROVE  /\ key[1] \in Commands /\ key[2] \in Parts /\ key = <<key[1], key[2]>>
             /\ IsNew(key) => /\ key \in ActiveKeys' /\ CardsOf(key)' = DOMAIN t.made[key[2]]
                              /\ tasks'[key].kinds = t.made[key[2]]
                              /\ DOMAIN tasks'[key] = {"status", "kinds"}
             /\ ~IsNew(key) => /\ key \in ActiveKeys' <=> key \in ActiveKeys
                               /\ CardsOf(key)' = CardsOf(key)
                               /\ tasks'[key] = tasks[key]
  <2>1. key[1] \in Commands /\ key[2] \in Parts /\ key = <<key[1], key[2]>>
    BY DEF Keys
  <2>2. CASE IsNew(key)
    <3>1. tasks'[key] = [status |-> "active", kinds |-> t.made[key[2]]]
      BY <1>1, <2>2
    <3> QED
      BY <2>1, <2>2, <3>1 DEF ActiveKeys, CardsOf
  <2>3. CASE ~IsNew(key)
    <3>1. tasks'[key] = tasks[key]
      BY <1>1, <2>3
    <3> QED
      BY <2>1, <2>3, <3>1 DEF ActiveKeys, CardsOf
  <2> QED
    BY <2>2, <2>3
<1> HIDE DEF IsNew
<1>5. RowsFit'
  <2>1. DOMAIN memory' = Cards /\ DOMAIN tasks' = Keys
    BY <1>1 DEF IInv, RowsFit
  <2>2. ASSUME NEW key \in Keys
        PROVE  DOMAIN tasks'[key] = {"status", "kinds"} /\ CardsOf(key)' \subseteq Cards
    <3>1. CASE IsNew(key)
      <4>1. DOMAIN t.made[key[2]] \subseteq Cards
        <5>1. MadeBy(t) \subseteq Cards
          BY <1>1 DEF PlanFits
        <5> QED
          BY <1>4, <5>1 DEF MadeBy
      <4> QED
        BY <1>4, <3>1, <4>1
    <3>2. CASE ~IsNew(key)
      BY <1>4, <3>2 DEF IInv, RowsFit
    <3> QED
      BY <3>1, <3>2
  <2> QED
    BY <2>1, <2>2 DEF RowsFit
<1>6. ActiveKeys' \subseteq Keys /\ ActiveKeys \subseteq Keys
  BY DEF ActiveKeys
<1>7. CardInOneTask'
  <2> SUFFICES ASSUME NEW key \in ActiveKeys', NEW other \in ActiveKeys',
                      NEW c \in CardsOf(key)', c \in CardsOf(other)'
               PROVE  key = other
    BY DEF CardInOneTask
  <2>1. ASSUME NEW k \in ActiveKeys', c \in CardsOf(k)'
        PROVE  /\ IsNew(k) => c \in MadeBy(t)
               /\ ~IsNew(k) => k \in ActiveKeys /\ c \in CardsOf(k) /\ c \in ActiveCards
    <3>1. IsNew(k) => c \in MadeBy(t)
      BY <1>4, <1>6, <2>1 DEF MadeBy
    <3>2. ASSUME ~IsNew(k) PROVE k \in ActiveKeys /\ c \in CardsOf(k)
      BY <1>4, <1>6, <2>1, <3>2
    <3> QED
      BY <3>1, <3>2 DEF ActiveCards
  <2>2. MadeBy(t) \cap ActiveCards = {}
    BY <1>1 DEF ReadingsStand
  <2>3. CASE IsNew(key) /\ IsNew(other)
    <3>1. c \in DOMAIN t.made[key[2]] /\ c \in DOMAIN t.made[other[2]]
      BY <1>4, <1>6, <2>3
    <3>2. key[2] = other[2]
      BY <1>1, <1>4, <1>6, <3>1 DEF PlanFits
    <3>3. key[1] = other[1]
      BY <2>3 DEF IsNew
    <3> QED
      BY <1>4, <1>6, <3>2, <3>3
  <2>4. CASE ~IsNew(key) /\ ~IsNew(other)
    BY <2>1, <2>4 DEF IInv, CardInOneTask
  <2>5. CASE IsNew(key) /\ ~IsNew(other)
    BY <2>1, <2>2, <2>5
  <2>6. CASE ~IsNew(key) /\ IsNew(other)
    BY <2>1, <2>2, <2>6
  <2> QED
    BY <2>3, <2>4, <2>5, <2>6
<1>8. KindsFit'
  <2> SUFFICES ASSUME NEW key \in ActiveKeys', NEW c \in CardsOf(key)',
                      tasks'[key].kinds[c] # "marked"
               PROVE  Accepts(tasks'[key].kinds[c], memory[c])
    BY <1>1 DEF KindsFit
  <2>1. CASE IsNew(key)
    BY <1>1, <1>4, <1>6, <2>1 DEF ReadingsStand
  <2>2. CASE ~IsNew(key)
    BY <1>4, <1>6, <2>2 DEF IInv, KindsFit
  <2> QED
    BY <2>1, <2>2
<1> QED
  BY <1>3, <1>5, <1>7, <1>8 DEF IInv

LEMMA FinishBuildKeeps ==
  ASSUME IInv, NEW r \in Requests, FinishBuild(r)
  PROVE  IInv'
<1>1. tx[r].step = "parts"
  BY DEF FinishBuild
<1>2. CASE Refuse(r)
  BY <1>1, <1>2, Running, IdleFits, BuildGoesOn DEF Refuse
<1>3. CASE Commit(r)
  BY <1>1, <1>3, CommitKeeps
<1> QED
  BY <1>2, <1>3 DEF FinishBuild

-----------------------------------------------------------------------------
(***************************************************************************)
(* The theorems.                                                           *)
(***************************************************************************)

LEMMA InitInv == ASSUME Init PROVE IInv
<1>1. /\ DOMAIN memory = Cards /\ DOMAIN tasks = Keys /\ DOMAIN tx = Requests
      /\ \A key \in Keys : tasks[key] = NoTask
      /\ \A r \in Requests : tx[r] = Idle
  BY DEF Init
<1>2. /\ NoTask.status = "none" /\ DOMAIN NoTask = {"status", "kinds"}
      /\ DOMAIN NoTask.kinds = {}
  BY DEF NoTask
<1>3. ActiveKeys = {} /\ \A key \in Keys : CardsOf(key) = {}
  BY <1>1, <1>2 DEF ActiveKeys, CardsOf
<1>4. RowsFit /\ CardInOneTask /\ KindsFit
  BY <1>1, <1>2, <1>3 DEF RowsFit, CardInOneTask, KindsFit
<1>5. OneBuild /\ BuildsFit
  BY <1>1, IdleFits DEF OneBuild, BuildsFit
<1> QED
  BY <1>4, <1>5 DEF IInv

\* The steps that are not a build's.
Surroundings ==
  \/ \E key \in Keys, c \in Cards :
       MarkFirst(key, c) \/ RemoveUnstartedTaskItem(key, c)
  \/ \E c \in Cards : BecomeDue(c)
  \/ \E key \in Keys : Complete(key) \/ CancelTask(key)

LEMMA SurroundingsKeep ==
  ASSUME IInv, Surroundings PROVE IInv' /\ Around
BY MarkFirstKeeps, RemovalKeeps, BecomeDueKeeps, EndingKeeps DEF Surroundings

LEMMA BuildKeeps ==
  ASSUME IInv, NEW r \in Requests, Build(r) PROVE IInv'
BY BeginDailyKeeps, ReadActiveKeeps, ReadDueKeeps, PlanItemsKeeps, BeginBatchKeeps,
   ReadListKeeps, BuildSectionKeeps, BuildExtraKeeps, FinishBuildKeeps DEF Build

LEMMA StepKeepsInv == ASSUME IInv, [Next]_vars PROVE IInv'
<1>1. CASE \E r \in Requests : Build(r)
  BY <1>1, BuildKeeps
<1>2. CASE Surroundings
  BY <1>2, SurroundingsKeep
<1>3. CASE UNCHANGED vars
  <2>1. UNCHANGED <<memory, tasks>> /\ tx' = tx
    BY <1>3 DEF vars
  <2>2. OneBuild' /\ BuildsFit'
    BY <2>1, RowsStay DEF IInv, OneBuild, BuildsFit
  <2> QED
    BY <2>1, <2>2, RowsStay DEF IInv
<1> QED
  BY <1>1, <1>2, <1>3 DEF Next, Surroundings

\* The locks and readings of the builds, and what they are for, hold always.
THEOREM SpecIInv == Spec => []IInv
BY InitInv, StepKeepsInv, PTL DEF Spec

\* Whatever builds, marks and cancellations meet, a card is in one active task at
\* most, and there as what the review service will accept it as.
THEOREM HandedOutOnceAlways == Spec => []HandedOutOnce
<1>1. IInv => HandedOutOnce
  BY DEF IInv, HandedOutOnce
<1> QED
  BY <1>1, SpecIInv, PTL

\* The cards picked for a section are still free and new when its task is planned.
THEOREM SectionStaysNewAlways == Spec => []SectionStaysNew
<1>1. IInv => SectionStaysNew
  <2> SUFFICES ASSUME IInv, NEW r \in Requests, tx[r].part \in Sections
               PROVE  tx[r].wanted \cap (ActiveCards \cup StartedCards \cup CardsMade(r)) = {}
    BY DEF SectionStaysNew
  <2>1. PlanFits(tx[r]) /\ ReadingsStand(tx[r])
    BY Running
  <2>2. "none" \notin Sections /\ "daily" \notin Sections
    BY PlannerAssumption
  <2>3. tx[r].step \in Plans /\ IsBatch(tx[r])
    BY <2>1, <2>2 DEF PlanFits
  <2>4. tx[r].lists = 2
    BY <2>1, <2>3 DEF PlanFits, IsBatch, Plans
  <2>5. CardsMade(r) = MadeBy(tx[r])
    BY DEF CardsMade, MadeBy
  <2> QED
    BY <2>1, <2>4, <2>5 DEF PlanFits, ReadingsStand
<1> QED
  BY <1>1, SpecIInv, PTL

\* The tasks of a batch appear all at once: none is added to a batch that has one.
THEOREM BatchBuiltOnceAlways == Spec => BatchBuiltOnce
<1>1. ASSUME IInv, [Next]_vars, NEW k \in Commands, NEW o \in BatchParts,
             tasks[<<k, o>>] # NoTask, NEW p \in BatchParts, tasks[<<k, p>>] = NoTask
      PROVE  tasks'[<<k, p>>] = NoTask
  <2>1. <<k, p>> \in Keys /\ p \in Parts /\ p # "daily"
    BY PlannerAssumption DEF Keys, Parts, BatchParts
  <2>2. CASE Surroundings
    BY <1>1, <2>1, <2>2, SurroundingsKeep DEF Around
  <2>3. CASE tasks' = tasks
    BY <1>1, <2>3
  <2>4. ASSUME NEW r \in Requests, tx[r].step = "parts", Commit(r)
        PROVE  tasks'[<<k, p>>] = NoTask
    <3>1. PlanFits(tx[r]) /\ ReadingsStand(tx[r])
      BY <1>1, Running
    <3>2. tasks'[<<k, p>>] = IF k = tx[r].command /\ tx[r].made[p] # <<>>
                             THEN [status |-> "active", kinds |-> tx[r].made[p]]
                             ELSE tasks[<<k, p>>]
      BY <2>1, <2>4 DEF Commit
    <3>3. CASE IsBatch(tx[r])
      <4>1. k # tx[r].command
        BY <1>1, <3>1, <3>3 DEF ReadingsStand
      <4> QED
        BY <1>1, <3>2, <4>1
    <3>4. CASE ~IsBatch(tx[r])
      <4>1. tx[r].made[p] = <<>>
        BY <3>1, <3>4 DEF PlanFits
      <4> QED
        BY <1>1, <3>2, <4>1
    <3> QED
      BY <3>3, <3>4
  <2>5. Surroundings \/ tasks' = tasks
        \/ \E r \in Requests : tx[r].step = "parts" /\ Commit(r)
    BY <1>1 DEF Next, Surroundings, vars, Build, BeginDaily, ReadActive, ReadDue, PlanItems,
                BeginBatch, ReadList, BuildSection, BuildExtra, FinishBuild, Refuse, GoOn
  <2> QED
    BY <2>2, <2>3, <2>4, <2>5
<1>2. IInv /\ [Next]_vars =>
        [\A k \in Commands :
           (\E p \in BatchParts : tasks[<<k, p>>] # NoTask) =>
             \A p \in BatchParts :
               tasks[<<k, p>>] = NoTask => tasks'[<<k, p>>] = NoTask]_vars
  BY <1>1
<1> QED
  BY <1>2, SpecIInv, PTL DEF Spec, BatchBuiltOnce

-----------------------------------------------------------------------------
(***************************************************************************)
(* TaskPlanner implements CardsInHand.  What a build has made shows when   *)
(* it commits; the invariant says of it, besides what IInv says, of what   *)
(* kinds the cards of each part are, and that the parts are new.           *)
(***************************************************************************)

FitsPart(p, c, kind) ==
  CASE p = "extra" -> kind \in {"new", "manual_review"}
    [] p = "daily" -> kind \in {"new", "due_review"}
    [] OTHER       -> kind = "new" /\ SectionOf[c] = p

\* A batch has no daily task, and a daily task is the first of its command.
DailyFits(t) ==
  IF IsBatch(t) THEN t.made["daily"] = <<>>
  ELSE t.step # "idle" => tasks[<<t.command, "daily">>] = NoTask

KindsKnown(t) ==
  \A p \in Parts :
    /\ t.made[p] = <<>> \/ DOMAIN t.made[p] # {}
    /\ \A c \in DOMAIN t.made[p] : FitsPart(p, c, t.made[p][c])

HandInv ==
  /\ IInv
  /\ \A t \in {tx[r] : r \in Requests} : DailyFits(t) /\ KindsKnown(t)

LEMMA IdleIsKnown == DailyFits(Idle) /\ DailyFits(Idle)' /\ KindsKnown(Idle)
<1>1. /\ Idle.step = "idle" /\ Idle.lists = 0
      /\ \A p \in Parts : Idle.made[p] = <<>> /\ DOMAIN Idle.made[p] = {}
  BY DEF Idle
<1>2. ~IsBatch(Idle)
  BY <1>1 DEF IsBatch
<1> HIDE DEF Idle
<1>3. DailyFits(Idle)
  BY <1>1, <1>2 DEF DailyFits
<1>4. DailyFits(Idle)'
  BY <1>1, <1>2 DEF DailyFits
<1> QED
  BY <1>1, <1>3, <1>4 DEF KindsKnown

\* A build that runs: what HandInv says of it.
LEMMA RunningKnown ==
  ASSUME HandInv, NEW r \in Requests
  PROVE  /\ IInv /\ DailyFits(tx[r]) /\ KindsKnown(tx[r])
         /\ PlanFits(tx[r]) /\ ReadingsStand(tx[r])
         /\ tx[r].step # "idle" => tx[r] # Idle
         /\ DOMAIN tx[r] = Fields
BY Running DEF HandInv

\* A build takes its next step.
LEMMA KnownGoesOn ==
  ASSUME HandInv, NEW r \in Requests, tx[r] # Idle \/ ChildIsFree,
         NEW s, DailyFits(s), KindsKnown(s), GoOn(r, s)
  PROVE  \A t \in {tx'[q] : q \in Requests} : DailyFits(t)' /\ KindsKnown(t)
<1>1. /\ tx'[r] = s /\ tasks' = tasks
      /\ \A q \in Requests : q # r => tx'[q] = tx[q] /\ tx[q] = Idle
  BY DEF HandInv, IInv, OneBuild, GoOn, ChildIsFree
<1>2. DailyFits(s)'
  BY <1>1 DEF DailyFits
<1> QED
  BY <1>1, <1>2, IdleIsKnown

\* A step that adds nothing to what is made.
LEMMA SameMade ==
  ASSUME NEW t, NEW s, DailyFits(t), KindsKnown(t), t.step # "idle",
         s.made = t.made, s.command = t.command, IsBatch(s) <=> IsBatch(t)
  PROVE  DailyFits(s) /\ KindsKnown(s)
BY DEF DailyFits, KindsKnown

\* The steps between the first and the last of a build that make nothing.
Reading(r) ==
  \/ ReadActive(r)
  \/ ReadDue(r)
  \/ ReadList(r)
  \/ \E section \in Sections : BuildSection(r, section)
  \/ BuildExtra(r)

LEMMA ReadingGoesOn ==
  ASSUME HandInv, NEW r \in Requests, Reading(r)
  PROVE  \E s : /\ GoOn(r, s) /\ tx[r].step # "idle"
                /\ s.made = tx[r].made /\ s.command = tx[r].command
                /\ IsBatch(s) <=> IsBatch(tx[r])
<1> PICK t : t = tx[r]
  OBVIOUS
<1>1. DOMAIN t = Fields /\ PlanFits(t)
  BY RunningKnown
<1>2. CASE ReadActive(r)
  <2>1. PICK s : s = [t EXCEPT !.step = "active", !.active = ActiveCards \cup CardsMade(r)]
    OBVIOUS
  <2>2. t.step = "created" /\ GoOn(r, s)
    BY <1>2, <2>1 DEF ReadActive
  <2>3. s.made = t.made /\ s.command = t.command /\ s.step = "active" /\ s.lists = t.lists
    BY <1>1, <2>1 DEF Fields
  <2> QED
    BY <2>2, <2>3 DEF IsBatch
<1>3. CASE ReadDue(r)
  <2>1. PICK chosen : GoOn(r, [t EXCEPT !.step = "due", !.due = chosen])
    BY <1>3 DEF ReadDue
  <2>2. PICK s : s = [t EXCEPT !.step = "due", !.due = chosen]
    OBVIOUS
  <2>3. t.step = "active" /\ GoOn(r, s)
    BY <1>3, <2>1, <2>2 DEF ReadDue
  <2>4. s.made = t.made /\ s.command = t.command /\ s.step = "due" /\ s.lists = t.lists
    BY <1>1, <2>2 DEF Fields
  <2> QED
    BY <2>3, <2>4 DEF IsBatch
<1>4. CASE ReadList(r)
  <2>1. PICK n : n = t.lists + 1
    OBVIOUS
  <2>2. PICK s : s = [t EXCEPT !.lists = n, !.taken = @ \cup Lists[n],
                               !.step = IF n = 2 THEN "parts" ELSE "lists"]
    OBVIOUS
  <2>3. t.step = "lists" /\ GoOn(r, s)
    BY <1>4, <2>1, <2>2 DEF ReadList
  <2>4. n # 0
    BY <1>1, <2>1, <2>3 DEF PlanFits
  <2>5. s.made = t.made /\ s.command = t.command /\ s.lists = n
    BY <1>1, <2>2 DEF Fields
  <2> QED
    BY <2>3, <2>4, <2>5 DEF IsBatch
<1>5. ASSUME NEW section \in Sections, BuildSection(r, section)
      PROVE  \E s : /\ GoOn(r, s) /\ t.step # "idle"
                    /\ s.made = t.made /\ s.command = t.command
                    /\ IsBatch(s) <=> IsBatch(t)
  <2>1. PICK cards : cards = {c \in Cards : SectionOf[c] = section} \ t.taken
    OBVIOUS
  <2>2. PICK rest : rest = [t EXCEPT !.sections = @ \ {section}]
    OBVIOUS
  <2>3. PICK s : s = [rest EXCEPT !.step = "created", !.part = section, !.wanted = cards]
    OBVIOUS
  <2>4. t.step = "parts" /\ (GoOn(r, rest) \/ GoOn(r, s))
    BY <1>5, <2>1, <2>2, <2>3 DEF BuildSection
  <2>5. /\ DOMAIN rest = Fields /\ rest.made = t.made /\ rest.command = t.command
        /\ rest.step = t.step /\ rest.lists = t.lists
    BY <1>1, <2>2 DEF Fields
  <2>6. /\ s.made = t.made /\ s.command = t.command
        /\ s.step = "created" /\ s.lists = t.lists
    BY <2>3, <2>5 DEF Fields
  <2> QED
    BY <2>4, <2>5, <2>6 DEF IsBatch
<1>6. CASE BuildExtra(r)
  <2>1. PICK s : s = [t EXCEPT !.step = "created", !.part = "extra",
                               !.wanted = t.extra, !.extra = {}]
    OBVIOUS
  <2>2. t.step = "parts" /\ GoOn(r, s)
    BY <1>6, <2>1 DEF BuildExtra
  <2>3. s.made = t.made /\ s.command = t.command /\ s.step = "created" /\ s.lists = t.lists
    BY <1>1, <2>1 DEF Fields
  <2> QED
    BY <2>2, <2>3 DEF IsBatch
<1> QED
  BY <1>2, <1>3, <1>4, <1>5, <1>6 DEF Reading

LEMMA ReadingKnown ==
  ASSUME HandInv, NEW r \in Requests, Reading(r)
  PROVE  /\ UNCHANGED <<memory, tasks>>
         /\ \A t \in {tx'[q] : q \in Requests} : DailyFits(t)' /\ KindsKnown(t)
<1>1. PICK s : /\ GoOn(r, s) /\ tx[r].step # "idle"
               /\ s.made = tx[r].made /\ s.command = tx[r].command
               /\ IsBatch(s) <=> IsBatch(tx[r])
  BY ReadingGoesOn
<1>2. DailyFits(s) /\ KindsKnown(s)
  BY <1>1, RunningKnown, SameMade
<1>3. tx[r] # Idle
  BY <1>1, RunningKnown
<1> QED
  BY <1>1, <1>2, <1>3, KnownGoesOn DEF GoOn

\* The first step: nothing is made, and a daily task is looked for.
LEMMA BeginKnown ==
  ASSUME HandInv, NEW r \in Requests, NEW k \in Commands,
         NEW cards \in SUBSET Cards, NEW reviews,
         NEW sections \in SUBSET Sections, NEW extra \in SUBSET Cards,
         BeginDaily(r, k, cards, reviews) \/ BeginBatch(r, k, sections, extra)
  PROVE  /\ UNCHANGED <<memory, tasks>>
         /\ \A t \in {tx'[q] : q \in Requests} : DailyFits(t)' /\ KindsKnown(t)
<1>1. CASE BeginDaily(r, k, cards, reviews)
  <2>1. PICK s : s = [Idle EXCEPT !.step = "created", !.command = k, !.part = "daily",
                                  !.wanted = cards, !.reviews = reviews]
    OBVIOUS
  <2>2. ChildIsFree /\ GoOn(r, s) /\ tasks[<<k, "daily">>] = NoTask
    BY <1>1, <2>1 DEF BeginDaily
  <2>3. /\ s.step = "created" /\ s.lists = 0 /\ s.command = k
        /\ \A p \in Parts : s.made[p] = <<>> /\ DOMAIN s.made[p] = {}
    BY <2>1 DEF Idle
  <2>4. DailyFits(s) /\ KindsKnown(s)
    BY <2>2, <2>3 DEF DailyFits, KindsKnown, IsBatch
  <2> QED
    BY <2>2, <2>4, KnownGoesOn DEF GoOn
<1>2. CASE BeginBatch(r, k, sections, extra)
  <2>1. PICK s : s = [Idle EXCEPT !.step = "lists", !.command = k,
                                  !.sections = sections, !.extra = extra]
    OBVIOUS
  <2>2. ChildIsFree /\ GoOn(r, s)
    BY <1>2, <2>1 DEF BeginBatch
  <2>3. /\ s.step = "lists"
        /\ \A p \in Parts : s.made[p] = <<>> /\ DOMAIN s.made[p] = {}
    BY <2>1 DEF Idle
  <2>4. DailyFits(s) /\ KindsKnown(s)
    BY <2>3 DEF DailyFits, KindsKnown, IsBatch, Parts
  <2> QED
    BY <2>2, <2>4, KnownGoesOn DEF GoOn
<1> QED
  BY <1>1, <1>2

\* A part is planned: of each card the kind its part is for.
LEMMA PlanKnown ==
  ASSUME HandInv, NEW r \in Requests, PlanItems(r)
  PROVE  /\ UNCHANGED <<memory, tasks>>
         /\ \A t \in {tx'[q] : q \in Requests} : DailyFits(t)' /\ KindsKnown(t)
<1> PICK t : t = tx[r]
  OBVIOUS
<1> PICK planned : planned = Planned(r)
  OBVIOUS
<1> PICK s : s = [t EXCEPT !.step = "parts", !.part = "none", !.wanted = {},
                           !.active = {}, !.due = {}, !.made[t.part] = planned]
  OBVIOUS
<1>1. /\ t.step = "due" /\ t # Idle /\ DOMAIN t = Fields
      /\ PlanFits(t) /\ DailyFits(t) /\ KindsKnown(t)
  BY RunningKnown DEF PlanItems
<1>2. CASE Refuse(r)
  BY <1>1, <1>2, KnownGoesOn, IdleIsKnown DEF Refuse, GoOn
<1>3. CASE ~IsRefused(r) /\ GoOn(r, s)
  <2>1. /\ s.step = "parts" /\ s.lists = t.lists /\ s.command = t.command
        /\ s.made = [t.made EXCEPT ![t.part] = planned]
    BY <1>1 DEF Fields
  <2>2. /\ t.part \in Parts
        /\ IsBatch(t) => t.part \in BatchParts /\ t.due = {}
        /\ ~IsBatch(t) => t.part = "daily"
        /\ "daily" \notin BatchParts /\ "extra" \notin Sections
        /\ "daily" # "extra" /\ BatchParts = Sections \cup {"extra"}
    BY <1>1, PlannerAssumption DEF PlanFits, Plans, Parts, BatchParts
  <2>3. IsBatch(s) <=> IsBatch(t)
    BY <1>1, <2>1 DEF IsBatch, PlanFits
  <2>4. /\ s.made[t.part] = planned
        /\ \A p \in Parts : p # t.part => s.made[p] = t.made[p]
    BY <1>1, <2>1, <2>2 DEF PlanFits
  <2>5. DailyFits(s)
    BY <1>1, <2>1, <2>2, <2>3, <2>4 DEF DailyFits, Parts
  <2>6. /\ DOMAIN planned = t.due \cup Selected(r) /\ DOMAIN planned # {}
        /\ \A c \in DOMAIN planned : planned[c] = KindOf(r, c)
        /\ Selected(r) \subseteq t.wanted
    BY <1>3 DEF Planned, IsRefused, Selected
  <2>7. ASSUME NEW c \in DOMAIN planned PROVE FitsPart(t.part, c, KindOf(r, c))
    <3>1. t.part # "extra" => c \in t.due \/ c \notin StartedCards
      BY <1>3, <2>6 DEF IsRefused
    <3>2. CASE t.part = "extra"
      <4>1. c \notin t.due
        BY <2>2, <3>2
      <4> QED
        BY <3>2, <4>1 DEF FitsPart, KindOf
    <3>3. CASE t.part = "daily"
      <4>1. KindOf(r, c) \in {"new", "due_review"}
        BY <3>1, <3>3 DEF KindOf
      <4> QED
        BY <3>3, <4>1 DEF FitsPart
    <3>4. CASE t.part \in Sections
      <4>1. c \notin t.due /\ c \in t.wanted
        BY <2>2, <2>6, <3>4
      <4>2. SectionOf[c] = t.part
        BY <1>1, <3>4, <4>1 DEF PlanFits
      <4> QED
        BY <2>2, <3>1, <3>4, <4>1, <4>2 DEF FitsPart, KindOf
    <3> QED
      BY <2>2, <3>2, <3>3, <3>4
  <2>8. KindsKnown(s)
    BY <1>1, <2>2, <2>4, <2>6, <2>7 DEF KindsKnown
  <2> QED
    BY <1>1, <1>3, <2>5, <2>8, KnownGoesOn DEF GoOn
<1> QED
  BY <1>2, <1>3 DEF PlanItems

\* A build that commits, or makes nothing: no build runs any more.
LEMMA FinishKnown ==
  ASSUME HandInv, NEW r \in Requests, FinishBuild(r)
  PROVE  \A t \in {tx'[q] : q \in Requests} : DailyFits(t)' /\ KindsKnown(t)
<1>1. tx' = [tx EXCEPT ![r] = Idle] /\ tx[r] # Idle
  BY RunningKnown DEF FinishBuild, Refuse, GoOn, Commit
<1>2. \A q \in Requests : tx'[q] = Idle
  BY <1>1 DEF HandInv, IInv, OneBuild
<1> QED
  BY <1>2, IdleIsKnown

LEMMA AroundKnown ==
  ASSUME HandInv, Around
  PROVE  \A t \in {tx'[q] : q \in Requests} : DailyFits(t)' /\ KindsKnown(t)
<1> SUFFICES ASSUME NEW q \in Requests PROVE DailyFits(tx[q])' /\ KindsKnown(tx[q])
  BY DEF Around
<1> PICK t : t = tx[q]
  OBVIOUS
<1>1. PlanFits(t) /\ DailyFits(t) /\ KindsKnown(t)
  BY RunningKnown
<1>2. t.step # "idle" => <<t.command, "daily">> \in Keys
  BY <1>1 DEF PlanFits, Keys, Parts
<1>3. DailyFits(t)'
  BY <1>1, <1>2 DEF DailyFits, Around
<1>4. tx'[q] = t
  BY DEF Around
<1> QED
  BY <1>1, <1>3, <1>4 DEF DailyFits

LEMMA InitHandInv == ASSUME Init PROVE HandInv
BY InitInv, IdleIsKnown DEF HandInv, Init

LEMMA StepKeepsHandInv == ASSUME HandInv, [Next]_vars PROVE HandInv'
<1>1. IInv'
  BY StepKeepsInv DEF HandInv
<1>2. \A t \in {tx'[q] : q \in Requests} : DailyFits(t)' /\ KindsKnown(t)
  <2>1. ASSUME NEW r \in Requests, Build(r)
        PROVE  \A t \in {tx'[q] : q \in Requests} : DailyFits(t)' /\ KindsKnown(t)
    <3>1. CASE Reading(r)
      BY <3>1, ReadingKnown
    <3>2. CASE PlanItems(r)
      BY <3>2, PlanKnown
    <3>3. CASE FinishBuild(r)
      BY <3>3, FinishKnown
    <3>4. CASE \E k \in Commands, cards \in SUBSET Cards, reviews \in 0..MaxReviewCards :
                 BeginDaily(r, k, cards, reviews)
      BY <3>4, BeginKnown
    <3>5. CASE \E k \in Commands, sections \in SUBSET Sections, extra \in SUBSET Cards :
                 BeginBatch(r, k, sections, extra)
      BY <3>5, BeginKnown
    <3> QED
      BY <2>1, <3>1, <3>2, <3>3, <3>4, <3>5 DEF Build, Reading
  <2>2. CASE Surroundings
    BY <2>2, SurroundingsKeep, AroundKnown DEF HandInv
  <2>3. CASE UNCHANGED vars
    BY <2>3 DEF vars, HandInv, DailyFits
  <2> QED
    BY <2>1, <2>2, <2>3 DEF Next, Surroundings
<1> QED
  BY <1>1, <1>2 DEF HandInv

-----------------------------------------------------------------------------
(***************************************************************************)
(* What each step is for CardsInHand.                                      *)
(***************************************************************************)

LEMMA Hands ==
  /\ \A e : e \in InHand <=>
       \E key, c : key \in ActiveKeys /\ c \in CardsOf(key)
             /\ e = [task |-> key, card |-> c, kind |-> tasks[key].kinds[c]]
  /\ Hand!CardsOut = ActiveCards
  /\ ActiveKeys \subseteq MadeTasks
<1>1. \A e : e \in InHand <=>
        \E key, c : key \in ActiveKeys /\ c \in CardsOf(key)
              /\ e = [task |-> key, card |-> c, kind |-> tasks[key].kinds[c]]
  BY DEF InHand
<1>2. Hand!CardsOut = ActiveCards
  <2>1. ASSUME NEW c \in Hand!CardsOut PROVE c \in ActiveCards
    <3>1. PICK e \in InHand : c = e.card
      BY DEF Hand!CardsOut
    <3> QED
      BY <1>1, <3>1 DEF ActiveCards
  <2>2. ASSUME NEW c \in ActiveCards PROVE c \in Hand!CardsOut
    <3>1. PICK key \in ActiveKeys : c \in CardsOf(key)
      BY DEF ActiveCards
    <3>2. [task |-> key, card |-> c, kind |-> tasks[key].kinds[c]] \in InHand
      BY <1>1, <3>1
    <3> QED
      BY <3>2 DEF Hand!CardsOut
  <2> QED
    BY <2>1, <2>2
<1>3. ActiveKeys \subseteq MadeTasks
  BY DEF ActiveKeys, MadeTasks, NoTask
<1> QED
  BY <1>1, <1>2, <1>3

LEMMA HandsNext ==
  \A e : e \in InHand' <=>
    \E key, c : key \in ActiveKeys' /\ c \in CardsOf(key)'
          /\ e = [task |-> key, card |-> c, kind |-> tasks'[key].kinds[c]]
BY DEF InHand

\* Nothing shows of a step that changes no row.
LEMMA NothingShows ==
  ASSUME UNCHANGED <<memory, tasks>>
  PROVE  UNCHANGED Hand!vars
BY DEF Hand!vars, MadeTasks, InHand, ActiveKeys, CardsOf

LEMMA BecomeDueShows ==
  ASSUME NEW c \in Cards, BecomeDue(c)
  PROVE  Hand!BecomeDue(c)
<1>1. tasks' = tasks
  BY DEF BecomeDue
<1>2. MadeTasks' = MadeTasks /\ InHand' = InHand
  BY <1>1 DEF MadeTasks, InHand, ActiveKeys, CardsOf
<1> QED
  BY <1>2 DEF BecomeDue, Hand!BecomeDue

LEMMA MarkFirstShows ==
  ASSUME HandInv, NEW key \in Keys, NEW c \in Cards, MarkFirst(key, c)
  PROVE  \E e \in InHand : Hand!Mark(e)
<1> PICK kind : kind = tasks[key].kinds[c]
  OBVIOUS
<1> PICK e : e = [task |-> key, card |-> c, kind |-> kind]
  OBVIOUS
<1> PICK marked : marked = [task |-> key, card |-> c, kind |-> "marked"]
  OBVIOUS
<1>1. /\ tasks' = [tasks EXCEPT ![key].kinds[c] = "marked"]
      /\ memory' = [memory EXCEPT ![c] = "later"]
      /\ key \in ActiveKeys /\ c \in CardsOf(key) /\ tasks[key].status = "active"
      /\ kind # "marked"
  BY DEF MarkFirst, ActiveKeys, Accepts
<1>2. /\ DOMAIN tasks' = Keys
      /\ \A k \in Keys : k # key => tasks'[k] = tasks[k]
      /\ tasks'[key].status = tasks[key].status
      /\ CardsOf(key)' = CardsOf(key) /\ tasks'[key].kinds[c] = "marked"
      /\ \A d \in CardsOf(key) : d # c => tasks'[key].kinds[d] = tasks[key].kinds[d]
  BY <1>1 DEF HandInv, IInv, RowsFit, CardsOf
<1>3. /\ \A k \in Keys : CardsOf(k)' = CardsOf(k)
      /\ ActiveKeys' = ActiveKeys /\ ActiveKeys \subseteq Keys
  BY <1>2 DEF CardsOf, ActiveKeys
<1>4. MadeTasks' = MadeTasks
  BY <1>1, <1>2 DEF MadeTasks, NoTask
<1>5. e \in InHand
  BY <1>1, Hands
<1>6. InHand' = (InHand \ {e}) \cup {marked}
  <2>1. ASSUME NEW o \in InHand' PROVE o \in (InHand \ {e}) \cup {marked}
    <3>1. PICK k, d : /\ k \in ActiveKeys /\ d \in CardsOf(k)
                     /\ o = [task |-> k, card |-> d, kind |-> tasks'[k].kinds[d]]
      BY <1>3, HandsNext
    <3>2. CASE k = key /\ d = c
      BY <1>2, <3>1, <3>2
    <3>3. CASE ~(k = key /\ d = c)
      <4>1. tasks'[k].kinds[d] = tasks[k].kinds[d]
        <5>1. CASE k = key
          BY <1>2, <3>1, <3>3, <5>1
        <5>2. CASE k # key
          BY <1>2, <1>3, <3>1, <5>2
        <5> QED
          BY <5>1, <5>2
      <4>2. o \in InHand
        BY <3>1, <4>1, Hands
      <4>3. o.task = k /\ o.card = d /\ e.task = key /\ e.card = c
        BY <3>1
      <4> QED
        BY <3>3, <4>2, <4>3
    <3> QED
      BY <3>2, <3>3
  <2>2. marked \in InHand'
    BY <1>1, <1>2, <1>3, HandsNext
  <2>3. ASSUME NEW o \in InHand \ {e} PROVE o \in InHand'
    <3>1. PICK k, d : /\ k \in ActiveKeys /\ d \in CardsOf(k)
                     /\ o = [task |-> k, card |-> d, kind |-> tasks[k].kinds[d]]
      BY Hands
    <3>2. ~(k = key /\ d = c)
      BY <2>3, <3>1
    <3>3. tasks'[k].kinds[d] = tasks[k].kinds[d]
      <4>1. CASE k = key
        BY <1>2, <3>1, <3>2, <4>1
      <4>2. CASE k # key
        BY <1>2, <1>3, <3>1, <4>2
      <4> QED
        BY <4>1, <4>2
    <3> QED
      BY <1>3, <3>1, <3>3, HandsNext
  <2> QED
    BY <2>1, <2>2, <2>3
<1>7. [e EXCEPT !.kind = "marked"] = marked
  OBVIOUS
<1>8. e.card = c /\ e.kind = kind
  OBVIOUS
<1> QED
  BY <1>1, <1>4, <1>5, <1>6, <1>7, <1>8 DEF Hand!Mark

\* A task ends, or keeps a part of its cards as they are.
LEMMA ShrinkingShows ==
  ASSUME HandInv, NEW key \in ActiveKeys, NEW row,
         tasks' = [tasks EXCEPT ![key] = row], memory' = memory,
         row # NoTask, DOMAIN row.kinds \subseteq CardsOf(key),
         row.status = "active" \/ DOMAIN row.kinds = {},
         \A c \in DOMAIN row.kinds : row.kinds[c] = tasks[key].kinds[c]
  PROVE  /\ UNCHANGED <<memory, MadeTasks>>
         /\ InHand' = {e \in InHand : e.task = key => e.card \in DOMAIN row.kinds}
<1>1. /\ key \in Keys /\ tasks[key].status = "active" /\ tasks'[key] = row
      /\ \A k \in Keys : k # key => tasks'[k] = tasks[k]
  BY DEF HandInv, IInv, RowsFit, ActiveKeys
<1>2. tasks[key] # NoTask
  BY <1>1 DEF NoTask
<1>3. MadeTasks' = MadeTasks
  BY <1>1, <1>2 DEF MadeTasks, NoTask
<1>4. /\ \A k \in Keys : k # key => /\ k \in ActiveKeys' <=> k \in ActiveKeys
                                    /\ CardsOf(k)' = CardsOf(k)
      /\ CardsOf(key)' = DOMAIN row.kinds
      /\ key \in ActiveKeys' <=> row.status = "active"
      /\ ActiveKeys \subseteq Keys /\ ActiveKeys' \subseteq Keys
  BY <1>1 DEF ActiveKeys, CardsOf
<1>5. ASSUME NEW e \in InHand'
      PROVE  e \in InHand /\ (e.task = key => e.card \in DOMAIN row.kinds)
  <2>1. PICK k, c : /\ k \in ActiveKeys' /\ c \in CardsOf(k)'
                     /\ e = [task |-> k, card |-> c, kind |-> tasks'[k].kinds[c]]
    BY HandsNext
  <2>2. k \in ActiveKeys /\ c \in CardsOf(k) /\ tasks'[k].kinds[c] = tasks[k].kinds[c]
    <3>1. CASE k = key
      BY <1>1, <1>4, <2>1, <3>1
    <3>2. CASE k # key
      BY <1>1, <1>4, <2>1, <3>2
    <3> QED
      BY <3>1, <3>2
  <2>3. e \in InHand
    BY <2>1, <2>2, Hands
  <2> QED
    BY <1>4, <2>1, <2>3
<1>6. ASSUME NEW e \in InHand, e.task = key => e.card \in DOMAIN row.kinds
      PROVE  e \in InHand'
  <2>1. PICK k, c : /\ k \in ActiveKeys /\ c \in CardsOf(k)
                     /\ e = [task |-> k, card |-> c, kind |-> tasks[k].kinds[c]]
    BY Hands
  <2>2. k = key => c \in DOMAIN row.kinds
    BY <1>6, <2>1
  <2>3. k \in ActiveKeys' /\ c \in CardsOf(k)' /\ tasks'[k].kinds[c] = tasks[k].kinds[c]
    <3>1. CASE k = key
      BY <1>1, <1>4, <2>1, <2>2, <3>1
    <3>2. CASE k # key
      BY <1>1, <1>4, <2>1, <3>2
    <3> QED
      BY <3>1, <3>2
  <2> QED
    BY <2>1, <2>3, HandsNext
<1> QED
  BY <1>3, <1>5, <1>6

LEMMA EndingShows ==
  ASSUME HandInv, NEW key \in Keys, Complete(key) \/ CancelTask(key)
  PROVE  key \in MadeTasks /\ Hand!TakeBack(key)
<1>1. /\ key \in ActiveKeys /\ memory' = memory
      /\ tasks' = [tasks EXCEPT ![key] = Over]
  BY DEF Complete, CancelTask
<1>2. DOMAIN Over.kinds = {} /\ Over # NoTask
  BY DEF Over, NoTask
<1>3. /\ UNCHANGED <<memory, MadeTasks>>
      /\ InHand' = {e \in InHand : e.task = key => e.card \in {}}
  BY <1>1, <1>2, ShrinkingShows
<1> QED
  BY <1>1, <1>3, Hands DEF Hand!TakeBack

LEMMA RemovalShows ==
  ASSUME HandInv, NEW key \in Keys, NEW c \in Cards, RemoveUnstartedTaskItem(key, c)
  PROVE  \E e \in InHand : Hand!TakeBackOne(e)
<1>1. PICK kinds : kinds = tasks[key].kinds
  OBVIOUS
<1>2. PICK rest : rest = DOMAIN kinds \ {c}
  OBVIOUS
<1>3. PICK row : row = IF rest = {} THEN Over
                       ELSE [status |-> "active", kinds |-> Restrict(kinds, rest)]
  OBVIOUS
<1>4. PICK e : e = [task |-> key, card |-> c, kind |-> kinds[c]]
  OBVIOUS
<1>5. /\ key \in ActiveKeys /\ memory' = memory
      /\ c \in CardsOf(key) /\ CardsOf(key) = DOMAIN kinds
      /\ \A d \in DOMAIN kinds : kinds[d] # "marked"
  BY <1>1 DEF RemoveUnstartedTaskItem, CardsOf
<1>6. tasks' = [tasks EXCEPT ![key] = row]
  <2>1. CASE rest = {}
    BY <1>1, <1>2, <1>3, <1>5, <2>1 DEF RemoveUnstartedTaskItem
  <2>2. CASE rest # {}
    BY <1>1, <1>2, <1>3, <1>5, <2>2 DEF RemoveUnstartedTaskItem
  <2> QED
    BY <2>1, <2>2
<1>7. /\ row # NoTask /\ DOMAIN row.kinds = rest
      /\ row.status = "active" \/ rest = {}
      /\ \A d \in rest : row.kinds[d] = kinds[d]
  <2>1. CASE rest = {}
    BY <1>3, <2>1 DEF Over, NoTask
  <2>2. CASE rest # {}
    BY <1>3, <2>2 DEF Restrict, NoTask
  <2> QED
    BY <2>1, <2>2
<1>8. /\ UNCHANGED <<memory, MadeTasks>>
      /\ InHand' = {o \in InHand : o.task = key => o.card \in rest}
  <2>1. /\ DOMAIN row.kinds \subseteq CardsOf(key)
        /\ row.status = "active" \/ DOMAIN row.kinds = {}
        /\ \A d \in DOMAIN row.kinds : row.kinds[d] = tasks[key].kinds[d]
    BY <1>1, <1>2, <1>5, <1>7
  <2>2. /\ UNCHANGED <<memory, MadeTasks>>
        /\ InHand' = {o \in InHand : o.task = key => o.card \in DOMAIN row.kinds}
    BY <1>5, <1>6, <1>7, <2>1, ShrinkingShows
  <2> QED
    BY <1>7, <2>2
<1>9. e \in InHand /\ e.task = key
  BY <1>1, <1>4, <1>5, Hands
<1>10. ASSUME NEW o \in InHand
       PROVE  /\ (o.task = key => o.card \in rest) <=> o # e
              /\ o.task = key => o.kind # "marked"
  <2>1. PICK k, d : /\ k \in ActiveKeys /\ d \in CardsOf(k)
                    /\ o = [task |-> k, card |-> d, kind |-> tasks[k].kinds[d]]
    BY Hands
  <2> QED
    BY <1>1, <1>2, <1>4, <1>5, <2>1
<1>11. InHand' = InHand \ {e}
  BY <1>8, <1>10
<1> QED
  BY <1>8, <1>9, <1>10, <1>11 DEF Hand!TakeBackOne

\* A commit hands out what the build made: the cards of its parts, which are free,
\* of the kinds that suit them now.
LEMMA CommitShows ==
  ASSUME HandInv, NEW r \in Requests, tx[r].step = "parts", CardsMade(r) # {}, Commit(r)
  PROVE  \E k \in Commands : Hand!HandOut(k)
<1> PICK t : t = tx[r]
  OBVIOUS
<1> DEFINE k       == t.command
           made(p) == DOMAIN t.made[p]
           cards   == MadeBy(t)
           part(c) == CHOOSE p \in Parts : c \in made(p)
           taskOf  == [c \in cards |-> <<k, part(c)>>]
           build   == IF IsBatch(t) THEN {k} \X BatchParts ELSE {<<k, "daily">>}
<1>1. /\ PlanFits(t) /\ ReadingsStand(t) /\ DailyFits(t) /\ KindsKnown(t)
      /\ t.step = "parts" /\ k \in Commands /\ cards # {} /\ cards \subseteq Cards
  BY RunningKnown DEF CardsMade, MadeBy, PlanFits
<1>2. ASSUME NEW c \in cards PROVE part(c) \in Parts /\ c \in made(part(c))
  BY DEF MadeBy
<1>3. ASSUME NEW p \in Parts, NEW c \in made(p) PROVE c \in cards /\ part(c) = p
  <2>1. c \in cards
    BY DEF MadeBy
  <2>2. part(c) \in Parts /\ c \in made(part(c))
    BY <1>2, <2>1
  <2> QED
    BY <1>1, <2>1, <2>2 DEF PlanFits
<1>4. ASSUME NEW p \in Parts, made(p) # {}
      PROVE  IF IsBatch(t) THEN p \in BatchParts ELSE p = "daily"
  <2>1. t.made[p] # <<>>
    BY <1>4
  <2> QED
    BY <1>1, <2>1 DEF PlanFits, DailyFits, Parts
<1>5. build \in Hand!Builds(k)
  BY DEF Hand!Builds, Hand!BatchParts, BatchParts
<1>6. build \subseteq Keys /\ \A key \in build : tasks[key] = NoTask
  BY <1>1 DEF ReadingsStand, DailyFits, Keys, Parts
<1>7. build \cap MadeTasks = {}
  BY <1>6 DEF MadeTasks
<1>8. taskOf \in [cards -> build]
  <2> SUFFICES ASSUME NEW c \in cards PROVE <<k, part(c)>> \in build
    OBVIOUS
  <2> PICK p : p = part(c)
    OBVIOUS
  <2>1. IF IsBatch(t) THEN p \in BatchParts ELSE p = "daily"
    BY <1>2, <1>4
  <2> HIDE DEF part
  <2>2. <<k, p>> \in build
    BY <2>1
  <2> QED
    BY <2>2
<1>9. cards \in SUBSET (Cards \ Hand!CardsOut)
  BY <1>1, Hands DEF ReadingsStand
<1>10. ASSUME NEW c \in cards
       PROVE  /\ Hand!Suits(part(c), c)
              /\ Hand!KindOf(part(c), c) = t.made[part(c)][c]
  <2> PICK p : p = part(c)
    OBVIOUS
  <2> PICK kind : kind = t.made[p][c]
    OBVIOUS
  <2>1. p \in Parts /\ c \in made(p)
    BY <1>2
  <2>2. FitsPart(p, c, kind) /\ Accepts(kind, memory[c])
    BY <1>1, <2>1 DEF KindsKnown, ReadingsStand
  <2> HIDE DEF part, made
  <2>3. p = "daily" \/ p = "extra" \/ (p \in Sections /\ p # "daily" /\ p # "extra")
    BY <2>1, PlannerAssumption DEF Parts, BatchParts
  <2>4. CASE p = "daily"
    <3>1. kind \in {"new", "due_review"}
      BY <2>2, <2>4 DEF FitsPart
    <3>2. memory[c] = (IF kind = "new" THEN "none" ELSE "due")
      BY <2>2, <3>1 DEF Accepts
    <3> QED
      BY <2>4, <3>1, <3>2 DEF Hand!Suits, Hand!KindOf
  <2>5. CASE p = "extra"
    <3>1. kind \in {"new", "manual_review"}
      BY <2>2, <2>5 DEF FitsPart
    <3>2. kind = "new" <=> memory[c] = "none"
      BY <2>2, <3>1 DEF Accepts
    <3> QED
      BY <2>5, <3>1, <3>2 DEF Hand!Suits, Hand!KindOf
  <2>6. CASE p \in Sections /\ p # "daily" /\ p # "extra"
    <3>1. kind = "new" /\ SectionOf[c] = p
      BY <2>2, <2>6 DEF FitsPart
    <3>2. memory[c] = "none"
      BY <2>2, <3>1 DEF Accepts
    <3> QED
      BY <2>6, <3>1, <3>2 DEF Hand!Suits, Hand!KindOf
  <2> QED
    BY <2>3, <2>4, <2>5, <2>6
<1>11. ASSUME NEW c \in cards
       PROVE  /\ taskOf[c] = <<k, part(c)>> /\ taskOf[c] \in Keys
              /\ Hand!Suits(taskOf[c][2], c)
              /\ Hand!Entry(taskOf[c], c) =
                   [task |-> taskOf[c], card |-> c, kind |-> t.made[part(c)][c]]
  <2>1. taskOf[c] = <<k, part(c)>> /\ taskOf[c][2] = part(c)
    OBVIOUS
  <2>2. part(c) \in Parts /\ k \in Commands
    BY <1>1, <1>2
  <2> HIDE DEF taskOf, part, k
  <2>3. taskOf[c] \in Keys
    BY <2>1, <2>2 DEF Keys
  <2> QED
    BY <1>10, <2>1, <2>3 DEF Hand!Entry
<1> DEFINE isNew(key) == key[1] = k /\ t.made[key[2]] # <<>>
<1>12. /\ memory' = memory /\ DOMAIN tasks' = Keys
       /\ \A key \in Keys :
            tasks'[key] = IF isNew(key)
                          THEN [status |-> "active", kinds |-> t.made[key[2]]]
                          ELSE tasks[key]
  BY DEF Commit
<1>13. ASSUME NEW key \in Keys, isNew(key)
       PROVE  /\ key[2] \in Parts /\ key = <<k, key[2]>> /\ made(key[2]) # {}
              /\ tasks'[key].status = "active" /\ tasks'[key].kinds = t.made[key[2]]
              /\ key \in ActiveKeys' /\ CardsOf(key)' = made(key[2])
              /\ key \in build
  <2>1. key[2] \in Parts /\ key = <<k, key[2]>>
    BY <1>13 DEF Keys
  <2>2. made(key[2]) # {}
    BY <1>1, <1>13, <2>1 DEF KindsKnown
  <2>3. tasks'[key] = [status |-> "active", kinds |-> t.made[key[2]]]
    BY <1>12, <1>13
  <2>4. key \in build
    BY <1>4, <2>1, <2>2
  <2> HIDE DEF made
  <2>5. tasks'[key].status = "active" /\ tasks'[key].kinds = t.made[key[2]]
    BY <2>3
  <2> QED
    BY <2>1, <2>2, <2>4, <2>5 DEF ActiveKeys, CardsOf, made
<1>14. ASSUME NEW c \in cards PROVE isNew(taskOf[c])
  <2>1. part(c) \in Parts /\ c \in made(part(c)) /\ taskOf[c] = <<k, part(c)>>
    BY <1>2
  <2> HIDE DEF part, taskOf
  <2>2. t.made[part(c)] # <<>>
    BY <2>1
  <2> QED
    BY <2>1, <2>2
<1>15. ASSUME NEW key \in Keys, ~isNew(key)
       PROVE  /\ tasks'[key] = tasks[key] /\ CardsOf(key)' = CardsOf(key)
              /\ key \in ActiveKeys' <=> key \in ActiveKeys
  BY <1>12, <1>15 DEF ActiveKeys, CardsOf
<1> HIDE DEF isNew, build, taskOf, part, made, k, cards
<1>16. MadeTasks' = MadeTasks \cup {taskOf[c] : c \in cards}
  <2>1. ASSUME NEW key \in MadeTasks' PROVE key \in MadeTasks \cup {taskOf[c] : c \in cards}
    <3>1. key \in Keys /\ tasks'[key] # NoTask
      BY DEF MadeTasks
    <3>2. CASE isNew(key)
      <4>1. PICK c : c \in made(key[2])
        BY <1>13, <3>1, <3>2
      <4>2. c \in cards /\ part(c) = key[2]
        BY <1>3, <1>13, <3>1, <3>2, <4>1
      <4>3. taskOf[c] = <<k, part(c)>> /\ key = <<k, key[2]>>
        BY <1>11, <1>13, <3>1, <3>2, <4>2
      <4> QED
        BY <4>2, <4>3
    <3>3. CASE ~isNew(key)
      BY <1>15, <3>1, <3>3 DEF MadeTasks
    <3> QED
      BY <3>2, <3>3
  <2>2. ASSUME NEW key \in MadeTasks PROVE key \in MadeTasks'
    <3>1. key \in Keys /\ ~isNew(key)
      BY <1>7, <1>13 DEF MadeTasks
    <3> QED
      BY <1>15, <3>1 DEF MadeTasks
  <2>3. ASSUME NEW c \in cards PROVE taskOf[c] \in MadeTasks'
    <3>1. taskOf[c] \in Keys /\ tasks'[taskOf[c]].status = "active"
      BY <1>11, <1>13, <1>14
    <3> QED
      BY <3>1 DEF MadeTasks, NoTask
  <2> QED
    BY <2>1, <2>2, <2>3
<1>17. InHand' = InHand \cup {Hand!Entry(taskOf[c], c) : c \in cards}
  <2>1. ASSUME NEW e \in InHand'
        PROVE  e \in InHand \cup {Hand!Entry(taskOf[c], c) : c \in cards}
    <3>1. PICK key, c : /\ key \in ActiveKeys' /\ c \in CardsOf(key)'
                        /\ e = [task |-> key, card |-> c, kind |-> tasks'[key].kinds[c]]
      BY HandsNext
    <3>2. key \in Keys
      BY <3>1 DEF ActiveKeys
    <3>3. CASE isNew(key)
      <4>1. c \in cards /\ part(c) = key[2]
        BY <1>3, <1>13, <3>1, <3>2, <3>3
      <4>2. taskOf[c] = key /\ tasks'[key].kinds[c] = t.made[part(c)][c]
        BY <1>11, <1>13, <3>2, <3>3, <4>1
      <4>3. e = Hand!Entry(taskOf[c], c)
        BY <1>11, <3>1, <4>1, <4>2
      <4> QED
        BY <4>1, <4>3
    <3>4. CASE ~isNew(key)
      BY <1>15, <3>1, <3>2, <3>4, Hands
    <3> QED
      BY <3>3, <3>4
  <2>2. ASSUME NEW e \in InHand PROVE e \in InHand'
    <3>1. PICK key, c : /\ key \in ActiveKeys /\ c \in CardsOf(key)
                        /\ e = [task |-> key, card |-> c, kind |-> tasks[key].kinds[c]]
      BY Hands
    <3>2. key \in Keys /\ ~isNew(key)
      BY <1>7, <1>13, <3>1, Hands DEF ActiveKeys
    <3> QED
      BY <1>15, <3>1, <3>2, HandsNext
  <2>3. ASSUME NEW c \in cards PROVE Hand!Entry(taskOf[c], c) \in InHand'
    <3> PICK key : key = taskOf[c]
      OBVIOUS
    <3>1. /\ key \in Keys /\ isNew(key) /\ key = <<k, part(c)>>
          /\ Hand!Entry(key, c) =
               [task |-> key, card |-> c, kind |-> t.made[part(c)][c]]
      BY <1>11, <1>14
    <3>2. key[2] = part(c)
      BY <3>1
    <3>3. /\ key \in ActiveKeys' /\ CardsOf(key)' = made(part(c))
          /\ tasks'[key].kinds = t.made[part(c)]
      BY <1>13, <3>1, <3>2
    <3>4. c \in made(part(c))
      BY <1>2
    <3> QED
      BY <3>1, <3>3, <3>4, HandsNext
  <2> QED
    BY <2>1, <2>2, <2>3
<1>18. /\ \E bundle \in Hand!Builds(k) :
             /\ bundle \cap MadeTasks = {}
             /\ \E given \in SUBSET (Cards \ Hand!CardsOut) :
                  \E of \in [given -> bundle] :
                    /\ given # {}
                    /\ \A c \in given : Hand!Suits(of[c][2], c)
                    /\ MadeTasks' = MadeTasks \cup {of[c] : c \in given}
                    /\ InHand' = InHand \cup {Hand!Entry(of[c], c) : c \in given}
                    /\ UNCHANGED memory
  BY <1>1, <1>5, <1>7, <1>8, <1>9, <1>11, <1>12, <1>16, <1>17
<1> QED
  BY <1>1, <1>18 DEF Hand!HandOut

LEMMA BuildShows ==
  ASSUME HandInv, NEW r \in Requests, Build(r)
  PROVE  [Hand!Next]_Hand!vars
<1>1. CASE Reading(r) \/ PlanItems(r)
  BY <1>1, ReadingKnown, PlanKnown, NothingShows
<1>2. CASE \/ \E k \in Commands, cards \in SUBSET Cards, reviews \in 0..MaxReviewCards :
                BeginDaily(r, k, cards, reviews)
           \/ \E k \in Commands, sections \in SUBSET Sections, extra \in SUBSET Cards :
                BeginBatch(r, k, sections, extra)
  BY <1>2, BeginKnown, NothingShows
<1>3. CASE FinishBuild(r)
  <2>1. CASE Refuse(r)
    BY <2>1, NothingShows DEF Refuse, GoOn
  <2>2. CASE CardsMade(r) # {} /\ Commit(r)
    BY <1>3, <2>2, CommitShows DEF FinishBuild, Hand!Next
  <2> QED
    BY <1>3, <2>1, <2>2 DEF FinishBuild
<1> QED
  BY <1>1, <1>2, <1>3 DEF Build, Reading

LEMMA StepShows ==
  ASSUME HandInv, [Next]_vars
  PROVE  [Hand!Next]_Hand!vars
<1>1. CASE \E r \in Requests : Build(r)
  BY <1>1, BuildShows
<1>2. ASSUME NEW key \in Keys, NEW c \in Cards, MarkFirst(key, c) PROVE Hand!Next
  BY <1>2, MarkFirstShows DEF Hand!Next
<1>3. ASSUME NEW c \in Cards, BecomeDue(c) PROVE Hand!Next
  BY <1>3, BecomeDueShows DEF Hand!Next
<1>4. ASSUME NEW key \in Keys, Complete(key) \/ CancelTask(key) PROVE Hand!Next
  BY <1>4, EndingShows DEF Hand!Next
<1>5. ASSUME NEW key \in Keys, NEW c \in Cards, RemoveUnstartedTaskItem(key, c)
      PROVE  Hand!Next
  BY <1>5, RemovalShows DEF Hand!Next
<1>6. CASE UNCHANGED vars
  BY <1>6, NothingShows DEF vars
<1> QED
  BY <1>1, <1>2, <1>3, <1>4, <1>5, <1>6 DEF Next

\* Whatever goes on between the queries of a build, it is as if its tasks were made in
\* one look at its end: TaskPlanner implements CardsInHand.
THEOREM CardsAreHandedOut == Spec => HandsCardsOut
<1>1. Init => Hand!Init
  <2> SUFFICES ASSUME Init PROVE Hand!Init
    OBVIOUS
  <2>1. /\ memory \in [Cards -> {"none", "due", "later"}]
        /\ \A key \in Keys : tasks[key] = NoTask
    BY DEF Init
  <2>2. MadeTasks = {} /\ ActiveKeys = {}
    BY <2>1 DEF MadeTasks, ActiveKeys, NoTask
  <2> QED
    BY <2>1, <2>2 DEF InHand, Hand!Init
<1>2. Spec => []HandInv
  BY InitHandInv, StepKeepsHandInv, PTL DEF Spec
<1>3. HandInv /\ [Next]_vars => [Hand!Next]_Hand!vars
  BY StepShows
<1> QED
  BY <1>1, <1>2, <1>3, PTL DEF Spec, HandsCardsOut, Hand!Spec

=============================================================================
