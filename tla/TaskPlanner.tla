----------------------------- MODULE TaskPlanner ------------------------------
(***************************************************************************)
(* How the cards of a child come into tasks: builds of a daily task and of *)
(* a batch of curriculum sections, while the tasks made earlier are marked,*)
(* finished, cancelled or lose a word.                                     *)
(*                                                                         *)
(* Source: src/modules/dictation/task-service.ts.  A build is one          *)
(* transaction under the lock of the child's row, but each of its queries  *)
(* sees what others have committed by then, and those that work on tasks   *)
(* do not take that lock.  The tasks it made become visible at its end.    *)
(* What it makes is where DictationSession begins.                         *)
(***************************************************************************)
EXTENDS Naturals, FiniteSets, Functions

CONSTANTS
  Requests,  \* builds under way at the same time
  Commands,  \* ids the builds are asked for with
  Cards,     \* of one subject
  Sections,  \* of the textbook
  SectionOf, \* the section of each card
  MaxReviewCards

ASSUME PlannerAssumption ==
  /\ {"extra", "daily", "none"} \cap Sections = {}
  /\ SectionOf \in [Cards -> Sections]
  /\ MaxReviewCards \in Nat
  /\ IsFiniteSet(Cards)

\* The ids of tasks are derived from the command: one for a daily task, and one for
\* each section of a batch and its extra practice.
BatchParts == Sections \cup {"extra"}
Parts == BatchParts \cup {"daily"}
Keys == Commands \X Parts

VARIABLES
  memory, \* child_card_states: "none", "due", or "later"
  tasks,  \* learning_tasks by command_id, with the kinds of their items
  tx      \* the builds

vars == <<memory, tasks, tx>>

\* No row, and one completed or cancelled.
NoTask == [status |-> "none", kinds |-> <<>>]
Over   == [status |-> "over", kinds |-> <<>>]

Idle ==
  [step |-> "idle", command |-> "none", part |-> "none", wanted |-> {},
   reviews |-> 0, active |-> {}, due |-> {}, made |-> [p \in Parts |-> <<>>],
   sections |-> {}, extra |-> {}, lists |-> 0, taken |-> {}]

Init ==
  /\ memory \in [Cards -> {"none", "due", "later"}]
  /\ tasks = [key \in Keys |-> NoTask]
  /\ tx = [r \in Requests |-> Idle]

ActiveKeys == {key \in Keys : tasks[key].status = "active"}

CardsOf(key) == DOMAIN tasks[key].kinds

ActiveCards == UNION {CardsOf(key) : key \in ActiveKeys}

StartedCards == {c \in Cards : memory[c] # "none"}

\* The parts of a batch that are built already, in sight of this build only.
CardsMade(r) == UNION {DOMAIN tx[r].made[p] : p \in Parts}

GoOn(r, state) ==
  /\ tx' = [tx EXCEPT ![r] = state]
  /\ UNCHANGED <<memory, tasks>>

Refuse(r) == GoOn(r, Idle)

Commit(r) ==
  /\ tasks' = [key \in Keys |->
                IF key[1] = tx[r].command /\ tx[r].made[key[2]] # <<>>
                THEN [status |-> "active", kinds |-> tx[r].made[key[2]]]
                ELSE tasks[key]]
  /\ tx' = [tx EXCEPT ![r] = Idle]
  /\ UNCHANGED memory

-----------------------------------------------------------------------------
(***************************************************************************)
(* The build of a task.                                                    *)
(***************************************************************************)

\* Fault: the child is not locked.
FaultyChildIsFree == TRUE

ChildIsFree == \A r \in Requests : tx[r] = Idle

\* A command that has its task returns it, or is refused if it asks for another.
BeginDaily(r, k, cards, reviews) ==
  /\ tx[r] = Idle
  /\ ChildIsFree
  /\ tasks[<<k, "daily">>] = NoTask
  /\ GoOn(r, [Idle EXCEPT !.step = "created", !.command = k, !.part = "daily",
                          !.wanted = cards, !.reviews = reviews])

ReadActive(r) ==
  /\ tx[r].step = "created"
  /\ GoOn(r, [tx[r] EXCEPT !.step = "active",
                           !.active = ActiveCards \cup CardsMade(r)])

\* As many of the due cards as were asked for, the longest due first: which these
\* are is left open.
ReadDue(r) ==
  /\ tx[r].step = "active"
  /\ LET due == {c \in Cards : memory[c] = "due"} \ tx[r].active IN
       \E chosen \in SUBSET due :
         /\ \/ Cardinality(chosen) = tx[r].reviews
            \/ chosen = due /\ Cardinality(due) <= tx[r].reviews
         /\ GoOn(r, [tx[r] EXCEPT !.step = "due", !.due = chosen])

Selected(r) == tx[r].wanted \ tx[r].active

\* Cards of active tasks are left out, but extra practice insists on all its cards;
\* only extra practice takes cards the child has begun to learn.
IsRefused(r) ==
  \/ tx[r].part = "extra" /\ Selected(r) # tx[r].wanted
  \/ tx[r].part # "extra" /\ Selected(r) \cap StartedCards # {}
  \/ tx[r].due \cup Selected(r) = {}

KindOf(r, c) ==
  CASE c \in tx[r].due                -> "due_review"
    [] c \in StartedCards \ tx[r].due -> "manual_review"
    [] OTHER                          -> "new"

Planned(r) == [c \in tx[r].due \cup Selected(r) |-> KindOf(r, c)]

PlanItems(r) ==
  /\ tx[r].step = "due"
  /\ \/ IsRefused(r) /\ Refuse(r)
     \/ /\ ~IsRefused(r)
        /\ GoOn(r, [tx[r] EXCEPT !.step = "parts", !.part = "none",
                                 !.wanted = {}, !.active = {}, !.due = {},
                                 !.made[tx[r].part] = Planned(r)])

-----------------------------------------------------------------------------
(***************************************************************************)
(* The build of a batch: a task for each section, of its cards that are    *)
(* neither in a task nor begun, and one of extra practice.                 *)
(***************************************************************************)

\* Fault: tasks of the same batch are not looked for.
FaultyIsNewBatch(k) == TRUE

IsNewBatch(k) == \A p \in BatchParts : tasks[<<k, p>>] = NoTask

BeginBatch(r, k, sections, extra) ==
  /\ sections # {} \/ extra # {}
  /\ tx[r] = Idle
  /\ ChildIsFree
  /\ IsNewBatch(k)
  /\ GoOn(r, [Idle EXCEPT !.step = "lists", !.command = k,
                          !.sections = sections, !.extra = extra])

\* Fault: the cards begun are read before those in tasks.
FaultyLists == <<StartedCards, ActiveCards>>

Lists == <<ActiveCards, StartedCards>>

ReadList(r) ==
  /\ tx[r].step = "lists"
  /\ LET n == tx[r].lists + 1 IN
       GoOn(r, [tx[r] EXCEPT !.lists = n,
                             !.taken = @ \cup Lists[n],
                             !.step = IF n = 2 THEN "parts" ELSE "lists"])

\* A section without cards gets no task.  The code goes by the order of the book;
\* here any will do.
BuildSection(r, s) ==
  /\ tx[r].step = "parts"
  /\ s \in tx[r].sections
  /\ LET cards == {c \in Cards : SectionOf[c] = s} \ tx[r].taken
         rest  == [tx[r] EXCEPT !.sections = @ \ {s}]
     IN  \/ cards = {} /\ GoOn(r, rest)
         \/ /\ cards # {}
            /\ GoOn(r, [rest EXCEPT !.step = "created", !.part = s,
                                    !.wanted = cards])

BuildExtra(r) ==
  /\ tx[r].step = "parts"
  /\ tx[r].sections = {}
  /\ tx[r].extra # {}
  /\ GoOn(r, [tx[r] EXCEPT !.step = "created", !.part = "extra",
                           !.wanted = tx[r].extra, !.extra = {}])

\* The tasks are there at the end of the transaction.
FinishBuild(r) ==
  /\ tx[r].step = "parts"
  /\ tx[r].sections = {}
  /\ tx[r].extra = {}
  /\ \/ CardsMade(r) = {} /\ Refuse(r)
     \/ CardsMade(r) # {} /\ Commit(r)

-----------------------------------------------------------------------------
(***************************************************************************)
(* What happens to tasks and cards meanwhile.                              *)
(***************************************************************************)

Accepts(kind, state) ==
  CASE kind = "new"           -> state = "none"
    [] kind = "due_review"    -> state = "due"
    [] kind = "manual_review" -> state # "none"
    [] OTHER                  -> FALSE

\* The first mark of a card, whichever it is, sets the time it is due next.
MarkFirst(key, c) ==
  /\ key \in ActiveKeys
  /\ c \in CardsOf(key)
  /\ Accepts(tasks[key].kinds[c], memory[c])
  /\ memory' = [memory EXCEPT ![c] = "later"]
  /\ tasks' = [tasks EXCEPT ![key].kinds[c] = "marked"]
  /\ UNCHANGED tx

BecomeDue(c) ==
  /\ memory[c] = "later"
  /\ memory' = [memory EXCEPT ![c] = "due"]
  /\ UNCHANGED <<tasks, tx>>

Complete(key) ==
  /\ key \in ActiveKeys
  /\ \A c \in CardsOf(key) : tasks[key].kinds[c] = "marked"
  /\ tasks' = [tasks EXCEPT ![key] = Over]
  /\ UNCHANGED <<memory, tx>>

CancelTask(key) ==
  /\ key \in ActiveKeys
  /\ tasks' = [tasks EXCEPT ![key] = Over]
  /\ UNCHANGED <<memory, tx>>

\* Only before the start, so before any mark; the last card takes the task with it.
RemoveUnstartedTaskItem(key, c) ==
  /\ key \in ActiveKeys
  /\ c \in CardsOf(key)
  /\ \A other \in CardsOf(key) : tasks[key].kinds[other] # "marked"
  /\ LET rest == CardsOf(key) \ {c} IN
       tasks' = [tasks EXCEPT ![key] =
                   IF rest = {} THEN Over
                   ELSE [status |-> "active", kinds |-> Restrict(@.kinds, rest)]]
  /\ UNCHANGED <<memory, tx>>

-----------------------------------------------------------------------------

Build(r) ==
  \/ \E k \in Commands, cards \in SUBSET Cards, reviews \in 0..MaxReviewCards :
       BeginDaily(r, k, cards, reviews)
  \/ ReadActive(r)
  \/ ReadDue(r)
  \/ PlanItems(r)
  \/ \E k \in Commands, sections \in SUBSET Sections, extra \in SUBSET Cards :
       BeginBatch(r, k, sections, extra)
  \/ ReadList(r)
  \/ \E s \in Sections : BuildSection(r, s)
  \/ BuildExtra(r)
  \/ FinishBuild(r)

Next ==
  \/ \E r \in Requests : Build(r)
  \/ \E key \in Keys, c \in Cards : MarkFirst(key, c)
  \/ \E c \in Cards : BecomeDue(c)
  \/ \E key \in Keys : Complete(key)
  \/ \E key \in Keys : CancelTask(key)
  \/ \E key \in Keys, c \in Cards : RemoveUnstartedTaskItem(key, c)

Spec == Init /\ [][Next]_vars

-----------------------------------------------------------------------------
(***************************************************************************)
(* Properties.                                                             *)
(***************************************************************************)

\* A card is in one active task of the child at most, whatever builds, marks and
\* cancellations meet: two tasks would each demand its first mark.
CardInOneTask ==
  \A key \in ActiveKeys, other \in ActiveKeys :
    CardsOf(key) \cap CardsOf(other) # {} => key = other

\* The kind a card was given when its task was planned is still the one the review
\* service accepts when the mark comes, however many other tasks were marked since:
\* otherwise the marks of the whole list would be refused.
KindsFit ==
  \A key \in ActiveKeys : \A c \in CardsOf(key) :
    tasks[key].kinds[c] # "marked" => Accepts(tasks[key].kinds[c], memory[c])

\* Each card is handed out once, CardInOneTask, and as what it still is, KindsFit.
HandedOutOnce == CardInOneTask /\ KindsFit

\* The cards picked for a section of a batch are still free and new when its task
\* is planned, whatever was marked or finished in between: a batch is not refused
\* for what it picked itself.
SectionStaysNew ==
  \A r \in Requests :
    tx[r].part \in Sections =>
      tx[r].wanted \cap (ActiveCards \cup StartedCards \cup CardsMade(r)) = {}

\* The tasks of a batch are made all at once, also when its command is repeated
\* while they are being made or after some of them were cancelled.
BatchBuiltOnce ==
  [][\A k \in Commands :
       (\E p \in BatchParts : tasks[<<k, p>>] # NoTask) =>
         \A p \in BatchParts :
           tasks[<<k, p>>] = NoTask => tasks'[<<k, p>>] = NoTask]_vars

-----------------------------------------------------------------------------
(***************************************************************************)
(* What is promised of all this, CardsInHand: a build is in sight from its *)
(* end on, when its tasks are there.                                       *)
(***************************************************************************)

MadeTasks == {key \in Keys : tasks[key] # NoTask}

InHand ==
  UNION {{[task |-> key, card |-> c, kind |-> tasks[key].kinds[c]] : c \in CardsOf(key)}
         : key \in ActiveKeys}

Hand == INSTANCE CardsInHand WITH made <- MadeTasks, inHand <- InHand

\* Whatever is marked, finished, cancelled or removed between the queries of a build,
\* what it makes is as if it had been made at its end in one look: cards that are free
\* then, each once and of the kind it is then, and all the tasks of a batch or, when
\* the command is repeated, none.
HandsCardsOut == Hand!Spec

=============================================================================
