----------------------------- MODULE CardsInHand ------------------------------
(***************************************************************************)
(* What a family may rely on when tasks are built, without queries and     *)
(* locks: cards are handed out to a child and come back.  A command hands  *)
(* out its daily task, or all the tasks of its batch, at once: only cards  *)
(* that are not in hand, each as what it is in that moment.                *)
(***************************************************************************)
CONSTANTS
  Commands,
  Cards,
  Sections,
  SectionOf

VARIABLES
  memory, \* of a card: "none" while it is new, then "due" or "later"
  made,   \* the tasks there ever were, each of a command and a part of it
  inHand  \* the cards in open tasks: task, card and kind

vars == <<memory, made, inHand>>

Init ==
  /\ memory \in [Cards -> {"none", "due", "later"}]
  /\ made = {}
  /\ inHand = {}

BatchParts == Sections \cup {"extra"}

\* What is built in one go: a daily task, or a batch.
Builds(k) == {{<<k, "daily">>}, {k} \X BatchParts}

CardsOut == {e.card : e \in inHand}

\* A section takes its new cards, a daily task new and due ones, extra practice any.
Suits(part, c) ==
  CASE part = "extra" -> TRUE
    [] part = "daily" -> memory[c] \in {"none", "due"}
    [] OTHER          -> memory[c] = "none" /\ SectionOf[c] = part

KindOf(part, c) ==
  IF memory[c] = "none" THEN "new"
  ELSE IF part = "daily" THEN "due_review" ELSE "manual_review"

Entry(task, c) == [task |-> task, card |-> c, kind |-> KindOf(task[2], c)]

\* Each card that is handed out comes into one task of the build.
HandOut(k) ==
  \E build \in Builds(k) :
    /\ build \cap made = {}
    /\ \E cards \in SUBSET (Cards \ CardsOut) : \E taskOf \in [cards -> build] :
         /\ cards # {}
         /\ \A c \in cards : Suits(taskOf[c][2], c)
         /\ made' = made \cup {taskOf[c] : c \in cards}
         /\ inHand' = inHand \cup {Entry(taskOf[c], c) : c \in cards}
         /\ UNCHANGED memory

\* The first mark of a card in hand sets the time it is due next.
Mark(e) ==
  /\ e \in inHand
  /\ e.kind # "marked"
  /\ memory' = [memory EXCEPT ![e.card] = "later"]
  /\ inHand' = (inHand \ {e}) \cup {[e EXCEPT !.kind = "marked"]}
  /\ UNCHANGED made

BecomeDue(c) ==
  /\ memory[c] = "later"
  /\ memory' = [memory EXCEPT ![c] = "due"]
  /\ UNCHANGED <<made, inHand>>

\* Finished, or cancelled.
TakeBack(task) ==
  /\ inHand' = {e \in inHand : e.task # task}
  /\ UNCHANGED <<memory, made>>

TakeBackOne(e) ==
  /\ \A other \in inHand : other.task = e.task => other.kind # "marked"
  /\ inHand' = inHand \ {e}
  /\ UNCHANGED <<memory, made>>

Next ==
  \/ \E e \in inHand : Mark(e) \/ TakeBackOne(e)
  \/ \E task \in made : TakeBack(task)
  \/ \E c \in Cards : BecomeDue(c)
  \/ \E k \in Commands : HandOut(k)

Spec == Init /\ [][Next]_vars

=============================================================================
