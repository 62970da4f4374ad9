------------------------------- MODULE OcrDraft -------------------------------
(***************************************************************************)
(* A picture that a guardian uploads, the lines that workers read in it,   *)
(* and the cards that the guardian makes of them.                          *)
(*                                                                         *)
(* Source: src/modules/learning-content/ocr-upload-service.ts, runOcr and  *)
(* runOnce of src/modules/jobs/worker.ts, ocr-draft-service.ts and         *)
(* confirmOcrDraft of src/modules/learning-content/service.ts, and the     *)
(* form of content-entry-form.tsx.  Any running job may be claimed again:  *)
(* when a lease ends is the matter of JobQueue.  A line is named by its    *)
(* source_order, of which a draft has one.                                 *)
(***************************************************************************)
EXTENDS Naturals, Sequences, FiniteSets

CONSTANTS
  Workers,
  Pages,       \* the forms that show the draft
  Confirms,    \* confirmations the server handles at the same time
  Texts,       \* what a picture can be read as
  Answers,     \* what the guardian can write on a card
  NoCard,
  MaxLines,    \* bound: of the lines of one reading
  MaxAttempts

\* A provider numbers the lines of a reading from zero: azure-ocr-provider.ts.  The
\* schema of the lines asks for less, and two readings without a common number would
\* both be kept.
Readings == [text : Texts, size : 0..MaxLines]

ASSUME OcrAssumption ==
  /\ MaxLines \in Nat /\ MaxAttempts \in Nat \ {0}
  /\ NoCard \notin Nat

VARIABLES
  source, \* the picture among the private media
  job,    \* run_ocr: its status, its attempts and the worker of the last one
  lines,  \* ocr_draft_lines
  cards,  \* learning_cards made of this draft, in the order of their insertion
  recog,  \* where each worker is
  form,   \* the lines each page shows, and the confirmation it awaits
  confirm \* the confirmations on the server, and the answers they gave

ocrVars == <<source, job, lines, cards, recog, form, confirm>>

Sitting == [step |-> "sitting"]
Blank   == [lines |-> {}, awaits |-> {}]
Unused  == [step |-> "unused"]

OcrInit ==
  /\ source = "none"
  /\ job = [status |-> "none", attempts |-> 0]
  /\ lines = {} /\ cards = <<>>
  /\ recog = [w \in Workers |-> Sitting]
  /\ form = [p \in Pages |-> Blank]
  /\ confirm = [q \in Confirms |-> Unused]

-----------------------------------------------------------------------------
(***************************************************************************)
(* The upload stores the picture before it creates draft and job.          *)
(***************************************************************************)

PutSource ==
  /\ source = "none"
  /\ source' = "kept"
  /\ UNCHANGED <<job, lines, cards, recog, form, confirm>>

CreateDraft ==
  /\ source = "kept"
  /\ job.status = "none"
  /\ job' = [status |-> "queued", attempts |-> 0]
  /\ UNCHANGED <<source, lines, cards, recog, form, confirm>>

\* The picture of a draft that was not created is removed; also when it was, but the
\* answer to the commit was lost.  A picture is over after seven days as well.
LoseSource ==
  /\ source = "kept"
  /\ source' = "removed"
  /\ UNCHANGED <<job, lines, cards, recog, form, confirm>>

-----------------------------------------------------------------------------
(***************************************************************************)
(* The recognition.                                                        *)
(***************************************************************************)

GoTo(w, state) == recog' = [recog EXCEPT ![w] = state]

MoveOn(w, state) ==
  /\ GoTo(w, state)
  /\ UNCHANGED <<source, job, lines, cards, form, confirm>>

Claim(w) ==
  /\ recog[w] = Sitting
  /\ job.status \in {"queued", "running"}
  /\ job.attempts < MaxAttempts
  /\ job' = [status |-> "running", attempts |-> job.attempts + 1]
  /\ GoTo(w, [step |-> "claimed", attempt |-> job.attempts + 1])
  /\ UNCHANGED <<source, lines, cards, form, confirm>>

\* The last attempt outlives its lease.
Expire ==
  /\ job.status = "running"
  /\ job.attempts = MaxAttempts
  /\ job' = [job EXCEPT !.status = "failed"]
  /\ UNCHANGED <<source, lines, cards, recog, form, confirm>>

End(w, result) == [step |-> result, attempt |-> recog[w].attempt]

FindLines(w) ==
  /\ recog[w].step = "claimed"
  /\ MoveOn(w, IF lines # {} THEN End(w, "succeeded") ELSE End(w, "reading"))

\* Nothing read is nothing written, and no error.
ReadPicture(w, reading) ==
  /\ recog[w].step = "reading"
  /\ source = "kept"
  /\ MoveOn(w, IF reading.size = 0
                 THEN End(w, "succeeded")
                 ELSE [step |-> "read", attempt |-> recog[w].attempt, reading |-> reading])

\* The picture is gone, or the provider fails.
FailToRead(w) ==
  /\ recog[w].step = "reading"
  /\ MoveOn(w, End(w, "failed"))

\* The query locks the lines it finds.  When it finds none it locks nothing, and
\* another worker may find none as well.
CheckAgain(w) ==
  /\ recog[w].step = "read"
  /\ MoveOn(w, IF lines # {} THEN End(w, "succeeded")
                             ELSE [recog[w] EXCEPT !.step = "checked"])

LinesOf(reading) ==
  {[order |-> i, text |-> reading.text, status |-> "draft", card |-> NoCard] :
     i \in 0..(reading.size - 1)}

HoldsDraft(q) == confirm[q].step = "locked"

Orders == {l.order : l \in lines}

\* Fault: no line is refused for its number.
FaultyInsertLines(w) ==
  /\ recog[w].step = "checked"
  /\ \A q \in Confirms : ~HoldsDraft(q)
  /\ lines' = lines \cup LinesOf(recog[w].reading)
  /\ GoTo(w, End(w, "succeeded"))
  /\ UNCHANGED <<source, job, cards, form, confirm>>

\* All lines or none: one whose number the draft has fails the insertion.  Its foreign
\* key needs the row of the draft, which a confirmation holds.
InsertLines(w) ==
  /\ recog[w].step = "checked"
  /\ \A q \in Confirms : ~HoldsDraft(q)
  /\ IF 0..(recog[w].reading.size - 1) \cap Orders # {}
       THEN MoveOn(w, End(w, "failed"))
       ELSE /\ lines' = lines \cup LinesOf(recog[w].reading)
            /\ GoTo(w, End(w, "succeeded"))
            /\ UNCHANGED <<source, job, cards, form, confirm>>

\* Only the attempt that still has the job says how it ended.
Report(w) ==
  /\ recog[w].step \in {"succeeded", "failed"}
  /\ job' =
       IF job.status # "running" \/ job.attempts # recog[w].attempt THEN job
       ELSE IF recog[w].step = "succeeded" THEN [job EXCEPT !.status = "succeeded"]
       ELSE IF job.attempts = MaxAttempts THEN [job EXCEPT !.status = "failed"]
       ELSE [job EXCEPT !.status = "queued"]
  /\ GoTo(w, Sitting)
  /\ UNCHANGED <<source, lines, cards, form, confirm>>

-----------------------------------------------------------------------------
(***************************************************************************)
(* The form.                                                               *)
(***************************************************************************)

Finalized == lines # {} /\ \A l \in lines : l.status # "draft"
Untouched == \A l \in lines : l.status = "draft"

\* The status getDraft tells.
DraftStatus ==
  CASE Finalized -> "finalized"
    [] ~Finalized /\ (~Untouched \/ job.status = "failed") -> "failed"
    [] Untouched /\ ~Finalized /\ job.status = "succeeded" ->
         IF lines = {} THEN "empty" ELSE "ready"
    [] OTHER -> job.status

\* The page asks again every second until the status is settled, and shows the lines
\* of a draft that is ready.
LoadDraft(p) ==
  /\ form[p] = Blank
  /\ DraftStatus = "ready"
  /\ form' = [form EXCEPT ![p].lines = Orders]
  /\ UNCHANGED <<source, job, lines, cards, recog, confirm>>

\* Each line the page shows is dropped or gets an answer.
Decisions(orders) == [orders -> Answers \cup {NoCard}]

PressConfirm(p, q, decision) ==
  /\ form[p].lines # {} /\ form[p].awaits = {}
  /\ confirm[q] = Unused
  /\ decision \in Decisions(form[p].lines)
  /\ confirm' = [confirm EXCEPT ![q] = [step |-> "sent", decision |-> decision]]
  /\ form' = [form EXCEPT ![p].awaits = {q}]
  /\ UNCHANGED <<source, job, lines, cards, recog>>

HearOutcome(p, q) ==
  /\ q \in form[p].awaits
  /\ confirm[q].step \in {"ok", "refused"}
  /\ form' = [form EXCEPT ![p] = IF confirm[q].step = "ok" THEN Blank
                                 ELSE [form[p] EXCEPT !.awaits = {}]]
  /\ UNCHANGED <<source, job, lines, cards, recog, confirm>>

\* The request breaks off: the form stays, to be sent again as it is or changed.
BreakOff(p) ==
  /\ form[p].awaits # {}
  /\ form' = [form EXCEPT ![p].awaits = {}]
  /\ UNCHANGED <<source, job, lines, cards, recog, confirm>>

-----------------------------------------------------------------------------
(***************************************************************************)
(* The confirmation holds the row of the draft until it commits.           *)
(***************************************************************************)

LockDraft(q) ==
  /\ confirm[q].step = "sent"
  /\ \A q2 \in Confirms : ~HoldsDraft(q2)
  /\ confirm' = [confirm EXCEPT ![q].step = "locked"]
  /\ UNCHANGED <<source, job, lines, cards, recog, form>>

Chosen(decision) == {i \in DOMAIN decision : decision[i] # NoCard}

\* The lines say already what is decided now.
IsSameDecision(decision) ==
  \A l \in lines :
    IF l.order \in Chosen(decision)
      THEN l.status = "confirmed" /\ cards[l.card] = decision[l.order]
      ELSE l.status = "rejected"

\* Cards are inserted in the order of the lines on the page.
CardsOf(decision) ==
  LET chosen == Chosen(decision)
      RankOf(i) == Cardinality({j \in chosen : j <= i})
  IN  [n \in 1..Cardinality(chosen) |->
         decision[CHOOSE i \in chosen : RankOf(i) = n]]

DecidedLine(l, decision) ==
  IF l.order \in Chosen(decision)
    THEN [l EXCEPT !.status = "confirmed",
                   !.card = Len(cards) + Cardinality({j \in Chosen(decision) : j <= l.order})]
    ELSE [l EXCEPT !.status = "rejected", !.card = NoCard]

AnswerConfirm(q, step) == confirm' = [confirm EXCEPT ![q].step = step]

Finalize(q) ==
  /\ lines' = {DecidedLine(l, confirm[q].decision) : l \in lines}
  /\ cards' = cards \o CardsOf(confirm[q].decision)
  /\ AnswerConfirm(q, "ok")
  /\ UNCHANGED <<source, job, recog, form>>

\* Fault: a draft that is decided is decided again.
FaultyMayFinalize == TRUE

MayFinalize == Untouched

DecideLines(q) ==
  /\ confirm[q].step = "locked"
  /\ IF lines = {} \/ DOMAIN confirm[q].decision # Orders
       THEN /\ AnswerConfirm(q, "refused")
            /\ UNCHANGED <<source, job, lines, cards, recog, form>>
     ELSE IF MayFinalize
       THEN Finalize(q)
       ELSE /\ AnswerConfirm(q, IF IsSameDecision(confirm[q].decision) THEN "ok"
                                                                       ELSE "refused")
            /\ UNCHANGED <<source, job, lines, cards, recog, form>>

\* The server stops while it handles the confirmation.
Drop(q) ==
  /\ confirm[q].step \in {"sent", "locked"}
  /\ AnswerConfirm(q, "lost")
  /\ UNCHANGED <<source, job, lines, cards, recog, form>>

-----------------------------------------------------------------------------

Recognize(w) ==
  \/ Claim(w) \/ FindLines(w)
  \/ \E reading \in Readings : ReadPicture(w, reading)
  \/ FailToRead(w) \/ CheckAgain(w) \/ InsertLines(w) \/ Report(w)

UseForm(p) ==
  \/ LoadDraft(p) \/ BreakOff(p)
  \/ \E q \in Confirms :
       \/ \E decision \in Decisions(form[p].lines) : PressConfirm(p, q, decision)
       \/ HearOutcome(p, q)

OcrNext ==
  \/ PutSource \/ CreateDraft \/ LoseSource \/ Expire
  \/ \E w \in Workers : Recognize(w)
  \/ \E p \in Pages : UseForm(p)
  \/ \E q \in Confirms : LockDraft(q) \/ DecideLines(q) \/ Drop(q)

OcrSpec == OcrInit /\ [][OcrNext]_ocrVars

-----------------------------------------------------------------------------
(***************************************************************************)
(* Properties.                                                             *)
(***************************************************************************)

LineRows == [order : Nat, text : Texts, status : {"draft", "confirmed", "rejected"},
             card : Nat \cup {NoCard}]

\* The rows have their types.
OcrRowsOK ==
  /\ source \in {"none", "kept", "removed"}
  /\ job.status \in {"none", "queued", "running", "succeeded", "failed"}
  /\ job.attempts \in 0..MaxAttempts
  /\ lines \subseteq LineRows

\* The lines of a draft are those of one reading of the picture, all of them, though
\* two workers may read it at the same time and differently; so what a guardian was
\* shown is what the draft still has.
DraftIsOneReading ==
  /\ OcrRowsOK
  /\ lines # {} =>
       \E reading \in Readings :
         {[order |-> l.order, text |-> l.text] : l \in lines} =
         {[order |-> i, text |-> reading.text] : i \in 0..(reading.size - 1)}
  /\ \A p \in Pages : form[p].lines # {} => form[p].lines = Orders

\* A draft is decided once and as a whole: each confirmed line has a card of its own
\* and no card is without a line, and every confirmation that was answered with
\* success, repeated ones too, is what the draft says.
ConfirmedOnce ==
  /\ Finalized \/ Untouched
  /\ \A l \in lines : l.status = "confirmed" <=> l.card # NoCard
  /\ \A n \in DOMAIN cards : Cardinality({l \in lines : l.card = n}) = 1
  /\ \A l \in lines : l.card # NoCard => l.card \in DOMAIN cards
  /\ \A q \in Confirms : confirm[q].step = "ok" =>
       Finalized /\ IsSameDecision(confirm[q].decision)
=============================================================================
