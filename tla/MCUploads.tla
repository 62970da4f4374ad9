------------------------------ MODULE MCUploads ------------------------------
(***************************************************************************)
(* What families upload, for TLC: the evidence of a homework, the          *)
(* recording of a voice for it, and a picture to be read.  The three share *)
(* no state, so each behaviour is one of one of them: the states are their *)
(* sum.                                                                    *)
(***************************************************************************)
EXTENDS Homework, OcrDraft, AudioRecording, TLC

VARIABLE part

uploadVars == <<part, homeworkVars, ocrVars, recordingVars>>

\* The second edit changes the date.
MCDateOf == [n \in 0..MaxEdits |-> IF n < 2 THEN "today" ELSE "later"]

MCSymmetry == Permutations(Requests) \cup Permutations(Files) \cup Permutations(Texts)

MCInit ==
  /\ part \in {"homework", "ocr", "recording"}
  /\ HomeworkInit /\ OcrInit /\ RecordingInit

MCNext ==
  \/ part = "homework" /\ HomeworkNext /\ UNCHANGED <<part, ocrVars, recordingVars>>
  \/ part = "ocr" /\ OcrNext /\ UNCHANGED <<part, homeworkVars, recordingVars>>
  \/ part = "recording" /\ RecordingNext /\ UNCHANGED <<part, homeworkVars, ocrVars>>

MCSpec == MCInit /\ [][MCNext]_uploadVars
=============================================================================
