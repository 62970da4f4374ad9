---------------------------- MODULE UploadsProofs ----------------------------
(***************************************************************************)
(* What families upload, for any number of boards, requests, workers and   *)
(* forms: a recording lets go of the microphone however late the browser   *)
(* answers, a homework is what its submissions and reviews say, and a      *)
(* picture is read and decided once.                                       *)
(***************************************************************************)
EXTENDS Homework, OcrDraft, AudioRecording, FiniteSetTheorems, SequenceTheorems, TLAPS

-----------------------------------------------------------------------------
(***************************************************************************)
(* The recording.                                                          *)
(***************************************************************************)

Phases == {"idle", "requesting", "recording", "stopping", "ready", "error"}

DeviceStates == {"none", "recording", "stopping", "stopped"}

RecordingTypeOK ==
  /\ phase \in Phases
  /\ file \in Nat /\ generation \in 0..MaxGeneration
  /\ asking \subseteq Generations /\ live \subseteq Generations
  /\ device \in [Generations -> DeviceStates]
  /\ failed \subseteq Generations

\* The variables name what holds the microphone: only the stream of the variable does,
\* only the recorder of the variable runs, and a start that still waits for the
\* permission has done nothing yet.
OneHolder ==
  /\ live \subseteq {stream}
  /\ \A g \in Generations : device[g] = "recording" => recorder = g /\ phase = "recording"
  /\ \A g \in asking : device[g] = "none" /\ g \notin failed
  /\ generation \in asking => phase = "requesting"
  /\ \A g \in Generations :
       g > generation => device[g] = "none" /\ g \notin asking /\ g \notin failed

RecordingInv == RecordingTypeOK /\ MicrophoneIsReleased /\ OneHolder

LEMMA GenerationRange ==
  \A g : g \in Generations <=> g \in Nat /\ 1 <= g /\ g <= MaxGeneration
BY RecordingAssumption DEF Generations

LEMMA HaltedStops ==
  ASSUME RecordingTypeOK, NEW r
  PROVE  Halted(r) \in [Generations -> DeviceStates]
BY DEF Halted, RecordingTypeOK, DeviceStates

LEMMA InitRecording == RecordingInit => RecordingInv
BY RecordingAssumption
   DEF RecordingInit, RecordingInv, RecordingTypeOK, Phases, MicrophoneIsReleased, OneHolder,
       Generations, DeviceStates

LEMMA StartKeepsRecording ==
  ASSUME RecordingInv, NEW supported, StartRecording(supported)
  PROVE  RecordingInv'
<1> USE RecordingAssumption DEF RecordingInv
<1>1. /\ generation + 1 \in Generations /\ live = {}
      /\ \A g \in Generations : device[g] # "recording"
  BY GenerationRange DEF StartRecording, IsBusy, RecordingTypeOK, MicrophoneIsReleased, OneHolder
<1>2. RecordingTypeOK'
  BY <1>1 DEF StartRecording, Fail, Release, Publish, RecordingTypeOK, Phases
<1>3. MicrophoneIsReleased'
  BY <1>1 DEF StartRecording, Fail, Release, Publish, MicrophoneIsReleased
<1>4. OneHolder'
  BY <1>1, GenerationRange
     DEF StartRecording, Fail, Release, Publish, RecordingTypeOK, OneHolder
<1> QED
  BY <1>2, <1>3, <1>4

LEMMA CancelKeepsRecording ==
  ASSUME RecordingInv, CancelRecording, disposed' \in {disposed, TRUE}
  PROVE  RecordingInv'
<1> USE RecordingAssumption DEF RecordingInv
<1>1. /\ live' = {} /\ generation' = generation + 1 /\ generation' \in Generations
      /\ \A g \in Generations : device'[g] # "recording"
  BY GenerationRange DEF CancelRecording, Release, Halted, RecordingTypeOK, OneHolder
<1>2. RecordingTypeOK'
  <2>1. device' \in [Generations -> DeviceStates]
    BY HaltedStops DEF CancelRecording
  <2>2. phase' \in Phases /\ file' \in Nat /\ generation' \in 0..MaxGeneration
    BY <1>1, GenerationRange DEF CancelRecording, Publish, Phases
  <2>3. asking' \subseteq Generations /\ failed' \subseteq Generations
    BY DEF CancelRecording, RecordingTypeOK
  <2> QED
    BY <1>1, <2>1, <2>2, <2>3 DEF RecordingTypeOK
<1>3. MicrophoneIsReleased'
  BY <1>1 DEF CancelRecording, Publish, MicrophoneIsReleased
<1>4. OneHolder'
  BY <1>1, GenerationRange DEF CancelRecording, Publish, Halted, RecordingTypeOK, OneHolder
<1> QED
  BY <1>2, <1>3, <1>4

LEMMA StopKeepsRecording ==
  ASSUME RecordingInv, StopRecording
  PROVE  RecordingInv'
<1> USE RecordingAssumption DEF RecordingInv
<1>1. CASE phase = "requesting"
  BY <1>1, CancelKeepsRecording DEF StopRecording, StopNow, RecordingTypeOK
<1>2. CASE phase = "recording"
  <2>1. /\ live' = {} /\ \A g \in Generations : device'[g] # "recording"
    BY <1>2 DEF StopRecording, StopNow, Release, Halted, RecordingTypeOK, OneHolder
  <2>2. RecordingTypeOK'
    BY <1>2, HaltedStops
       DEF StopRecording, StopNow, Publish, Release, RecordingTypeOK, Phases
  <2>3. MicrophoneIsReleased'
    BY <1>2, <2>1 DEF StopRecording, StopNow, Publish, MicrophoneIsReleased
  <2>4. OneHolder'
    BY <1>2, <2>1 DEF StopRecording, StopNow, Publish, Halted, RecordingTypeOK, OneHolder
  <2> QED
    BY <2>2, <2>3, <2>4
<1> QED
  BY <1>1, <1>2 DEF StopRecording

LEMMA PermissionKeepsRecording ==
  ASSUME RecordingInv, NEW g \in Generations,
         Deny(g) \/ \E works \in BOOLEAN : Grant(g, works)
  PROVE  RecordingInv'
<1> USE RecordingAssumption DEF RecordingInv, IsWanted, IsCurrent
<1>1. /\ device[g] = "none" /\ g \notin failed
      /\ g = generation => live = {} /\ phase = "requesting" /\ file = 0
      /\ g = generation => \A h \in Generations : device[h] # "recording"
  BY DEF Deny, Grant, RecordingTypeOK, MicrophoneIsReleased, OneHolder
<1>2. CASE Deny(g)
  <2>1. RecordingTypeOK'
    BY <1>1, <1>2 DEF Deny, Fail, Publish, Release, RecordingTypeOK, Phases
  <2>2. MicrophoneIsReleased'
    BY <1>1, <1>2 DEF Deny, Fail, Publish, Release, MicrophoneIsReleased
  <2>3. OneHolder'
    BY <1>1, <1>2 DEF Deny, Fail, Publish, Release, RecordingTypeOK, OneHolder
  <2> QED
    BY <2>1, <2>2, <2>3
<1>3. ASSUME NEW works, Grant(g, works)
      PROVE  RecordingInv'
  <2>1. RecordingTypeOK'
    BY <1>1, <1>3 DEF Grant, Publish, RecordingTypeOK, Phases, DeviceStates
  <2>2. MicrophoneIsReleased'
    BY <1>1, <1>3 DEF Grant, Publish, MicrophoneIsReleased, RecordingTypeOK
  <2>3. OneHolder'
    BY <1>1, <1>3 DEF Grant, Publish, RecordingTypeOK, OneHolder
  <2> QED
    BY <2>1, <2>2, <2>3
<1> QED
  BY <1>2, <1>3

\* The events of a recorder, and of the device it records from.
Event(g) ==
  \/ \E tooLarge \in BOOLEAN : OnData(g, tooLarge)
  \/ OnError(g) \/ OnStop(g) \/ Unplug(g)

LEMMA EventKeepsRecording ==
  ASSUME RecordingInv, NEW g \in Generations, Event(g)
  PROVE  RecordingInv'
<1> USE RecordingAssumption DEF RecordingInv, IsCurrent
<1>1. ASSUME NEW tooLarge, OnData(g, tooLarge)
      PROVE  RecordingInv'
  <2>1. RecordingTypeOK'
    <3>1. device' \in [Generations -> DeviceStates]
      BY <1>1, HaltedStops DEF OnData, RecordingTypeOK
    <3>2. phase' \in Phases /\ file' \in Nat /\ generation' \in 0..MaxGeneration
      BY <1>1 DEF OnData, Fail, Publish, RecordingTypeOK, Phases
    <3>3. /\ asking' \subseteq Generations /\ live' \subseteq Generations
          /\ failed' \subseteq Generations
      BY <1>1 DEF OnData, Fail, Release, RecordingTypeOK
    <3> QED
      BY <3>1, <3>2, <3>3 DEF RecordingTypeOK
  <2>2. MicrophoneIsReleased'
    BY <1>1 DEF OnData, Fail, Publish, Release, Halted, RecordingTypeOK, MicrophoneIsReleased,
                OneHolder
  <2>3. OneHolder'
    BY <1>1 DEF OnData, Fail, Publish, Release, Halted, RecordingTypeOK, OneHolder
  <2> QED
    BY <2>1, <2>2, <2>3
<1>2. ASSUME OnError(g)
      PROVE  RecordingInv'
  <2>1. RecordingTypeOK'
    BY <1>2, HaltedStops DEF OnError, Fail, Publish, Release, RecordingTypeOK, Phases
  <2>2. MicrophoneIsReleased'
    BY <1>2 DEF OnError, Fail, Publish, Release, Halted, RecordingTypeOK,
                MicrophoneIsReleased, OneHolder
  <2>3. OneHolder'
    BY <1>2 DEF OnError, Fail, Publish, Release, Halted, RecordingTypeOK,
                MicrophoneIsReleased, OneHolder
  <2> QED
    BY <2>1, <2>2, <2>3
<1>3. ASSUME OnStop(g)
      PROVE  RecordingInv'
  <2>1. RecordingTypeOK'
    BY <1>3 DEF OnStop, Fail, Publish, Release, RecordingTypeOK, Phases, DeviceStates
  <2>2. MicrophoneIsReleased'
    <3>1. CASE ~IsCurrent(g)
      BY <1>3, <3>1 DEF OnStop, RecordingTypeOK, MicrophoneIsReleased, OneHolder
    <3>2. CASE IsCurrent(g)
      <4>1. /\ live' = {} /\ generation' = generation /\ g = generation
            /\ \A h \in Generations : device'[h] # "recording"
        BY <1>3, <3>2 DEF OnStop, Fail, Release, RecordingTypeOK, MicrophoneIsReleased,
                          OneHolder
      <4>2. phase' \in Phases
        BY <1>3 DEF OnStop, Fail, Publish, RecordingTypeOK, Phases
      <4>3. /\ phase' = "ready" <=> file' # 0
            /\ file' # 0 => file' = generation' /\ file' \in heard' \ failed'
        BY <1>3, <3>2, GenerationRange
           DEF OnStop, Fail, Publish, RecordingTypeOK, MicrophoneIsReleased
      <4> QED
        BY <4>1, <4>2, <4>3 DEF MicrophoneIsReleased, Phases
    <3> QED
      BY <3>1, <3>2
  <2>3. OneHolder'
    BY <1>3 DEF OnStop, Fail, Publish, Release, RecordingTypeOK, MicrophoneIsReleased,
                OneHolder
  <2> QED
    BY <2>1, <2>2, <2>3
<1>4. ASSUME Unplug(g)
      PROVE  RecordingInv'
  <2>1. RecordingTypeOK'
    BY <1>4, HaltedStops DEF Unplug, RecordingTypeOK
  <2>2. MicrophoneIsReleased' /\ OneHolder'
    BY <1>4 DEF Unplug, Halted, RecordingTypeOK, MicrophoneIsReleased, OneHolder
  <2> QED
    BY <2>1, <2>2
<1> QED
  BY <1>1, <1>2, <1>3, <1>4 DEF Event

\* The microphone is held only while the form says that it records, by its current
\* start; a permission or an event that comes late is of no effect.
THEOREM RecordingReleases == RecordingSpec => []MicrophoneIsReleased
<1>1. RecordingInit => RecordingInv
  BY InitRecording
<1>2. ASSUME RecordingInv, [RecordingNext]_recordingVars
      PROVE  RecordingInv'
  <2>1. CASE PressCancelRecording \/ Dispose
    BY <1>2, <2>1, CancelKeepsRecording
       DEF PressCancelRecording, Dispose, RecordingInv, RecordingTypeOK
  <2>2. CASE UNCHANGED recordingVars
    BY <1>2, <2>2 DEF recordingVars, RecordingInv, RecordingTypeOK, MicrophoneIsReleased,
                      OneHolder
  <2> QED
    BY <1>2, <2>1, <2>2, StartKeepsRecording, StopKeepsRecording, PermissionKeepsRecording,
       EventKeepsRecording DEF RecordingNext, Event
<1>3. RecordingInv => MicrophoneIsReleased
  BY DEF RecordingInv
<1> QED
  BY <1>1, <1>2, <1>3, PTL DEF RecordingSpec

-----------------------------------------------------------------------------
(***************************************************************************)
(* The homework.                                                           *)
(***************************************************************************)

\* A form that shows the row as it is now, or is older than its last edit.
FormFits(edit) ==
  /\ edit.at \in Nat /\ edit.at <= todo.updatedAt
  /\ edit.at = todo.updatedAt => edit.seen = todo.text

FormsFit ==
  /\ DOMAIN view = Boards /\ DOMAIN editing = Parents
  /\ \A b \in Boards : view[b].form # None => FormFits(view[b].form)
  /\ \A p \in Parents : editing[p] # None => FormFits(editing[p])
  /\ \A r \in Requests : req[r].step = "update" => FormFits(req[r].form)

HoldsFile(r) == req[r].step \in {"submitting", "removing"} /\ req[r].file # None

\* A file that a request has in its hands is of no other request, and of no submission
\* unless the answer to its commit was lost.
RequestsFit ==
  /\ DOMAIN req = Requests
  /\ \A r \in Requests : req[r].step = "review" => req[r].decision \in {"approved", "rejected"}
  /\ \A r \in Requests : req[r].step \in {"submitting", "removing"} =>
       req[r].file \in Files \cup {None}
  /\ \A r \in Requests : req[r].step = "removing" => req[r].file # None
  /\ \A r \in Requests : HoldsFile(r) /\ req[r].step = "submitting" =>
       req[r].file \in files \ Linked
  /\ \A r \in Requests : HoldsFile(r) /\ req[r].step = "removing" =>
       req[r].file \notin Linked \/ req[r].file \in unheard
  /\ \A r, s \in Requests : HoldsFile(r) /\ HoldsFile(s) /\ req[r].file = req[s].file => r = s

HomeworkFits == HomeworkInv /\ FormsFit /\ RequestsFit

LEMMA InitHomework == HomeworkInit => HomeworkFits
<1> SUFFICES ASSUME HomeworkInit PROVE HomeworkFits
  OBVIOUS
<1> USE HomeworkAssumption
<1>1. RowsOK
  BY DEF HomeworkInit, RowsOK, Todo
<1>2. StatusFits
  BY DEF HomeworkInit, StatusFits, Decided
<1>3. Linked = {}
  BY DEF HomeworkInit, Linked
<1>4. FilesFit
  BY <1>3 DEF HomeworkInit, FilesFit
<1>5. FormsFit
  BY DEF HomeworkInit, FormsFit, FormFits, Shown, Quiet
<1>6. RequestsFit
  BY DEF HomeworkInit, RequestsFit, HoldsFile, Quiet
<1> QED
  BY <1>1, <1>2, <1>4, <1>5, <1>6 DEF HomeworkFits, HomeworkInv

\* A state of a request that has no file.
Fresh(q) ==
  \/ q.step \in {"none", "ok", "refused", "cancel", "submit", "saving"}
  \/ q.step = "review" /\ q.decision \in {"approved", "rejected"}
  \/ q.step = "update" /\ FormFits(q.form)
  \/ q.step = "submitting" /\ q.file = None

\* What the boards show is theirs still, or what the row says now.
FormsShown ==
  /\ DOMAIN view' = Boards /\ DOMAIN editing' = Parents
  /\ \A b \in Boards : \/ view'[b] = view[b]
                       \/ view'[b].form # None => FormFits(view'[b].form)
  /\ \A p \in Parents : \/ editing'[p] = editing[p]
                        \/ editing'[p] # None => FormFits(editing'[p])

LEMMA ShowsWhatFits ==
  ASSUME HomeworkFits
  PROVE  Shown.form # None => FormFits(Shown.form)
BY DEF Shown, FormFits, HomeworkFits, HomeworkInv, RowsOK, Todo

\* A step that leaves the submissions and the files alone, and whatever holds a file.
FilesUntouched ==
  /\ UNCHANGED <<submissions, files, unheard, orphans>>
  /\ DOMAIN req' = Requests
  /\ \A r \in Requests : req'[r] = req[r] \/ (~HoldsFile(r) /\ Fresh(req'[r]))

LEMMA FilesUntouchedKeeps ==
  ASSUME HomeworkFits, FilesUntouched, FormsShown, RowsOK', StatusFits',
         \A edit : FormFits(edit) => FormFits(edit)'
  PROVE  HomeworkFits'
<1> USE HomeworkAssumption DEF HomeworkFits, HomeworkInv
<1>1. Linked' = Linked
  BY DEF FilesUntouched, Linked
<1>2. \A r \in Requests : \/ req'[r] = req[r] /\ (HoldsFile(r)' <=> HoldsFile(r))
                          \/ ~HoldsFile(r)' /\ ~HoldsFile(r) /\ Fresh(req'[r])
  BY DEF FilesUntouched, HoldsFile, Fresh
<1>3. FilesFit'
  <2>1. \A f \in Held \ {None} : f \in Held'
    BY <1>2 DEF Held, HoldsFile
  <2>2. \A f \in files : f # None
    BY DEF RowsOK
  <2> QED
    BY <1>1, <2>1, <2>2 DEF FilesFit, FilesUntouched
<1>4. RequestsFit'
  <2>1. \A r \in Requests : req'[r].step = "review" =>
          req'[r].decision \in {"approved", "rejected"}
    BY <1>2 DEF RequestsFit, Fresh
  <2>2. \A r \in Requests : req'[r].step \in {"submitting", "removing"} =>
          req'[r].file \in Files \cup {None}
    BY <1>2 DEF RequestsFit, Fresh
  <2>3. \A r \in Requests : HoldsFile(r)' => HoldsFile(r) /\ req'[r] = req[r]
    BY <1>2
  <2>4. \A r \in Requests : req'[r].step = "removing" => req'[r].file # None
    BY <1>2 DEF RequestsFit, Fresh
  <2> QED
    BY <1>1, <2>1, <2>2, <2>3, <2>4 DEF RequestsFit, FilesUntouched
<1>5. FormsFit'
  <2>1. \A r \in Requests : req'[r].step = "update" => FormFits(req'[r].form)
    BY <1>2 DEF FormsFit, Fresh
  <2> QED
    BY <2>1 DEF FormsFit, FormsShown
<1> QED
  BY <1>3, <1>4, <1>5

LEMMA NothingWrittenKeeps ==
  ASSUME HomeworkFits, FilesUntouched, FormsShown, UNCHANGED rowVars
  PROVE  HomeworkFits'
<1>1. RowsOK' /\ StatusFits'
  BY DEF rowVars, FilesUntouched, RowsOK, StatusFits, Decided, HomeworkFits, HomeworkInv
<1>2. \A edit : FormFits(edit) => FormFits(edit)'
  BY DEF rowVars, FormFits
<1> QED
  BY <1>1, <1>2, FilesUntouchedKeeps

LEMMA ShowKeepsForms ==
  ASSUME HomeworkFits, NEW b \in Boards, NEW closes, Show(b, closes)
  PROVE  FormsShown
BY ShowsWhatFits, HomeworkAssumption DEF Show, FormsShown, HomeworkFits, FormsFit

LEMMA BoardsKeepFit ==
  ASSUME HomeworkFits,
         \/ \E b \in Boards : Refresh(b) \/ Hear(b) \/ GiveUp(b)
         \/ \E p \in Parents : OpenEdit(p) \/ CloseEdit(p)
         \/ \E b \in Boards, r \in Requests : Press(b, r)
  PROVE  HomeworkFits'
<1> USE HomeworkAssumption
<1>1. ASSUME NEW b \in Boards, Refresh(b)
      PROVE  UNCHANGED rowVars /\ FilesUntouched /\ FormsShown
  BY <1>1, ShowKeepsForms
     DEF Refresh, FilesUntouched, rowVars, HomeworkFits, RequestsFit
<1>2. ASSUME NEW b \in Boards, Hear(b)
      PROVE  UNCHANGED rowVars /\ FilesUntouched /\ FormsShown
  <2>1. UNCHANGED rowVars /\ FilesUntouched
    BY <1>2 DEF Hear, FilesUntouched, rowVars, Fresh, Quiet, HoldsFile, HomeworkFits, RequestsFit
  <2>2. FormsShown
    BY <1>2, ShowKeepsForms DEF Hear, FormsShown, HomeworkFits, FormsFit
  <2> QED
    BY <2>1, <2>2
<1>3. ASSUME NEW b \in Boards, GiveUp(b)
      PROVE  UNCHANGED rowVars /\ FilesUntouched /\ FormsShown
  <2>1. UNCHANGED rowVars /\ FilesUntouched
    BY <1>3 DEF GiveUp, FilesUntouched, rowVars, Fresh, Quiet, HoldsFile, HomeworkFits, RequestsFit
  <2> QED
    BY <1>3, <2>1 DEF GiveUp, FormsShown, HomeworkFits, FormsFit
<1>4. ASSUME NEW p \in Parents, OpenEdit(p) \/ CloseEdit(p)
      PROVE  UNCHANGED rowVars /\ FilesUntouched /\ FormsShown
  <2>1. UNCHANGED rowVars /\ FilesUntouched
    BY <1>4 DEF OpenEdit, CloseEdit, FilesUntouched, rowVars, HomeworkFits, RequestsFit
  <2>2. p \in Boards
    BY DEF Boards
  <2> QED
    BY <1>4, <2>1, <2>2 DEF OpenEdit, CloseEdit, FormsShown, HomeworkFits, FormsFit
<1>5. ASSUME NEW b \in Boards, NEW r \in Requests, Press(b, r)
      PROVE  UNCHANGED rowVars /\ FilesUntouched /\ FormsShown
  <2>1. PICK q : Fresh(q) /\ Send(b, r, q)
    <3>1. CASE b \in Parents /\ PressSave(b, r)
      BY <3>1 DEF PressSave, Fresh, HomeworkFits, FormsFit
    <3>2. CASE b \in Parents /\ PressCancel(b, r)
      BY <3>2 DEF PressCancel, Fresh
    <3>3. CASE b \in Parents /\ \E v \in {"approved", "rejected"} : PressReview(b, r, v)
      BY <3>3 DEF PressReview, Fresh
    <3>4. CASE b \in Children /\ \E withFile \in BOOLEAN : PressSubmit(b, r, withFile)
      BY <3>4 DEF PressSubmit, Fresh
    <3> QED
      BY <1>5, <3>1, <3>2, <3>3, <3>4 DEF Press
  <2>2. UNCHANGED rowVars /\ FilesUntouched
    BY <2>1 DEF Send, FilesUntouched, rowVars, HoldsFile, Quiet, HomeworkFits, RequestsFit
  <2>3. FormsShown
    BY <2>1 DEF Send, FormsShown, HomeworkFits, FormsFit
  <2> QED
    BY <2>2, <2>3
<1> QED
  BY <1>1, <1>2, <1>3, <1>4, <1>5, NothingWrittenKeeps

LEMMA AnswerIsFresh ==
  ASSUME HomeworkFits, NEW r \in Requests, NEW step \in {"ok", "refused"}, Answer(r, step)
  PROVE  /\ DOMAIN req' = Requests
         /\ Fresh(req'[r]) /\ req'[r].step \in {"none", "ok", "refused"}
         /\ \A s \in Requests : s # r => req'[s] = req[s]
BY DEF Answer, Fresh, Quiet, HomeworkFits, RequestsFit

\* A step of a request without a file that leaves files and boards alone.
LEMMA HandledWithoutFile ==
  ASSUME HomeworkFits, NEW r \in Requests, ~HoldsFile(r),
         DOMAIN req' = Requests, Fresh(req'[r]),
         \A s \in Requests : s # r => req'[s] = req[s],
         UNCHANGED <<submissions, files, boardVars, unheard, orphans>>
  PROVE  FilesUntouched /\ FormsShown
<1>1. FilesUntouched
  BY DEF FilesUntouched
<1>2. FormsShown
  BY DEF FormsShown, boardVars, HomeworkFits, FormsFit
<1> QED
  BY <1>1, <1>2

LEMMA RefuseKeepsFit ==
  ASSUME HomeworkFits, NEW r \in Requests, ~HoldsFile(r), Refuse(r)
  PROVE  HomeworkFits'
BY AnswerIsFresh, HandledWithoutFile, NothingWrittenKeeps DEF Refuse, rowVars

LEMMA UpdateKeepsFit ==
  ASSUME HomeworkFits, NEW r \in Requests, NEW now \in Clock, UpdateManual(r, now)
  PROVE  HomeworkFits'
<1> USE HomeworkAssumption
<1>1. ~HoldsFile(r)
  BY DEF UpdateManual, HoldsFile
<1>2. CASE Refuse(r)
  BY <1>1, <1>2, RefuseKeepsFit
<1>3. CASE ~Refuse(r)
  <2>1. /\ todo.text < MaxEdits
        /\ todo' = [todo EXCEPT !.text = @ + 1, !.updatedAt = Edited(@, now)]
        /\ Answer(r, "ok")
        /\ UNCHANGED <<submissions, reviews, rewards, files, boardVars, unheard, orphans>>
    BY <1>3 DEF UpdateManual
  <2>2. todo \in Todo
    BY DEF HomeworkFits, HomeworkInv, RowsOK
  <2>3. /\ todo'.updatedAt \in Nat /\ todo'.updatedAt > todo.updatedAt
        /\ todo'.text \in 0..MaxEdits
        /\ todo'.status = todo.status /\ todo'.number = todo.number
    BY <2>1, <2>2 DEF Todo, Edited
  <2>4. RowsOK'
    <3>1. todo' \in Todo
      BY <2>1, <2>2, <2>3 DEF Todo
    <3> QED
      BY <2>1, <2>3, <3>1 DEF RowsOK, HomeworkFits, HomeworkInv
  <2>5. StatusFits'
    <3> USE <2>1, <2>3 DEF StatusFits, Decided, HomeworkFits, HomeworkInv
    <3>1. StatusFits
      OBVIOUS
    <3> QED
      BY <3>1
  <2>6. \A edit : FormFits(edit) => FormFits(edit)'
    BY <2>2, <2>3 DEF FormFits, Todo
  <2> QED
    BY <1>1, <2>1, <2>4, <2>5, <2>6, AnswerIsFresh, HandledWithoutFile, FilesUntouchedKeeps
<1> QED
  BY <1>2, <1>3

LEMMA CancelKeepsFit ==
  ASSUME HomeworkFits, NEW r \in Requests, CancelManual(r)
  PROVE  HomeworkFits'
<1>1. ~HoldsFile(r)
  BY DEF CancelManual, HoldsFile
<1>2. CASE Refuse(r)
  BY <1>1, <1>2, RefuseKeepsFit
<1>3. CASE ~Refuse(r)
  <2>1. /\ todo.status # "approved" /\ (todo.status = "cancelled" \/ rewards = {})
        /\ todo' = [todo EXCEPT !.status = "cancelled"]
        /\ Answer(r, "ok")
        /\ UNCHANGED <<submissions, reviews, rewards, files, boardVars, unheard, orphans>>
    BY <1>3 DEF CancelManual
  <2>2. todo \in Todo
    BY DEF HomeworkFits, HomeworkInv, RowsOK
  <2>3. /\ todo' \in Todo /\ todo'.status = "cancelled"
        /\ todo'.number = todo.number /\ todo'.text = todo.text
        /\ todo'.updatedAt = todo.updatedAt
    BY <2>1, <2>2 DEF Todo
  <2>4. RowsOK'
    BY <2>1, <2>3 DEF RowsOK, HomeworkFits, HomeworkInv
  <2>5. StatusFits'
    BY <2>1, <2>3 DEF StatusFits, Decided, HomeworkFits, HomeworkInv
  <2>6. \A edit : FormFits(edit) => FormFits(edit)'
    BY <2>3 DEF FormFits
  <2> QED
    BY <1>1, <2>1, <2>4, <2>5, <2>6, AnswerIsFresh, HandledWithoutFile, FilesUntouchedKeeps
<1> QED
  BY <1>2, <1>3

LEMMA ReviewKeepsFit ==
  ASSUME HomeworkFits, NEW r \in Requests, Review(r)
  PROVE  HomeworkFits'
<1>1. ~HoldsFile(r)
  BY DEF Review, HoldsFile
<1>2. CASE Refuse(r)
  BY <1>1, <1>2, RefuseKeepsFit
<1>3. CASE UNCHANGED <<rowVars, files, boardVars, unheard, orphans>> /\ Answer(r, "ok")
  BY <1>1, <1>3, AnswerIsFresh, HandledWithoutFile, NothingWrittenKeeps DEF rowVars
<1>4. ASSUME NEW decision, decision = req[r].decision,
             todo.number = req[r].number, todo.status = "submitted",
             decision = "approved" => rewards = {},
             reviews' = reviews \cup {[number |-> todo.number, decision |-> decision]},
             rewards' = IF decision = "approved" THEN rewards \cup {todo.number} ELSE rewards,
             todo' = [todo EXCEPT !.status = decision],
             Answer(r, "ok"),
             UNCHANGED <<submissions, files, boardVars, unheard, orphans>>
      PROVE  HomeworkFits'
  <2>1. /\ todo \in Todo /\ decision \in {"approved", "rejected"}
    BY <1>4 DEF Review, HomeworkFits, HomeworkInv, RowsOK, RequestsFit
  <2>2. /\ todo' \in Todo /\ todo'.status = decision
        /\ todo'.number = todo.number /\ todo'.text = todo.text
        /\ todo'.updatedAt = todo.updatedAt
    BY <1>4, <2>1 DEF Todo
  <2>3. todo.number \in 1..todo.number /\ todo.number \in Nat
    BY <1>4, <2>1 DEF Todo, HomeworkFits, HomeworkInv, StatusFits
  <2>4. RowsOK'
    BY <1>4, <2>1, <2>2, <2>3 DEF RowsOK, HomeworkFits, HomeworkInv
  <2>5. /\ \A n, d : Decided(n, d)' <=> Decided(n, d) \/ (n = todo.number /\ d = decision)
        /\ \A d : ~Decided(todo.number, d)
    BY <1>4 DEF Decided, HomeworkFits, HomeworkInv, StatusFits
  <2>6. StatusFits'
    <3>1. \A n \in 1..todo'.number :
            Cardinality({s \in submissions' : s.number = n}) = 1
      BY <1>4, <2>2 DEF HomeworkFits, HomeworkInv, StatusFits
    <3>2. \A n \in 1..todo'.number : /\ ~(Decided(n, "approved")' /\ Decided(n, "rejected")')
                                     /\ n < todo'.number => Decided(n, "rejected")'
      BY <2>1, <2>2, <2>5 DEF HomeworkFits, HomeworkInv, StatusFits
    <3>3. Decided(todo.number, todo.status)'
      BY <1>4, <2>2 DEF Decided
    <3>4. rewards' = {n \in 1..todo'.number : Decided(n, "approved")'}
      BY <1>4, <2>1, <2>2, <2>3, <2>5 DEF HomeworkFits, HomeworkInv, StatusFits
    <3>5. rewards' # {} => todo'.status = "approved"
      BY <1>4, <2>1, <2>2 DEF HomeworkFits, HomeworkInv, StatusFits
    <3> QED
      BY <2>1, <2>2, <3>1, <3>2, <3>3, <3>4, <3>5 DEF StatusFits, Decided
  <2>7. \A edit : FormFits(edit) => FormFits(edit)'
    BY <2>2 DEF FormFits
  <2> QED
    BY <1>1, <1>4, <2>4, <2>6, <2>7, AnswerIsFresh, HandledWithoutFile, FilesUntouchedKeeps
<1> QED
  BY <1>2, <1>3, <1>4 DEF Review, Judged, HomeworkFits, RequestsFit

LEMMA AuthorizeKeepsFit ==
  ASSUME HomeworkFits, NEW r \in Requests, Authorize(r)
  PROVE  HomeworkFits'
<1>1. ~HoldsFile(r)
  BY DEF Authorize, HoldsFile
<1>2. CASE Refuse(r)
  BY <1>1, <1>2, RefuseKeepsFit
<1>3. CASE ~Refuse(r)
  <2>1. /\ DOMAIN req' = Requests /\ Fresh(req'[r])
        /\ \A s \in Requests : s # r => req'[s] = req[s]
        /\ UNCHANGED <<rowVars, files, boardVars, unheard, orphans>>
    BY <1>3 DEF Authorize, Fresh, HomeworkFits, RequestsFit
  <2> QED
    BY <1>1, <2>1, HandledWithoutFile, NothingWrittenKeeps DEF rowVars
<1> QED
  BY <1>2, <1>3

\* A step that leaves the boards alone, and only shrinks what they ask for.
LEMMA FormsStay ==
  ASSUME HomeworkFits, UNCHANGED <<view, editing>>,
         todo'.updatedAt = todo.updatedAt, todo'.text = todo.text,
         \A r \in Requests : req'[r].step = "update" => req'[r] = req[r]
  PROVE  FormsFit'
<1>1. \A edit : FormFits(edit)' <=> FormFits(edit)
  BY DEF FormFits
<1> QED
  BY <1>1 DEF FormsFit, HomeworkFits

LEMMA SaveKeepsFit ==
  ASSUME HomeworkFits, NEW r \in Requests, NEW f \in Files, SaveAttachment(r, f)
  PROVE  HomeworkFits'
<1> USE HomeworkAssumption DEF HomeworkFits, HomeworkInv
<1>1. /\ f \notin files \cup unheard \cup Linked \cup Held /\ f # None
      /\ files' = files \cup {f} /\ Linked' = Linked
      /\ UNCHANGED <<rowVars, boardVars, unheard, orphans>>
  BY DEF SaveAttachment, NewIds, Linked, rowVars
<1>2. /\ DOMAIN req' = Requests
      /\ req'[r] = [step |-> "submitting", number |-> req[r].number, file |-> f]
      /\ \A s \in Requests : s # r => req'[s] = req[s]
      /\ ~HoldsFile(r)
  BY DEF SaveAttachment, RequestsFit, HoldsFile
<1>3. RowsOK' /\ StatusFits'
  BY <1>1 DEF rowVars, RowsOK, StatusFits, Decided
<1>4. \A s \in Requests : \/ s # r /\ (HoldsFile(s)' <=> HoldsFile(s)) /\ req'[s] = req[s]
                          \/ s = r /\ HoldsFile(s)'
  BY <1>1, <1>2 DEF HoldsFile
<1>5. FilesFit'
  <2>1. f \in Held' /\ \A g \in Held \ {None} : g \in Held'
    BY <1>2, <1>4 DEF Held, HoldsFile
  <2>2. \A g \in files : g # None
    BY DEF RowsOK
  <2> QED
    BY <1>1, <2>1, <2>2 DEF FilesFit, rowVars
<1>6. RequestsFit'
  <2>1. \A s \in Requests : HoldsFile(s) => req[s].file \in Held
    BY DEF HoldsFile, Held
  <2>2. \A s \in Requests : HoldsFile(s)' /\ s # r => req'[s].file # f
    BY <1>1, <1>4, <2>1
  <2>3. \A s, t \in Requests :
          HoldsFile(s)' /\ HoldsFile(t)' /\ req'[s].file = req'[t].file => s = t
    BY <1>2, <1>4, <2>2 DEF RequestsFit
  <2>4. \A s \in Requests : req'[s].step \in {"submitting", "removing"} =>
          req'[s].file \in Files \cup {None}
    BY <1>2 DEF RequestsFit
  <2>5. \A s \in Requests : req'[s].step = "review" =>
          req'[s].decision \in {"approved", "rejected"}
    BY <1>2 DEF RequestsFit
  <2>6. \A s \in Requests : HoldsFile(s)' =>
          /\ req'[s].step = "submitting" => req'[s].file \in files' \ Linked'
          /\ req'[s].step = "removing" => req'[s].file \notin Linked' \/ req'[s].file \in unheard'
    BY <1>1, <1>2, <1>4 DEF RequestsFit
  <2> QED
    BY <1>2, <2>3, <2>4, <2>5, <2>6 DEF RequestsFit
<1>7. FormsFit'
  BY <1>1, <1>2, FormsStay DEF rowVars, boardVars
<1> QED
  BY <1>3, <1>5, <1>6, <1>7

\* The submission that a request inserts has the next number.
LEMMA InsertKeepsRows ==
  ASSUME HomeworkFits, NEW r \in Requests, req[r].step = "submitting",
         Accepts(req[r].number), Insert(r), UNCHANGED <<files, orphans>>,
         unheard' \subseteq Files
  PROVE  /\ RowsOK' /\ StatusFits'
         /\ Linked' = Linked \cup ({req[r].file} \ {None})
         /\ todo'.updatedAt = todo.updatedAt /\ todo'.text = todo.text
<1> USE DEF HomeworkFits, HomeworkInv
<1>1. /\ todo \in Todo /\ todo.number \in Nat /\ req[r].file \in Files \cup {None}
      /\ todo.status \in {"open", "rejected"} /\ req[r].number = todo.number
  BY DEF RowsOK, Todo, Accepts, RequestsFit
<1>2. /\ todo' \in Todo /\ todo'.status = "submitted" /\ todo'.number = todo.number + 1
      /\ todo'.updatedAt = todo.updatedAt /\ todo'.text = todo.text
  <2>1. todo' = [todo EXCEPT !.status = "submitted", !.number = todo.number + 1]
    BY <1>1 DEF Insert
  <2>2. /\ todo'.status = "submitted" /\ todo'.number = todo.number + 1
        /\ todo'.updatedAt = todo.updatedAt /\ todo'.text = todo.text
        /\ todo'.number \in Nat
    BY <1>1, <2>1 DEF Todo
  <2>3. todo' \in Todo
    BY <1>1, <2>1, <2>2 DEF Todo
  <2> QED
    BY <2>2, <2>3
<1> DEFINE new == [number |-> todo.number + 1, file |-> req[r].file]
<1>3. submissions' = submissions \cup {new} /\ UNCHANGED <<reviews, rewards>>
  BY <1>1 DEF Insert
<1>4. /\ new \in [number : 1..todo'.number, file : Files \cup {None}]
      /\ new.number = todo.number + 1 /\ new.file = req[r].file
      /\ \A n \in 1..todo.number : n \in 1..todo'.number
  BY <1>1, <1>2
<1>5. RowsOK'
  BY <1>2, <1>3, <1>4 DEF RowsOK
<1>6. Linked' = Linked \cup ({req[r].file} \ {None})
  BY <1>3, <1>4 DEF Linked
<1>7. StatusFits'
  <2>1. \A n \in 1..todo'.number : n \in 1..todo.number \/ n = todo.number + 1
    BY <1>1, <1>2
  <2>2. ASSUME NEW n \in 1..todo.number
        PROVE  {s \in submissions' : s.number = n} = {s \in submissions : s.number = n}
    BY <1>1, <1>3, <1>4
  <2>3. {s \in submissions' : s.number = todo.number + 1} = {new}
    <3>1. \A s \in submissions : s.number # todo.number + 1
      BY <1>1 DEF RowsOK
    <3> QED
      BY <1>3, <1>4, <3>1
  <2>4. \A n \in 1..todo'.number : Cardinality({s \in submissions' : s.number = n}) = 1
    <3> SUFFICES ASSUME NEW n \in 1..todo'.number
                 PROVE  Cardinality({s \in submissions' : s.number = n}) = 1
      OBVIOUS
    <3>1. CASE n \in 1..todo.number
      BY <2>2, <3>1 DEF StatusFits
    <3>2. CASE n = todo.number + 1
      BY <2>3, <3>2, FS_Singleton
    <3> QED
      BY <2>1, <3>1, <3>2
  <2>5. \A v \in reviews : v.number \in 1..todo.number /\ v.number # todo.number + 1
    BY <1>1 DEF RowsOK
  <2>6. rewards = {} /\ (todo.number > 0 => Decided(todo.number, "rejected"))
    BY <1>1 DEF StatusFits
  <2>7. \A n, d : Decided(n, d)' = Decided(n, d)
    BY <1>3 DEF Decided
  <2>8. \A d : ~Decided(todo.number + 1, d)
    BY <2>5 DEF Decided
  <2>9. rewards' = {n \in 1..todo'.number : Decided(n, "approved")'}
    BY <1>3, <2>1, <2>6, <2>7, <2>8 DEF StatusFits
  <2>10. \A n \in 1..todo'.number : /\ ~(Decided(n, "approved")' /\ Decided(n, "rejected")')
                                    /\ n < todo'.number => Decided(n, "rejected")'
    BY <1>1, <1>2, <2>1, <2>6, <2>7, <2>8 DEF StatusFits
  <2> QED
    BY <1>1, <1>2, <1>3, <2>4, <2>5, <2>6, <2>9, <2>10 DEF StatusFits
<1> QED
  BY <1>2, <1>5, <1>6, <1>7

LEMMA SubmitKeepsFit ==
  ASSUME HomeworkFits, NEW r \in Requests, Submit(r)
  PROVE  HomeworkFits'
<1> USE HomeworkAssumption DEF HomeworkFits, HomeworkInv
<1>1. /\ req[r].step = "submitting" /\ req[r].file \in Files \cup {None}
      /\ req[r].file # None => HoldsFile(r) /\ req[r].file \in files \ Linked
      /\ UNCHANGED <<files, boardVars, orphans>>
  BY DEF Submit, Insert, RequestsFit, HoldsFile, rowVars
\* The three ends of the transaction.
<1>2. \/ Accepts(req[r].number) /\ Insert(r) /\ Answer(r, "ok") /\ UNCHANGED unheard
      \/ /\ Accepts(req[r].number) /\ Insert(r) /\ GivenBack(r)
         /\ unheard' = unheard \cup ({req[r].file} \ {None})
      \/ GivenBack(r) /\ UNCHANGED <<rowVars, unheard>>
  BY DEF Submit
<1>3. /\ RowsOK' /\ StatusFits'
      /\ Linked \subseteq Linked' /\ Linked' \subseteq Linked \cup ({req[r].file} \ {None})
      /\ todo'.updatedAt = todo.updatedAt /\ todo'.text = todo.text
      /\ unheard \subseteq unheard'
  <2>1. CASE UNCHANGED <<rowVars, unheard>>
    BY <1>1, <2>1 DEF rowVars, RowsOK, StatusFits, Decided, Linked
  <2>2. CASE Accepts(req[r].number) /\ Insert(r) /\ unheard' \in {unheard, unheard \cup ({req[r].file} \ {None})}
    <3>1. unheard' \subseteq Files
      BY <1>1, <2>2 DEF RowsOK
    <3> QED
      BY <1>1, <2>2, <3>1, InsertKeepsRows
  <2> QED
    BY <1>2, <2>1, <2>2
\* What becomes of the file of the request.
<1>4. \/ req'[r].step \in {"none", "ok", "refused"}
      \/ /\ req[r].file # None
         /\ req'[r] = [step |-> "removing", file |-> req[r].file]
  BY <1>2, AnswerIsFresh DEF GivenBack, RequestsFit
<1>5. DOMAIN req' = Requests /\ \A s \in Requests : s # r => req'[s] = req[s]
  BY <1>2, AnswerIsFresh DEF GivenBack, RequestsFit
<1>6. \A s \in Requests : /\ s # r => (HoldsFile(s)' <=> HoldsFile(s))
                          /\ HoldsFile(s)' => HoldsFile(s) /\ req'[s].file = req[s].file
  BY <1>1, <1>4, <1>5 DEF HoldsFile
<1>7. req[r].file # None =>
        \/ HoldsFile(r)' /\ (req[r].file \notin Linked' \/ req[r].file \in unheard')
        \/ ~HoldsFile(r)' /\ req[r].file \in Linked'
  <2>1. CASE Accepts(req[r].number) /\ Insert(r) /\ Answer(r, "ok") /\ UNCHANGED unheard
    <3>1. Linked' = Linked \cup ({req[r].file} \ {None})
      BY <1>1, <2>1, InsertKeepsRows DEF RowsOK
    <3>2. ~HoldsFile(r)'
      BY <2>1, AnswerIsFresh DEF HoldsFile
    <3> QED
      BY <3>1, <3>2
  <2>2. CASE GivenBack(r) /\ unheard' = unheard \cup ({req[r].file} \ {None})
    BY <2>2 DEF GivenBack, HoldsFile, RequestsFit
  <2>3. CASE GivenBack(r) /\ UNCHANGED <<rowVars, unheard>>
    BY <1>1, <2>3 DEF GivenBack, HoldsFile, RequestsFit, rowVars, Linked
  <2> QED
    BY <1>2, <2>1, <2>2, <2>3
<1>8. FilesFit'
  <2>1. \A f \in files : f # None
    BY DEF RowsOK
  <2>2. Linked' \subseteq files' \cup unheard'
    BY <1>1, <1>3 DEF FilesFit
  <2>3. files' \subseteq Linked' \cup Held' \cup orphans'
    <3> SUFFICES ASSUME NEW f \in files, f \notin Linked, f \notin orphans
                 PROVE  f \in Linked' \cup Held'
      BY <1>1, <1>3
    <3>1. PICK s \in Requests : HoldsFile(s) /\ req[s].file = f
      BY <2>1 DEF FilesFit, Held, HoldsFile
    <3>2. CASE s = r
      BY <1>4, <1>7, <2>1, <3>1, <3>2 DEF Held, HoldsFile
    <3>3. CASE s # r
      BY <1>5, <3>1, <3>3 DEF Held, HoldsFile
    <3> QED
      BY <3>2, <3>3
  <2>4. \A s1, s2 \in submissions' : s1.file = s2.file => s1 = s2 \/ s1.file = None
    <3>1. CASE UNCHANGED submissions
      BY <3>1 DEF FilesFit
    <3>2. CASE Insert(r)
      <4>1. \A s \in submissions : s.file # None => s.file \in Linked
        BY DEF Linked
      <4>2. \A s \in submissions : s.file = req[r].file => s.file = None
        BY <1>1, <4>1
      <4>3. submissions' = submissions \cup {[number |-> req[r].number + 1, file |-> req[r].file]}
        BY <3>2 DEF Insert
      <4> QED
        BY <4>2, <4>3 DEF FilesFit
    <3> QED
      BY <1>2, <3>1, <3>2 DEF rowVars
  <2> QED
    BY <2>2, <2>3, <2>4 DEF FilesFit
<1>9. RequestsFit'
  <2>1. \A s, t \in Requests :
          HoldsFile(s)' /\ HoldsFile(t)' /\ req'[s].file = req'[t].file => s = t
    BY <1>6 DEF RequestsFit
  <2>2. \A s \in Requests : req'[s].step \in {"submitting", "removing"} =>
          req'[s].file \in Files \cup {None}
    BY <1>1, <1>4, <1>5 DEF RequestsFit
  <2>3. \A s \in Requests : req'[s].step = "review" =>
          req'[s].decision \in {"approved", "rejected"}
    BY <1>4, <1>5 DEF RequestsFit
  <2>4. ASSUME NEW s \in Requests, HoldsFile(s)'
        PROVE  /\ req'[s].step = "submitting" => req'[s].file \in files' \ Linked'
               /\ req'[s].step = "removing" =>
                    req'[s].file \notin Linked' \/ req'[s].file \in unheard'
    <3>1. CASE s = r
      BY <1>4, <1>6, <1>7, <2>4, <3>1 DEF HoldsFile
    <3>2. CASE s # r
      <4>1. HoldsFile(s) /\ req'[s] = req[s]
        BY <1>5, <1>6, <2>4, <3>2
      <4>2. req[r].file # None => req[s].file # req[r].file
        BY <1>1, <3>2, <4>1 DEF RequestsFit
      <4>3. req[s].file \notin Linked => req[s].file \notin Linked'
        BY <1>3, <4>2
      <4> QED
        BY <1>1, <1>3, <4>1, <4>3 DEF RequestsFit
    <3> QED
      BY <3>1, <3>2
  <2>5. \A s \in Requests : req'[s].step = "removing" => req'[s].file # None
    BY <1>1, <1>4, <1>5 DEF RequestsFit
  <2> QED
    BY <1>5, <2>1, <2>2, <2>3, <2>4, <2>5 DEF RequestsFit
<1>10. FormsFit'
  BY <1>1, <1>3, <1>4, <1>5, FormsStay DEF boardVars
<1> QED
  BY <1>3, <1>8, <1>9, <1>10

LEMMA RemoveKeepsFit ==
  ASSUME HomeworkFits, NEW r \in Requests, RemoveAttachment(r)
  PROVE  HomeworkFits'
<1> USE HomeworkAssumption DEF HomeworkFits, HomeworkInv
<1>1. /\ req[r].step = "removing" /\ req[r].file \in Files \cup {None}
      /\ files' = files \ {req[r].file} /\ Linked' = Linked
      /\ UNCHANGED <<rowVars, boardVars, unheard, orphans>>
  BY DEF RemoveAttachment, RequestsFit, rowVars, Linked
<1>2. /\ DOMAIN req' = Requests /\ req'[r].step \in {"none", "ok", "refused"}
      /\ \A s \in Requests : s # r => req'[s] = req[s]
  BY AnswerIsFresh DEF RemoveAttachment
<1>3. \A s \in Requests : /\ s # r => (HoldsFile(s)' <=> HoldsFile(s))
                          /\ HoldsFile(s)' => s # r /\ HoldsFile(s)
  BY <1>2 DEF HoldsFile
<1>4. \A s \in Requests : HoldsFile(s)' /\ req[r].file # None => req[s].file # req[r].file
  BY <1>1, <1>3 DEF RequestsFit, HoldsFile
<1>5. RowsOK' /\ StatusFits'
  BY <1>1 DEF rowVars, RowsOK, StatusFits, Decided
<1>6. FilesFit'
  <2>1. \A f \in files : f # None
    BY DEF RowsOK
  <2>2. Linked' \subseteq files' \cup unheard'
    <3>1. req[r].file = None \/ req[r].file \notin Linked \/ req[r].file \in unheard
      BY <1>1 DEF RequestsFit, HoldsFile
    <3> QED
      BY <1>1, <2>1, <3>1 DEF FilesFit
  <2>3. files' \subseteq Linked' \cup Held' \cup orphans'
    <3> SUFFICES ASSUME NEW f \in files, f # req[r].file, f \notin Linked, f \notin orphans
                 PROVE  f \in Held'
      BY <1>1
    <3>1. PICK s \in Requests : HoldsFile(s) /\ req[s].file = f
      BY <2>1 DEF FilesFit, Held, HoldsFile
    <3> QED
      BY <1>2, <3>1 DEF Held, HoldsFile
  <2> QED
    BY <1>1, <2>2, <2>3 DEF FilesFit, rowVars
<1>7. RequestsFit'
  <2>1. \A s \in Requests : HoldsFile(s)' => req'[s] = req[s] /\ HoldsFile(s)
    BY <1>2, <1>3
  <2>2. \A s, t \in Requests :
          HoldsFile(s)' /\ HoldsFile(t)' /\ req'[s].file = req'[t].file => s = t
    BY <2>1 DEF RequestsFit
  <2>3. \A s \in Requests : /\ req'[s].step \in {"submitting", "removing"} =>
                                 req'[s].file \in Files \cup {None}
                            /\ req'[s].step = "review" =>
                                 req'[s].decision \in {"approved", "rejected"}
    BY <1>2 DEF RequestsFit
  <2>4. \A s \in Requests : HoldsFile(s)' =>
          /\ req'[s].step = "submitting" => req'[s].file \in files' \ Linked'
          /\ req'[s].step = "removing" => req'[s].file \notin Linked' \/ req'[s].file \in unheard'
    <3> SUFFICES ASSUME NEW s \in Requests, HoldsFile(s)'
                 PROVE  /\ req'[s].step = "submitting" => req'[s].file \in files' \ Linked'
                        /\ req'[s].step = "removing" =>
                             req'[s].file \notin Linked' \/ req'[s].file \in unheard'
      OBVIOUS
    <3>1. req[s].file # req[r].file
      BY <1>4, <2>1 DEF HoldsFile
    <3> QED
      BY <1>1, <2>1, <3>1 DEF RequestsFit
  <2> QED
    BY <1>2, <2>2, <2>3, <2>4 DEF RequestsFit
<1>8. FormsFit'
  BY <1>1, <1>2, FormsStay DEF rowVars, boardVars
<1> QED
  BY <1>5, <1>6, <1>7, <1>8

LEMMA FailToSaveKeepsFit ==
  ASSUME HomeworkFits, NEW r \in Requests, FailToSave(r)
  PROVE  HomeworkFits'
<1> USE HomeworkAssumption DEF HomeworkFits, HomeworkInv
<1>1. PICK left \in SUBSET (Files \ (files \cup Held)) :
        files' = files \cup left /\ orphans' = orphans \cup left
  BY DEF FailToSave, NewIds
<1>2. /\ req[r].step = "saving" /\ Linked' = Linked
      /\ UNCHANGED <<rowVars, boardVars, unheard>>
  BY DEF FailToSave, Linked, rowVars
<1>3. /\ DOMAIN req' = Requests /\ req'[r].step \in {"none", "ok", "refused"}
      /\ \A s \in Requests : s # r => req'[s] = req[s]
  BY AnswerIsFresh DEF FailToSave
<1>4. \A s \in Requests : /\ HoldsFile(s)' <=> HoldsFile(s)
                          /\ HoldsFile(s) => req'[s] = req[s]
  BY <1>2, <1>3 DEF HoldsFile
<1>5. RowsOK' /\ StatusFits'
  BY <1>1, <1>2 DEF rowVars, RowsOK, StatusFits, Decided
<1>6. FilesFit'
  <2>1. \A f \in Held \ {None} : f \in Held'
    BY <1>4 DEF Held, HoldsFile
  <2>2. \A f \in files : f # None
    BY DEF RowsOK
  <2> QED
    BY <1>1, <1>2, <2>1, <2>2 DEF FilesFit, rowVars
<1>7. RequestsFit'
  <2>1. \A s \in Requests : req'[s].step \in {"submitting", "removing", "review"} =>
          req'[s] = req[s]
    BY <1>3
  <2>2. UNCHANGED <<Linked, unheard>> /\ files \subseteq files'
    BY <1>1, <1>2
  <2> QED
    BY <1>3, <1>4, <2>1, <2>2 DEF RequestsFit
<1>8. FormsFit'
  BY <1>2, <1>3, FormsStay DEF rowVars, boardVars
<1> QED
  BY <1>5, <1>6, <1>7, <1>8

LEMMA FailToRemoveKeepsFit ==
  ASSUME HomeworkFits, NEW r \in Requests, FailToRemove(r)
  PROVE  HomeworkFits'
<1> USE HomeworkAssumption DEF HomeworkFits, HomeworkInv
<1>1. /\ req[r].step = "removing" /\ req[r].file \in Files \cup {None}
      /\ orphans' = orphans \cup ({req[r].file} \ Linked) /\ Linked' = Linked
      /\ UNCHANGED <<rowVars, files, boardVars, unheard>>
  BY DEF FailToRemove, RequestsFit, rowVars, Linked
<1>2. /\ DOMAIN req' = Requests /\ req'[r].step \in {"none", "ok", "refused"}
      /\ \A s \in Requests : s # r => req'[s] = req[s]
  BY AnswerIsFresh DEF FailToRemove
<1>3. \A s \in Requests : HoldsFile(s)' => HoldsFile(s) /\ req'[s] = req[s]
  BY <1>2 DEF HoldsFile
<1>4. RowsOK' /\ StatusFits'
  <2>1. req[r].file \in Files
    BY <1>1 DEF RequestsFit
  <2> QED
    BY <1>1, <2>1 DEF rowVars, RowsOK, StatusFits, Decided
<1>5. FilesFit'
  <2>1. \A f \in files : f # None
    BY DEF RowsOK
  <2>2. files' \subseteq Linked' \cup Held' \cup orphans'
    <3> SUFFICES ASSUME NEW f \in files, f # req[r].file, f \notin Linked, f \notin orphans
                 PROVE  f \in Held'
      BY <1>1
    <3>1. PICK s \in Requests : HoldsFile(s) /\ req[s].file = f
      BY <2>1 DEF FilesFit, Held, HoldsFile
    <3> QED
      BY <1>2, <3>1 DEF Held, HoldsFile
  <2> QED
    BY <1>1, <2>2 DEF FilesFit, rowVars
<1>6. RequestsFit'
  <2>1. \A s \in Requests : req'[s].step \in {"submitting", "removing", "review"} =>
          req'[s] = req[s]
    BY <1>2
  <2> QED
    BY <1>1, <1>2, <1>3, <2>1 DEF RequestsFit
<1>7. FormsFit'
  BY <1>1, <1>2, FormsStay DEF rowVars, boardVars
<1> QED
  BY <1>4, <1>5, <1>6, <1>7

LEMMA CrashKeepsFit ==
  ASSUME HomeworkFits, Crash
  PROVE  HomeworkFits'
<1> USE HomeworkAssumption DEF HomeworkFits, HomeworkInv
<1>1. /\ DOMAIN req' = Requests /\ \A r \in Requests : req'[r].step = "none"
      /\ orphans' = orphans \cup (Held \cap (files \ Linked)) /\ Linked' = Linked
      /\ UNCHANGED <<rowVars, files, view, editing, unheard>>
  BY DEF Crash, Quiet, rowVars, Linked
<1>2. RowsOK' /\ StatusFits'
  BY <1>1 DEF rowVars, RowsOK, StatusFits, Decided
<1>3. FilesFit'
  BY <1>1 DEF FilesFit, rowVars
<1>4. RequestsFit'
  BY <1>1 DEF RequestsFit, HoldsFile
<1>5. FormsFit'
  BY <1>1, FormsStay DEF rowVars
<1> QED
  BY <1>2, <1>3, <1>4, <1>5

LEMMA HomeworkStep ==
  ASSUME HomeworkFits, [HomeworkNext]_homeworkVars
  PROVE  HomeworkFits'
<1>1. CASE UNCHANGED homeworkVars
  <2>1. HomeworkInv'
    <3>1. RowsOK' /\ StatusFits'
      BY <1>1 DEF homeworkVars, rowVars, HomeworkFits, HomeworkInv, RowsOK, StatusFits, Decided
    <3>2. FilesFit'
      BY <1>1 DEF homeworkVars, rowVars, HomeworkFits, HomeworkInv, FilesFit, Linked, Held
    <3> QED
      BY <3>1, <3>2 DEF HomeworkInv
  <2>2. FormsFit'
    BY <1>1 DEF homeworkVars, rowVars, boardVars, HomeworkFits, FormsFit, FormFits
  <2>3. RequestsFit'
    BY <1>1 DEF homeworkVars, rowVars, HomeworkFits, RequestsFit, HoldsFile, Linked
  <2> QED
    BY <2>1, <2>2, <2>3 DEF HomeworkFits
<1>2. ASSUME NEW r \in Requests, Handle(r)
      PROVE  HomeworkFits'
  BY <1>2, UpdateKeepsFit, CancelKeepsFit, ReviewKeepsFit, AuthorizeKeepsFit, SaveKeepsFit,
     FailToSaveKeepsFit, SubmitKeepsFit, RemoveKeepsFit, FailToRemoveKeepsFit DEF Handle
<1> QED
  BY <1>1, <1>2, BoardsKeepFit, CrashKeepsFit DEF HomeworkNext

LEMMA HomeworkAlwaysFits == HomeworkSpec => []HomeworkFits
<1>1. HomeworkFits /\ [HomeworkNext]_homeworkVars => HomeworkFits'
  BY HomeworkStep
<1> QED
  BY <1>1, InitHomework, PTL DEF HomeworkSpec

\* The todo is what its submissions and reviews say, however its guardians and children
\* interleave and wherever the server stops or the disk fails: nothing is judged twice,
\* one submission earns the one reward, no evidence disappears whose submission the
\* child heard of, and only a crash, a write that broke off or a failed removal leaves a
\* file that is nobody's.
THEOREM HomeworkInvHolds == HomeworkSpec => []HomeworkInv
<1>1. HomeworkFits => HomeworkInv
  BY DEF HomeworkFits
<1> QED
  BY <1>1, HomeworkAlwaysFits, PTL

\* The edit that replaces a text replaces the one its guardian saw.
THEOREM EditsAreNotLost == HomeworkSpec => NoLostEdit
<1>1. ASSUME HomeworkFits, [HomeworkNext]_homeworkVars,
             NEW r \in Requests, req[r].step = "update", todo'.text # todo.text, req'[r] # req[r]
      PROVE  req[r].form.seen = todo.text
  <2>1. PICK s \in Requests, now \in Clock : UpdateManual(s, now)
    <3>1. todo' # todo
      BY <1>1
    <3>2. CASE \E s \in Requests : CancelManual(s) \/ Review(s)
      BY <1>1, <3>2 DEF CancelManual, Review, Refuse, rowVars, HomeworkFits, HomeworkInv, RowsOK,
                        Todo
    <3>3. CASE \E s \in Requests : Submit(s)
      BY <1>1, <3>3 DEF Submit, Insert, rowVars, HomeworkFits, HomeworkInv, RowsOK, Todo
    <3>4. CASE \E s \in Requests, f \in Files : SaveAttachment(s, f)
      BY <3>1, <3>4 DEF SaveAttachment, rowVars
    <3>5. CASE \E s \in Requests : \/ Authorize(s) \/ RemoveAttachment(s)
                                   \/ FailToSave(s) \/ FailToRemove(s)
      BY <3>1, <3>5 DEF Authorize, RemoveAttachment, FailToSave, FailToRemove, Refuse, rowVars
    <3>6. CASE \E b \in Boards, s \in Requests : Press(b, s)
      BY <3>1, <3>6 DEF Press, PressSave, PressCancel, PressReview, PressSubmit, Send, rowVars
    <3>7. ~Crash /\ ~UNCHANGED homeworkVars
      BY <3>1 DEF Crash, homeworkVars, rowVars
    <3>8. /\ \A b \in Boards : ~(Refresh(b) \/ Hear(b) \/ GiveUp(b))
          /\ \A p \in Parents : ~(OpenEdit(p) \/ CloseEdit(p))
      BY <3>1 DEF Refresh, Hear, GiveUp, OpenEdit, CloseEdit, rowVars
    <3> QED
      BY <1>1, <3>2, <3>3, <3>4, <3>5, <3>6, <3>7, <3>8 DEF HomeworkNext, Handle
  <2>2. \A t \in Requests : t # s => req'[t] = req[t]
    BY <1>1, <2>1, AnswerIsFresh DEF UpdateManual, Refuse
  <2>3. s = r /\ req[r].form.at = todo.updatedAt
    BY <1>1, <2>1, <2>2 DEF UpdateManual, Refuse, rowVars
  <2> QED
    BY <1>1, <2>3 DEF HomeworkFits, FormsFit, FormFits
<1>2. HomeworkFits /\ [HomeworkNext]_homeworkVars =>
        [\A r \in Requests :
           req[r].step = "update" /\ todo'.text # todo.text /\ req'[r] # req[r]
             => req[r].form.seen = todo.text]_homeworkVars
  BY <1>1
<1> QED
  BY <1>2, HomeworkAlwaysFits, PTL DEF HomeworkSpec, NoLostEdit

\* What is judged is the submission that the guardian was shown.
THEOREM ReviewsAreOfWhatWasSeen == HomeworkSpec => JudgedAsSeen
<1>1. ASSUME HomeworkFits, [HomeworkNext]_homeworkVars, NEW v \in reviews' \ reviews
      PROVE  \E r \in Requests : /\ req[r].step = "review" /\ req'[r] # req[r]
                                 /\ req[r].number = v.number
                                 /\ req[r].decision = v.decision
  <2>1. reviews' # reviews
    BY <1>1
  <2>2. PICK r \in Requests : Review(r)
    <3>1. \A s \in Requests : ~(\/ CancelManual(s) \/ Submit(s) \/ Authorize(s)
                               \/ RemoveAttachment(s) \/ FailToSave(s) \/ FailToRemove(s))
      BY <2>1 DEF CancelManual, Submit, Insert, Authorize, RemoveAttachment, FailToSave,
                  FailToRemove, Refuse, rowVars
    <3>2. /\ \A s \in Requests, f \in Files : ~SaveAttachment(s, f)
          /\ \A s \in Requests, now \in Clock : ~UpdateManual(s, now)
      BY <2>1 DEF SaveAttachment, UpdateManual, Refuse, rowVars
    <3>3. \A b \in Boards, s \in Requests : ~Press(b, s)
      BY <2>1 DEF Press, PressSave, PressCancel, PressReview, PressSubmit, Send, rowVars
    <3>4. ~Crash /\ ~UNCHANGED homeworkVars
      BY <2>1 DEF Crash, homeworkVars, rowVars
    <3>5. /\ \A b \in Boards : ~(Refresh(b) \/ Hear(b) \/ GiveUp(b))
          /\ \A p \in Parents : ~(OpenEdit(p) \/ CloseEdit(p))
      BY <2>1 DEF Refresh, Hear, GiveUp, OpenEdit, CloseEdit, rowVars
    <3> QED
      BY <1>1, <3>1, <3>2, <3>3, <3>4, <3>5 DEF HomeworkNext, Handle
  <2>3. /\ req[r].step = "review" /\ Answer(r, "ok")
        /\ reviews' = reviews \cup {[number |-> req[r].number, decision |-> req[r].decision]}
    BY <2>1, <2>2 DEF Review, Judged, Refuse, rowVars
  <2>4. req'[r] # req[r]
    BY <1>1, <2>3, AnswerIsFresh
  <2> QED
    BY <2>3, <2>4
<1>2. HomeworkFits /\ [HomeworkNext]_homeworkVars =>
        [\A v \in reviews' \ reviews :
           \E r \in Requests : /\ req[r].step = "review" /\ req'[r] # req[r]
                               /\ req[r].number = v.number
                               /\ req[r].decision = v.decision]_homeworkVars
  BY <1>1
<1> QED
  BY <1>2, HomeworkAlwaysFits, PTL DEF HomeworkSpec, JudgedAsSeen

-----------------------------------------------------------------------------
(***************************************************************************)
(* The draft.                                                              *)
(***************************************************************************)

Rank(S, i) == Cardinality({j \in S : j <= i})

\* The numbers of a finite set, in their order, are numbered from one on.
LEMMA Ranks ==
  ASSUME NEW S \in SUBSET Nat, IsFiniteSet(S)
  PROVE  /\ Cardinality(S) \in Nat
         /\ \A i \in S : Rank(S, i) \in 1..Cardinality(S)
         /\ \A i, j \in S : Rank(S, i) = Rank(S, j) => i = j
         /\ \A n \in 1..Cardinality(S) : \E i \in S : Rank(S, i) = n
<1> DEFINE Below(i) == {j \in S : j <= i}
           rank == [i \in S |-> Rank(S, i)]
<1>1. Cardinality(S) \in Nat
  BY FS_CardinalityType
<1>2. \A i \in S : /\ IsFiniteSet(Below(i)) /\ Cardinality(Below(i)) \in Nat
                   /\ Cardinality(Below(i)) <= Cardinality(S) /\ Cardinality(Below(i)) # 0
  <2> SUFFICES ASSUME NEW i \in S
               PROVE  /\ IsFiniteSet(Below(i)) /\ Cardinality(Below(i)) \in Nat
                      /\ Cardinality(Below(i)) <= Cardinality(S) /\ Cardinality(Below(i)) # 0
    OBVIOUS
  <2>1. Below(i) \in SUBSET S /\ i \in Below(i)
    OBVIOUS
  <2>2. IsFiniteSet(Below(i)) /\ Cardinality(Below(i)) <= Cardinality(S)
    BY <2>1, FS_Subset
  <2> QED
    BY <2>1, <2>2, FS_CardinalityType, FS_EmptySet
<1>3. \A i \in S : Rank(S, i) \in 1..Cardinality(S)
  BY <1>1, <1>2 DEF Rank
<1>4. ASSUME NEW i \in S, NEW j \in S, i < j
      PROVE  Rank(S, i) # Rank(S, j)
  <2>1. Below(i) \in SUBSET Below(j) /\ j \in Below(j) /\ j \notin Below(i)
    <3>1. \A k \in S : k \in Nat
      OBVIOUS
    <3>2. \A k \in S : k <= i => k <= j
      BY <1>4, <3>1
    <3>3. ~(j <= i) /\ j <= j
      BY <1>4, <3>1
    <3> QED
      BY <3>2, <3>3
  <2>2. Cardinality(Below(j)) = Cardinality(Below(i)) => Below(j) = Below(i)
    BY <1>2, <2>1, FS_Subset
  <2> QED
    BY <2>1, <2>2 DEF Rank
<1>5. \A i, j \in S : Rank(S, i) = Rank(S, j) => i = j
  BY <1>4
<1>6. rank \in Injection(S, 1..Cardinality(S))
  BY <1>3, <1>5 DEF Injection, IsInjective
<1>7. IsFiniteSet(1..Cardinality(S)) /\ Cardinality(1..Cardinality(S)) = Cardinality(S)
  BY <1>1, FS_Interval
<1>8. rank \in Surjection(S, 1..Cardinality(S))
  BY <1>6, <1>7, FS_Injection
<1>9. \A n \in 1..Cardinality(S) : \E i \in S : Rank(S, i) = n
  BY <1>8 DEF Surjection
<1> HIDE DEF rank
<1> QED
  BY <1>1, <1>3, <1>5, <1>9

\* The numbers of the lines are those of the reading, each of one line.
LinesFit ==
  /\ \A l, m \in lines : l.order = m.order => l = m
  /\ lines # {} => \E reading \in Readings :
       /\ reading.size > 0 /\ Orders = 0..(reading.size - 1)
       /\ \A l \in lines : l.text = reading.text

OcrTypesFit ==
  /\ DOMAIN recog = Workers /\ DOMAIN confirm = Confirms
  /\ form \in [Pages -> [lines : SUBSET Nat, awaits : SUBSET Confirms]]
  /\ DOMAIN job = {"status", "attempts"}
  /\ \A w \in Workers : recog[w].step \in {"read", "checked"} =>
       /\ DOMAIN recog[w] = {"step", "attempt", "reading"}
       /\ recog[w].reading \in Readings /\ recog[w].reading.size > 0
  /\ \A q \in Confirms :
       \/ confirm[q].step = "unused"
       \/ /\ DOMAIN confirm[q] = {"step", "decision"}
          /\ DOMAIN confirm[q].decision \subseteq Nat
          /\ \A i \in DOMAIN confirm[q].decision :
               confirm[q].decision[i] \in Answers \cup {NoCard}
  /\ cards \in Seq(Answers \cup {NoCard})

OcrInv == DraftIsOneReading /\ ConfirmedOnce /\ LinesFit /\ OcrTypesFit

LEMMA InitOcr == OcrInit => OcrInv
<1> SUFFICES ASSUME OcrInit PROVE OcrInv
  OBVIOUS
<1> USE OcrAssumption DEF OcrInit
<1>1. OcrTypesFit
  BY DEF OcrTypesFit, Blank, Sitting, Unused
<1>2. LinesFit /\ DraftIsOneReading
  BY DEF LinesFit, DraftIsOneReading, OcrRowsOK, Blank
<1>3. ConfirmedOnce
  BY DEF ConfirmedOnce, Untouched, Unused
<1> QED
  BY <1>1, <1>2, <1>3 DEF OcrInv

\* A step that leaves the lines and the cards alone; the confirmations go on, and none
\* of them ends well but one that says what the lines say.
LinesKept ==
  /\ UNCHANGED <<lines, cards>>
  /\ \A q \in Confirms :
       \/ confirm'[q] = confirm[q]
       \/ confirm'[q].step # "ok"
       \/ Finalized /\ IsSameDecision(confirm'[q].decision)
  /\ \A p \in Pages : form'[p].lines \in {form[p].lines, {}, Orders}

LEMMA LinesKeptKeeps ==
  ASSUME OcrInv, OcrTypesFit', OcrRowsOK', LinesKept
  PROVE  OcrInv'
<1>1. /\ Orders' = Orders /\ (Finalized' <=> Finalized) /\ (Untouched' <=> Untouched)
      /\ \A decision : IsSameDecision(decision)' <=> IsSameDecision(decision)
  BY DEF LinesKept, Orders, Finalized, Untouched, IsSameDecision
<1>2. LinesFit'
  BY <1>1 DEF LinesKept, LinesFit, OcrInv
<1>3. DraftIsOneReading'
  BY <1>1 DEF LinesKept, DraftIsOneReading, OcrInv
<1>4. ConfirmedOnce'
  BY <1>1 DEF LinesKept, ConfirmedOnce, OcrInv
<1> QED
  BY <1>2, <1>3, <1>4 DEF OcrInv

LEMMA JobKeepsInv ==
  ASSUME OcrInv, PutSource \/ CreateDraft \/ LoseSource \/ Expire
  PROVE  OcrInv'
<1> USE OcrAssumption DEF PutSource, CreateDraft, LoseSource, Expire
<1>1. LinesKept
  BY DEF LinesKept
<1>2. OcrTypesFit'
  BY DEF OcrInv, OcrTypesFit
<1>3. OcrRowsOK'
  BY DEF OcrInv, OcrTypesFit, DraftIsOneReading, OcrRowsOK
<1> QED
  BY <1>1, <1>2, <1>3, LinesKeptKeeps

\* A worker goes on, and what it has read is a reading.
LEMMA MoveOnKeepsInv ==
  ASSUME OcrInv, NEW w \in Workers, NEW state, GoTo(w, state),
         state.step \in {"read", "checked"} =>
           /\ DOMAIN state = {"step", "attempt", "reading"}
           /\ state.reading \in Readings /\ state.reading.size > 0,
         DOMAIN job' = {"status", "attempts"}, OcrRowsOK',
         UNCHANGED <<lines, cards, form, confirm>>
  PROVE  OcrInv'
<1>1. LinesKept
  BY DEF LinesKept
<1>2. OcrTypesFit'
  BY DEF OcrInv, OcrTypesFit, GoTo
<1> QED
  BY <1>1, <1>2, LinesKeptKeeps

LEMMA ReadingKeepsInv ==
  ASSUME OcrInv, NEW w \in Workers,
         \/ Claim(w) \/ FindLines(w) \/ FailToRead(w) \/ CheckAgain(w) \/ Report(w)
         \/ \E reading \in Readings : ReadPicture(w, reading)
  PROVE  OcrInv'
<1> USE OcrAssumption
<1>1. CASE Claim(w)
  <2>1. OcrRowsOK' /\ DOMAIN job' = {"status", "attempts"}
    BY <1>1 DEF Claim, OcrInv, DraftIsOneReading, OcrRowsOK
  <2> QED
    BY <1>1, <2>1, MoveOnKeepsInv DEF Claim
<1>2. CASE Report(w)
  <2>1. OcrRowsOK' /\ DOMAIN job' = {"status", "attempts"}
    BY <1>2 DEF Report, OcrInv, OcrTypesFit, DraftIsOneReading, OcrRowsOK
  <2> QED
    BY <1>2, <2>1, MoveOnKeepsInv DEF Report, Sitting
<1>3. ASSUME NEW state, MoveOn(w, state),
             state.step \in {"read", "checked"} =>
               /\ DOMAIN state = {"step", "attempt", "reading"}
               /\ state.reading \in Readings /\ state.reading.size > 0
      PROVE  OcrInv'
  <2>1. OcrRowsOK' /\ DOMAIN job' = {"status", "attempts"}
    BY <1>3 DEF MoveOn, OcrInv, OcrTypesFit, DraftIsOneReading, OcrRowsOK
  <2> QED
    BY <1>3, <2>1, MoveOnKeepsInv DEF MoveOn
<1>4. CASE FindLines(w) \/ FailToRead(w)
  BY <1>3, <1>4 DEF FindLines, FailToRead, End
<1>5. CASE CheckAgain(w)
  <2>1. /\ DOMAIN recog[w] = {"step", "attempt", "reading"}
        /\ recog[w].reading \in Readings /\ recog[w].reading.size > 0
    BY <1>5 DEF CheckAgain, OcrInv, OcrTypesFit
  <2>2. /\ DOMAIN [recog[w] EXCEPT !.step = "checked"] = {"step", "attempt", "reading"}
        /\ [recog[w] EXCEPT !.step = "checked"].reading = recog[w].reading
    BY <2>1
  <2> QED
    BY <1>3, <1>5, <2>1, <2>2 DEF CheckAgain, End
<1>6. ASSUME NEW reading \in Readings, ReadPicture(w, reading)
      PROVE  OcrInv'
  <2>1. CASE reading.size = 0
    BY <1>3, <1>6, <2>1 DEF ReadPicture, End
  <2>2. CASE reading.size # 0
    <3>1. reading.size > 0
      BY <2>2 DEF Readings
    <3> QED
      BY <1>3, <1>6, <2>2, <3>1 DEF ReadPicture
  <2> QED
    BY <2>1, <2>2
<1> QED
  BY <1>1, <1>2, <1>4, <1>5, <1>6

LEMMA NoCardsYet ==
  ASSUME OcrInv, \A l \in lines : l.card = NoCard
  PROVE  cards = <<>>
<1>1. cards \in Seq(Answers \cup {NoCard})
  BY DEF OcrInv, OcrTypesFit
<1>2. \A n \in DOMAIN cards : FALSE
  <2> SUFFICES ASSUME NEW n \in DOMAIN cards
               PROVE  FALSE
    OBVIOUS
  <2>1. n \in Nat
    BY <1>1, LenProperties
  <2>2. {l \in lines : l.card = n} = {}
    BY <2>1, OcrAssumption
  <2> QED
    BY <2>2, FS_EmptySet DEF OcrInv, ConfirmedOnce
<1>3. DOMAIN cards = 1..Len(cards) /\ Len(cards) \in Nat
  BY <1>1, LenProperties
<1>4. Len(cards) = 0
  <2>1. Len(cards) > 0 => 1 \in DOMAIN cards
    BY <1>3
  <2> QED
    BY <1>2, <1>3, <2>1
<1> QED
  BY <1>1, <1>4, EmptySeq

\* The lines of a second reading have a number that the first has: they are refused.
LEMMA InsertKeepsInv ==
  ASSUME OcrInv, NEW w \in Workers, InsertLines(w)
  PROVE  OcrInv'
<1> USE OcrAssumption
<1> DEFINE reading == recog[w].reading
           numbers == 0..(reading.size - 1)
<1>1. reading \in Readings /\ reading.size > 0 /\ reading.size \in Nat /\ 0 \in numbers
  BY DEF InsertLines, OcrInv, OcrTypesFit, Readings
<1>2. CASE numbers \cap Orders # {}
  <2>1. GoTo(w, End(w, "failed")) /\ UNCHANGED <<source, job, lines, cards, form, confirm>>
    BY <1>2 DEF InsertLines, MoveOn
  <2>2. OcrRowsOK' /\ DOMAIN job' = {"status", "attempts"}
    BY <2>1 DEF OcrInv, OcrTypesFit, DraftIsOneReading, OcrRowsOK
  <2> QED
    BY <2>1, <2>2, MoveOnKeepsInv DEF End
<1>3. CASE numbers \cap Orders = {}
  <2>1. lines = {}
    <3>1. ASSUME lines # {} PROVE 0 \in Orders
      BY <3>1 DEF OcrInv, LinesFit, Readings
    <3> QED
      BY <1>1, <1>3, <3>1
  <2>2. /\ lines' = LinesOf(reading)
        /\ GoTo(w, End(w, "succeeded")) /\ UNCHANGED <<source, job, cards, form, confirm>>
    BY <1>3, <2>1 DEF InsertLines
  <2>3. \A l \in lines' : l \in LineRows /\ l.status = "draft" /\ l.card = NoCard
                          /\ l.order \in numbers /\ l.text = reading.text
    BY <1>1, <2>2 DEF LinesOf, LineRows, Readings
  <2>4. \A l, m \in lines' : l.order = m.order => l = m
    BY <2>2 DEF LinesOf
  <2>5. \A i \in numbers : \E l \in lines' : l.order = i
    <3>1. \A i \in numbers : [order |-> i, text |-> reading.text, status |-> "draft",
                               card |-> NoCard] \in lines'
      BY <2>2 DEF LinesOf
    <3> QED
      BY <3>1
  <2> HIDE DEF numbers
  <2>6. Orders' = numbers
    BY <2>3, <2>5 DEF Orders
  <2>7. LinesFit'
    BY <1>1, <2>3, <2>4, <2>6 DEF LinesFit, numbers
  <2>8. OcrRowsOK'
    BY <2>2, <2>3 DEF OcrRowsOK, OcrInv, DraftIsOneReading
  <2>9. DraftIsOneReading'
    <3>1. {[order |-> l.order, text |-> l.text] : l \in lines'}
            = {[order |-> i, text |-> reading.text] : i \in numbers}
      BY <2>3, <2>5
    <3>2. \A p \in Pages : form'[p].lines = {}
      <4>1. Orders = {}
        BY <2>1 DEF Orders
      <4> QED
        BY <2>2, <4>1 DEF OcrInv, DraftIsOneReading
    <3> QED
      BY <1>1, <2>8, <3>1, <3>2 DEF DraftIsOneReading, numbers
  <2>10. cards = <<>> /\ \A q \in Confirms : confirm[q].step # "ok"
    BY <2>1, NoCardsYet DEF OcrInv, ConfirmedOnce, Finalized
  <2>11. ConfirmedOnce'
    BY <2>2, <2>3, <2>10 DEF ConfirmedOnce, Untouched
  <2>12. OcrTypesFit'
    BY <2>2 DEF OcrInv, OcrTypesFit, GoTo, End
  <2> QED
    BY <2>7, <2>9, <2>11, <2>12 DEF OcrInv
<1> QED
  BY <1>2, <1>3

LEMMA FormsKeepInv ==
  ASSUME OcrInv, NEW p \in Pages, UseForm(p)
  PROVE  OcrInv'
<1> USE OcrAssumption
<1>1. /\ UNCHANGED <<source, job, lines, cards, recog>>
      /\ form[p] \in [lines : SUBSET Nat, awaits : SUBSET Confirms]
      /\ Orders \in SUBSET Nat
  BY DEF UseForm, LoadDraft, BreakOff, PressConfirm, HearOutcome, OcrInv, OcrTypesFit, Orders,
         DraftIsOneReading, OcrRowsOK, LineRows
<1>2. OcrRowsOK'
  BY <1>1 DEF OcrInv, DraftIsOneReading, OcrRowsOK
<1>3. CASE LoadDraft(p)
  <2>1. LinesKept
    BY <1>3 DEF LoadDraft, LinesKept, OcrInv, OcrTypesFit
  <2>2. OcrTypesFit'
    BY <1>1, <1>3 DEF LoadDraft, OcrInv, OcrTypesFit
  <2> QED
    BY <1>2, <2>1, <2>2, LinesKeptKeeps
<1>4. CASE BreakOff(p)
  <2>1. LinesKept
    BY <1>1, <1>4 DEF BreakOff, LinesKept, OcrInv, OcrTypesFit
  <2>2. OcrTypesFit'
    BY <1>1, <1>4 DEF BreakOff, OcrInv, OcrTypesFit
  <2> QED
    BY <1>2, <2>1, <2>2, LinesKeptKeeps
<1>5. ASSUME NEW q \in Confirms, NEW decision \in Decisions(form[p].lines),
             PressConfirm(p, q, decision)
      PROVE  OcrInv'
  <2>1. LinesKept
    BY <1>1, <1>5 DEF PressConfirm, LinesKept, OcrInv, OcrTypesFit
  <2>2. OcrTypesFit'
    <3>1. form' \in [Pages -> [lines : SUBSET Nat, awaits : SUBSET Confirms]]
      BY <1>1, <1>5 DEF PressConfirm, OcrInv, OcrTypesFit
    <3>2. /\ DOMAIN decision \subseteq Nat
          /\ \A i \in DOMAIN decision : decision[i] \in Answers \cup {NoCard}
      BY <1>1, <1>5 DEF Decisions
    <3> QED
      BY <1>1, <1>5, <3>1, <3>2 DEF PressConfirm, OcrInv, OcrTypesFit
  <2> QED
    BY <1>2, <2>1, <2>2, LinesKeptKeeps
<1>6. ASSUME NEW q \in Confirms, HearOutcome(p, q)
      PROVE  OcrInv'
  <2>1. LinesKept
    BY <1>1, <1>6 DEF HearOutcome, LinesKept, Blank, OcrInv, OcrTypesFit
  <2>2. OcrTypesFit'
    BY <1>1, <1>6 DEF HearOutcome, Blank, OcrInv, OcrTypesFit
  <2> QED
    BY <1>2, <2>1, <2>2, LinesKeptKeeps
<1> QED
  BY <1>3, <1>4, <1>5, <1>6 DEF UseForm

\* A confirmation goes on without a decision, or repeats what was decided.
LEMMA AnswerKeepsInv ==
  ASSUME OcrInv, NEW q \in Confirms, NEW step,
         AnswerConfirm(q, step), confirm[q].step \in {"sent", "locked"},
         step = "ok" => Finalized /\ IsSameDecision(confirm[q].decision),
         UNCHANGED <<source, job, lines, cards, recog, form>>
  PROVE  OcrInv'
<1>1. DOMAIN confirm[q] = {"step", "decision"}
  BY DEF OcrInv, OcrTypesFit
<1>2. /\ confirm'[q].step = step /\ confirm'[q].decision = confirm[q].decision
      /\ DOMAIN confirm'[q] = {"step", "decision"} /\ DOMAIN confirm' = Confirms
      /\ \A q2 \in Confirms : q2 # q => confirm'[q2] = confirm[q2]
  BY <1>1 DEF AnswerConfirm, OcrInv, OcrTypesFit
<1>3. LinesKept
  BY <1>2 DEF LinesKept
<1>4. OcrTypesFit'
  BY <1>1, <1>2 DEF OcrInv, OcrTypesFit
<1>5. OcrRowsOK'
  BY DEF OcrInv, DraftIsOneReading, OcrRowsOK
<1> QED
  BY <1>3, <1>4, <1>5, LinesKeptKeeps

\* What the lines of a draft are made to by the first confirmation.
LEMMA FinalizeKeepsInv ==
  ASSUME OcrInv, NEW q \in Confirms, confirm[q].step = "locked",
         lines # {}, DOMAIN confirm[q].decision = Orders, Untouched, Finalize(q)
  PROVE  OcrInv'
<1> USE OcrAssumption
<1> DEFINE decision == confirm[q].decision
           chosen == Chosen(decision)
           count == Cardinality(chosen)
<1>1. /\ chosen \in SUBSET Nat /\ chosen \subseteq Orders /\ IsFiniteSet(chosen)
      /\ \A i \in chosen : decision[i] \in Answers
  <2>1. PICK reading \in Readings : Orders = 0..(reading.size - 1)
    <3>1. LinesFit
      BY DEF OcrInv
    <3> QED
      BY <3>1 DEF LinesFit
  <2>2. IsFiniteSet(Orders) /\ Orders \subseteq Nat
    <3>1. reading.size \in Nat
      BY <2>1 DEF Readings
    <3>2. 0 \in Int /\ reading.size - 1 \in Int /\ 0..(reading.size - 1) \subseteq Nat
      BY <3>1
    <3>3. IsFiniteSet(0..(reading.size - 1))
      BY <3>2, FS_Interval
    <3> QED
      BY <2>1, <3>2, <3>3
  <2>3. chosen \subseteq Orders
    BY DEF Chosen
  <2>4. \A i \in Orders : decision[i] \in Answers \cup {NoCard}
    BY DEF OcrInv, OcrTypesFit
  <2> QED
    BY <2>2, <2>3, <2>4, FS_Subset DEF Chosen
<1>2. /\ count \in Nat
      /\ \A i \in chosen : Rank(chosen, i) \in 1..count
      /\ \A i, j \in chosen : Rank(chosen, i) = Rank(chosen, j) => i = j
      /\ \A n \in 1..count : \E i \in chosen : Rank(chosen, i) = n
  BY <1>1, Ranks
<1>3. cards = <<>>
  <2>1. \A l \in lines : l.card = NoCard
    BY DEF OcrInv, ConfirmedOnce, Untouched
  <2> QED
    BY <2>1, NoCardsYet
<1>4. /\ CardsOf(decision) \in Seq(Answers \cup {NoCard})
      /\ DOMAIN CardsOf(decision) = 1..count
      /\ \A i \in chosen : CardsOf(decision)[Rank(chosen, i)] = decision[i]
  <2>1. CardsOf(decision) =
          [n \in 1..count |-> decision[CHOOSE i \in chosen : Rank(chosen, i) = n]]
    BY DEF CardsOf, Rank
  <2>2. \A i \in chosen : (CHOOSE j \in chosen : Rank(chosen, j) = Rank(chosen, i)) = i
    BY <1>2
  <2>3. \A n \in 1..count : (CHOOSE i \in chosen : Rank(chosen, i) = n) \in chosen
    BY <1>2
  <2>4. CardsOf(decision) \in [1..count -> Answers \cup {NoCard}]
    BY <1>1, <2>1, <2>3
  <2>5. \A i \in chosen : CardsOf(decision)[Rank(chosen, i)] = decision[i]
    BY <1>2, <2>1, <2>2
  <2> QED
    BY <1>2, <2>4, <2>5
<1>5. cards' = CardsOf(decision)
  BY <1>3, <1>4, ConcatEmptySeq DEF Finalize
\* Each line keeps its number and its text, and a chosen one gets the card of its rank.
<1>6. \A l \in lines :
        LET new == DecidedLine(l, decision)
        IN  /\ new \in lines' /\ new \in LineRows
            /\ new.order = l.order /\ new.text = l.text
            /\ l.order \in chosen =>
                 new.status = "confirmed" /\ new.card = Rank(chosen, l.order)
            /\ l.order \notin chosen => new.status = "rejected" /\ new.card = NoCard
  <2> SUFFICES ASSUME NEW l \in lines
               PROVE  LET new == DecidedLine(l, decision)
                      IN  /\ new \in lines' /\ new \in LineRows
                          /\ new.order = l.order /\ new.text = l.text
                          /\ l.order \in chosen =>
                               new.status = "confirmed" /\ new.card = Rank(chosen, l.order)
                          /\ l.order \notin chosen => new.status = "rejected" /\ new.card = NoCard
    OBVIOUS
  <2>1. l \in LineRows /\ DecidedLine(l, decision) \in lines'
    BY DEF Finalize, OcrInv, DraftIsOneReading, OcrRowsOK
  <2>2. CASE l.order \in chosen
    <3>1. Len(cards) + Cardinality({j \in chosen : j <= l.order}) = Rank(chosen, l.order)
      BY <1>2, <1>3, <2>2 DEF Rank
    <3>2. DecidedLine(l, decision) =
            [l EXCEPT !.status = "confirmed", !.card = Rank(chosen, l.order)]
      BY <2>2, <3>1 DEF DecidedLine
    <3>3. Rank(chosen, l.order) \in Nat
      BY <1>2, <2>2
    <3> QED
      BY <2>1, <2>2, <3>2, <3>3 DEF LineRows
  <2>3. CASE l.order \notin chosen
    <3>1. DecidedLine(l, decision) = [l EXCEPT !.status = "rejected", !.card = NoCard]
      BY <2>3 DEF DecidedLine
    <3> QED
      BY <2>1, <2>3, <3>1 DEF LineRows
  <2> QED
    BY <2>2, <2>3
<1>7. \A m \in lines' : \E l \in lines : m = DecidedLine(l, decision)
  BY DEF Finalize
<1> HIDE DEF chosen, count, decision
<1>8. \A l, m \in lines' : l.order = m.order => l = m
  BY <1>6, <1>7 DEF OcrInv, LinesFit
<1>9. Orders' = Orders
  BY <1>6, <1>7 DEF Orders
<1>10. OcrRowsOK'
  <2>1. lines' \subseteq LineRows
    BY <1>6, <1>7
  <2> QED
    BY <2>1 DEF Finalize, OcrInv, DraftIsOneReading, OcrRowsOK
<1>11. LinesFit'
  <2>1. PICK reading \in Readings :
          /\ reading.size > 0 /\ Orders = 0..(reading.size - 1)
          /\ \A l \in lines : l.text = reading.text
    BY DEF OcrInv, LinesFit
  <2>2. \A l \in lines' : l.text = reading.text
    BY <1>6, <1>7, <2>1
  <2> QED
    BY <1>8, <1>9, <2>1, <2>2 DEF LinesFit
<1>12. DraftIsOneReading'
  <2>1. {[order |-> l.order, text |-> l.text] : l \in lines'}
          = {[order |-> l.order, text |-> l.text] : l \in lines}
    BY <1>6, <1>7
  <2> QED
    BY <1>9, <1>10, <2>1 DEF Finalize, OcrInv, DraftIsOneReading
<1>13. \A l \in lines' :
         \/ /\ l.order \in chosen /\ l.status = "confirmed" /\ l.card = Rank(chosen, l.order)
            /\ l.card \in 1..count
         \/ l.order \notin chosen /\ l.status = "rejected" /\ l.card = NoCard
  BY <1>2, <1>6, <1>7
<1>14. count \in Nat /\ NoCard \notin 1..count
  BY <1>2
<1>15. Finalized'
  <2>1. lines' # {}
    BY <1>6
  <2> QED
    BY <1>13, <2>1 DEF Finalized
<1>16. \A n \in DOMAIN cards' : Cardinality({l \in lines' : l.card = n}) = 1
  <2> SUFFICES ASSUME NEW n \in 1..count
               PROVE  Cardinality({l \in lines' : l.card = n}) = 1
    BY <1>4, <1>5 DEF count, decision
  <2>1. PICK i \in chosen : Rank(chosen, i) = n
    BY <1>2
  <2>2. PICK l \in lines : l.order = i
    BY <1>1, <2>1 DEF Orders
  <2>3. DecidedLine(l, decision).card = n /\ DecidedLine(l, decision) \in lines'
        /\ DecidedLine(l, decision).order = i
    BY <1>6, <2>1, <2>2
  <2>4. \A m \in lines' : m.card = n => m.order = i
    BY <1>2, <1>13, <1>14, <2>1
  <2>5. {m \in lines' : m.card = n} = {DecidedLine(l, decision)}
    BY <1>8, <2>3, <2>4
  <2> QED
    BY <2>5, FS_Singleton
<1>17. /\ confirm'[q].step = "ok" /\ confirm'[q].decision = decision
       /\ DOMAIN confirm'[q] = {"step", "decision"} /\ DOMAIN confirm' = Confirms
       /\ \A q2 \in Confirms : q2 # q => confirm'[q2] = confirm[q2]
  <2>1. DOMAIN confirm[q] = {"step", "decision"}
    BY DEF OcrInv, OcrTypesFit
  <2> QED
    BY <2>1 DEF Finalize, AnswerConfirm, OcrInv, OcrTypesFit, decision
<1>18. IsSameDecision(confirm[q].decision)'
  <2>1. \A l \in lines' : IF l.order \in chosen
                            THEN l.status = "confirmed" /\ cards'[l.card] = decision[l.order]
                            ELSE l.status = "rejected"
    BY <1>4, <1>5, <1>13
  <2> QED
    BY <1>17, <2>1 DEF IsSameDecision, chosen
<1>19. \A q2 \in Confirms : q2 # q => confirm[q2].step # "ok"
  BY DEF OcrInv, ConfirmedOnce, Finalized, Untouched
<1>20. ConfirmedOnce'
  <2>1. \A l \in lines' : /\ l.status = "confirmed" <=> l.card # NoCard
                          /\ l.card # NoCard => l.card \in DOMAIN cards'
    BY <1>4, <1>5, <1>13, <1>14 DEF count, decision
  <2>2. \A q2 \in Confirms : confirm'[q2].step = "ok" => q2 = q
    BY <1>17, <1>19
  <2> QED
    BY <1>15, <1>16, <1>18, <2>1, <2>2 DEF ConfirmedOnce
<1>21. OcrTypesFit'
  <2>1. /\ DOMAIN confirm'[q].decision \subseteq Nat
        /\ \A i \in DOMAIN confirm'[q].decision :
             confirm'[q].decision[i] \in Answers \cup {NoCard}
    BY <1>17 DEF OcrInv, OcrTypesFit, decision
  <2>2. \A q2 \in Confirms :
          \/ confirm'[q2].step = "unused"
          \/ /\ DOMAIN confirm'[q2] = {"step", "decision"}
             /\ DOMAIN confirm'[q2].decision \subseteq Nat
             /\ \A i \in DOMAIN confirm'[q2].decision :
                  confirm'[q2].decision[i] \in Answers \cup {NoCard}
    BY <1>17, <2>1 DEF OcrInv, OcrTypesFit
  <2>3. cards' \in Seq(Answers \cup {NoCard})
    BY <1>4, <1>5
  <2> QED
    BY <1>17, <2>2, <2>3 DEF Finalize, OcrInv, OcrTypesFit
<1> QED
  BY <1>11, <1>12, <1>20, <1>21 DEF OcrInv

LEMMA ConfirmKeepsInv ==
  ASSUME OcrInv, NEW q \in Confirms, LockDraft(q) \/ DecideLines(q) \/ Drop(q)
  PROVE  OcrInv'
<1>1. CASE LockDraft(q)
  BY <1>1, AnswerKeepsInv DEF LockDraft, AnswerConfirm
<1>2. CASE Drop(q)
  BY <1>2, AnswerKeepsInv DEF Drop
<1>3. CASE DecideLines(q)
  <2>1. CASE lines # {} /\ DOMAIN confirm[q].decision = Orders /\ Untouched
    BY <1>3, <2>1, FinalizeKeepsInv DEF DecideLines, MayFinalize
  <2>2. CASE ~(lines # {} /\ DOMAIN confirm[q].decision = Orders)
    BY <1>3, <2>2, AnswerKeepsInv DEF DecideLines
  <2>3. CASE lines # {} /\ DOMAIN confirm[q].decision = Orders /\ ~Untouched
    <3>1. Finalized
      BY <2>3 DEF OcrInv, ConfirmedOnce
    <3>2. CASE IsSameDecision(confirm[q].decision)
      BY <1>3, <2>3, <3>1, <3>2, AnswerKeepsInv DEF DecideLines, MayFinalize
    <3>3. CASE ~IsSameDecision(confirm[q].decision)
      BY <1>3, <2>3, <3>3, AnswerKeepsInv DEF DecideLines, MayFinalize
    <3> QED
      BY <3>2, <3>3
  <2> QED
    BY <2>1, <2>2, <2>3
<1> QED
  BY <1>1, <1>2, <1>3

LEMMA OcrStep ==
  ASSUME OcrInv, [OcrNext]_ocrVars
  PROVE  OcrInv'
<1>1. CASE UNCHANGED ocrVars
  <2>1. LinesKept /\ OcrTypesFit' /\ OcrRowsOK'
    BY <1>1 DEF ocrVars, LinesKept, OcrInv, OcrTypesFit, DraftIsOneReading, OcrRowsOK
  <2> QED
    BY <2>1, LinesKeptKeeps
<1> QED
  BY <1>1, JobKeepsInv, ReadingKeepsInv, InsertKeepsInv, FormsKeepInv, ConfirmKeepsInv
     DEF OcrNext, Recognize

LEMMA OcrInvHolds == OcrSpec => []OcrInv
<1>1. OcrInv /\ [OcrNext]_ocrVars => OcrInv'
  BY OcrStep
<1> QED
  BY <1>1, InitOcr, PTL DEF OcrSpec

\* The lines of a draft are one reading, whole, whatever number of workers read the
\* picture at once.
THEOREM OneReadingIsKept == OcrSpec => []DraftIsOneReading
<1>1. OcrInv => DraftIsOneReading
  BY DEF OcrInv
<1> QED
  BY <1>1, OcrInvHolds, PTL

\* A draft is decided once, and each of its cards is of one line.
THEOREM DecidedOnce == OcrSpec => []ConfirmedOnce
<1>1. OcrInv => ConfirmedOnce
  BY DEF OcrInv
<1> QED
  BY <1>1, OcrInvHolds, PTL
==============================================================================
