---------------------------- MODULE AudioRecording ----------------------------
(***************************************************************************)
(* Recording a voice as evidence: the permission for the microphone, the   *)
(* recorder of the browser and its late events, and the buttons that       *)
(* start, stop and cancel in between.                                      *)
(*                                                                         *)
(* Source: src/modules/todos/recording.ts, and its use in                  *)
(* src/components/todos/todo-submission.tsx.  Each start is a generation;  *)
(* its stream and its recorder are named after it.                         *)
(***************************************************************************)
EXTENDS Naturals

CONSTANT MaxGeneration \* bound: of the starts and cancels of one form

ASSUME RecordingAssumption == MaxGeneration \in Nat

Generations == 1..MaxGeneration

VARIABLES
  phase,      \* state.phase
  file,       \* the generation whose recording the form offers, or 0
  generation,
  disposed,
  asking,     \* the starts that wait for the permission
  live,       \* the streams whose tracks hold the microphone
  stream,     \* the variable: a generation, or 0
  recorder,   \* the variable: a generation, or 0
  device,     \* each MediaRecorder of the browser
  heard,      \* the recorders that gave a chunk
  failed      \* the starts that failed

recordingVars ==
  <<phase, file, generation, disposed, asking, live, stream, recorder, device, heard, failed>>

RecordingInit ==
  /\ phase = "idle" /\ file = 0
  /\ generation = 0 /\ disposed = FALSE
  /\ asking = {} /\ live = {} /\ stream = 0 /\ recorder = 0
  /\ device = [g \in Generations |-> "none"]
  /\ heard = {} /\ failed = {}

-----------------------------------------------------------------------------

Publish(next, of) == phase' = next /\ file' = of

Release == stream' = 0 /\ live' = live \ {stream}

\* The browser stops a recorder that runs; its last events are still to come.
Halted(r) ==
  [g \in Generations |-> IF g = r /\ device[g] = "recording" THEN "stopping" ELSE device[g]]

\* Of no effect once the form is gone or another start or a cancel came.
IsCurrent(g) == ~disposed /\ g = generation

Fail(g) ==
  /\ failed' = failed \cup {g}
  /\ Release
  /\ Publish("error", 0)

CancelRecording ==
  /\ generation < MaxGeneration
  /\ generation' = generation + 1
  /\ device' = Halted(recorder)
  /\ recorder' = 0
  /\ Release
  /\ Publish("idle", 0)
  /\ UNCHANGED <<asking, heard, failed>>

-----------------------------------------------------------------------------
(***************************************************************************)
(* The buttons.                                                            *)
(***************************************************************************)

IsBusy == phase \in {"requesting", "recording", "stopping"}

\* The browser has to know a format, or the start fails at once.
StartRecording(supported) ==
  /\ ~disposed /\ ~IsBusy
  /\ generation < MaxGeneration
  /\ generation' = generation + 1
  /\ IF supported
       THEN /\ Publish("requesting", 0)
            /\ asking' = asking \cup {generation + 1}
            /\ UNCHANGED <<live, stream, failed>>
       ELSE Fail(generation + 1) /\ UNCHANGED asking
  /\ UNCHANGED <<disposed, recorder, device, heard>>

\* The button, leaving the page, the end of five minutes, or of the microphone.
StopNow ==
  IF phase = "requesting" THEN CancelRecording
  ELSE /\ Publish("stopping", 0)
       /\ device' = Halted(recorder)
       /\ Release
       /\ UNCHANGED <<generation, asking, recorder, heard, failed>>

StopRecording == phase \in {"requesting", "recording"} /\ StopNow /\ UNCHANGED disposed

\* The button while the permission is asked for, a change of the kind of evidence, or
\* the recording was submitted.
PressCancelRecording ==
  /\ ~disposed
  /\ phase \in {"requesting", "idle", "ready", "error"}
  /\ CancelRecording
  /\ UNCHANGED disposed

Dispose == ~disposed /\ disposed' = TRUE /\ CancelRecording

-----------------------------------------------------------------------------
(***************************************************************************)
(* The events of the browser.                                              *)
(***************************************************************************)

\* Fault: a permission that comes late is used.
FaultyIsWanted(g) == ~disposed

IsWanted(g) == IsCurrent(g)

\* A stream that nobody wants any more is stopped; the recorder may refuse it.
Grant(g, works) ==
  /\ g \in asking
  /\ asking' = asking \ {g}
  /\ IF ~IsWanted(g)
       THEN UNCHANGED <<phase, file, live, stream, recorder, device, failed>>
     ELSE IF works
       THEN /\ stream' = g /\ live' = live \cup {g}
            /\ recorder' = g
            /\ device' = [device EXCEPT ![g] = "recording"]
            /\ Publish("recording", 0)
            /\ UNCHANGED failed
       ELSE /\ stream' = 0
            /\ failed' = failed \cup {g}
            /\ Publish("error", 0)
            /\ UNCHANGED <<live, recorder, device>>
  /\ UNCHANGED <<generation, disposed, heard>>

Deny(g) ==
  /\ g \in asking
  /\ asking' = asking \ {g}
  /\ IF IsCurrent(g) THEN Fail(g) ELSE UNCHANGED <<phase, file, live, stream, failed>>
  /\ UNCHANGED <<generation, disposed, recorder, device, heard>>

\* A chunk, the last of them after the stop; one too many and the recording fails.
OnData(g, tooLarge) ==
  /\ device[g] \in {"recording", "stopping"}
  /\ g \notin failed /\ IsCurrent(g)
  /\ IF tooLarge
       THEN Fail(g) /\ device' = Halted(recorder) /\ UNCHANGED heard
       ELSE heard' = heard \cup {g} /\ UNCHANGED <<phase, file, live, stream, device, failed>>
  /\ UNCHANGED <<generation, disposed, asking, recorder>>

OnError(g) ==
  /\ device[g] \in {"recording", "stopping"}
  /\ IF IsCurrent(g)
       THEN Fail(g) /\ device' = Halted(g)
       ELSE UNCHANGED <<phase, file, live, stream, failed>> /\ device' = Halted(g)
  /\ UNCHANGED <<generation, disposed, asking, recorder, heard>>

\* The recording is offered, if there is any sound in it.
OnStop(g) ==
  /\ device[g] = "stopping"
  /\ device' = [device EXCEPT ![g] = "stopped"]
  /\ IF ~IsCurrent(g) THEN UNCHANGED <<phase, file, live, stream, failed>>
     ELSE IF g \in failed THEN Release /\ UNCHANGED <<phase, file, failed>>
     ELSE IF g \notin heard THEN Fail(g)
     ELSE Release /\ Publish("ready", g) /\ UNCHANGED failed
  /\ UNCHANGED <<generation, disposed, asking, recorder, heard>>

\* The microphone is pulled out: its recorder stops by itself.  The form hears of it
\* before or after the recorder does (StopRecording, OnStop).
Unplug(g) ==
  /\ g \in live
  /\ live' = live \ {g}
  /\ device' = Halted(g)
  /\ UNCHANGED <<phase, file, generation, disposed, asking, stream, recorder, heard, failed>>

RecordingNext ==
  \/ \E supported \in BOOLEAN : StartRecording(supported)
  \/ StopRecording \/ PressCancelRecording \/ Dispose
  \/ \E g \in Generations :
       \/ \E works \in BOOLEAN : Grant(g, works)
       \/ Deny(g)
       \/ \E tooLarge \in BOOLEAN : OnData(g, tooLarge)
       \/ OnError(g) \/ OnStop(g) \/ Unplug(g)

RecordingSpec == RecordingInit /\ [][RecordingNext]_recordingVars

-----------------------------------------------------------------------------

\* The microphone is held only while the form says that it records, by the start that
\* is current, and never after the form is left, however late the permission comes;
\* what the form offers is the recording of its last start, with sound in it.
MicrophoneIsReleased ==
  /\ phase \in {"idle", "requesting", "recording", "stopping", "ready", "error"}
  /\ live # {} => phase = "recording" /\ live = {generation} /\ ~disposed
  /\ \A g \in Generations : device[g] = "recording" => g = generation /\ g \notin failed
  /\ phase = "ready" <=> file # 0
  /\ file # 0 => file = generation /\ file \in heard \ failed
=============================================================================
