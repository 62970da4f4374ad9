----------------------------- MODULE AudioPlayback -----------------------------
(***************************************************************************)
(* The player of a dictation page: it plays the words of a round one after *)
(* the other, reports each word that was heard to its end, and goes on     *)
(* after the interval once the report is saved.                            *)
(*                                                                         *)
(* Source: src/components/dictation/audio-playback.ts, the class           *)
(* AudioPlayback, and audio-sequence.tsx, which mounts one player per      *)
(* round and set of audio files and offers its operations as buttons.      *)
(* One action is what the code does between two awaits.  A run is the      *)
(* asynchronous loop begun by start or replay; an aborted run does nothing *)
(* any more, since whatever it awaits is rejected by its signal.  Words    *)
(* are positions in the round; the repetitions of a word count as one play.*)
(***************************************************************************)
EXTENDS Integers, Sequences

CONSTANTS
  Pages,  \* the pages of the child, each with a place for a player
  None    \* no loop is under way

VARIABLES
  run,          \* the loop under way on each page
  paused,       \* it is paused
  readiness,    \* without a loop: "preloading", "ready" or "failed"
  activeIndex   \* the word shown as current: 1 for the first of the round

playerVars == <<run, paused, readiness, activeIndex>>

\* What the player reads of a view: the words of the round, those already
\* played and the version it is to report against.
RunKinds  == {"sequence", "replay"}
RunPlaces == {"playing", "saving", "waiting"}

Run == [kind : RunKinds, at : RunPlaces, index : Nat, version : Nat,
        items : Nat, single : BOOLEAN]

\* The state a player shows, by which its buttons are offered.
PlayerState(p) ==
  IF run[p] = None THEN readiness[p]
  ELSE IF paused[p] THEN "paused"
  ELSE IF run[p].at = "waiting" THEN "waiting" ELSE "playing"

-----------------------------------------------------------------------------
(***************************************************************************)
(* Mounting and preparing.                                                 *)
(***************************************************************************)

\* A new player for the audio files of a view.  The word shown as current is
\* kept when only the files changed.  (Then the code goes on showing the state of
\* the player before until the new files are loaded; here that is "preloading".
\* Files change only after audio was lost, see LoseAudio.)
MountPlayer(p, index) ==
  /\ run' = [run EXCEPT ![p] = None]
  /\ paused' = [paused EXCEPT ![p] = FALSE]
  /\ readiness' = [readiness EXCEPT ![p] = "preloading"]
  /\ activeIndex' = [activeIndex EXCEPT ![p] = index]

\* Every file is loaded, or one of them failed to load or took too long.
Prepare(p, outcome) ==
  /\ run[p] = None
  /\ readiness[p] = "preloading"
  /\ readiness' = [readiness EXCEPT ![p] = outcome]
  /\ UNCHANGED <<run, paused, activeIndex>>

RetryPreload(p) ==
  /\ PlayerState(p) = "failed"
  /\ MountPlayer(p, activeIndex[p])

-----------------------------------------------------------------------------
(***************************************************************************)
(* A run.                                                                  *)
(***************************************************************************)

Begin(p, kind, index, session) ==
  /\ run' = [run EXCEPT ![p] =
       [kind |-> kind, at |-> "playing", index |-> index,
        version |-> session.version, items |-> Len(session.round),
        single |-> session.single]]
  /\ paused' = [paused EXCEPT ![p] = FALSE]
  /\ activeIndex' = [activeIndex EXCEPT ![p] = index]
  /\ UNCHANGED readiness

\* The loop goes on with the first word that was not played yet.
StartPlayback(p, session) ==
  /\ PlayerState(p) = "ready"
  /\ Len(session.played) < Len(session.round)
  /\ Begin(p, "sequence", Len(session.played) + 1, session)

\* The current word once more, if it was played: the played words are the
\* beginning of the round.  A loop under way is given up for it.
Replay(p, session) ==
  /\ PlayerState(p) \in {"ready", "waiting", "paused"}
  /\ activeIndex[p] <= Len(session.played)
  /\ Begin(p, "replay", activeIndex[p], session)

\* The word is heard to its end: it is reported at once.
HearToEnd(p) ==
  /\ run[p] # None
  /\ run[p].at = "playing"
  /\ ~paused[p]
  /\ run' = [run EXCEPT ![p].at = "saving"]
  /\ UNCHANGED <<paused, readiness, activeIndex>>

\* Fault: the report that ends the round never says so.
NeverFinished(r) == r.kind = "sequence" /\ r.single

\* What the report says of the round: a replay never finishes it.
Finished(r) == r.kind = "sequence" /\ (r.single \/ r.index = r.items)

\* Fault: the loop goes on with the version it was started with.
FaultySaved(p, accepted) ==
  /\ IF accepted /\ run[p].kind = "sequence" /\ ~Finished(run[p])
       THEN run' = [run EXCEPT ![p].at = "waiting"] /\ UNCHANGED <<paused, readiness>>
       ELSE /\ run' = [run EXCEPT ![p] = None]
            /\ paused' = [paused EXCEPT ![p] = FALSE]
            /\ readiness' = [readiness EXCEPT ![p] = "ready"]
  /\ UNCHANGED activeIndex

\* The report was answered.  The loop goes on only after a saved word that is
\* not the last, and counts the version of the session on its own.
Saved(p, accepted) ==
  /\ IF accepted /\ run[p].kind = "sequence" /\ ~Finished(run[p])
       THEN /\ run' = [run EXCEPT ![p].at = "waiting", ![p].version = @ + 1]
            /\ UNCHANGED <<paused, readiness>>
       ELSE /\ run' = [run EXCEPT ![p] = None]
            /\ paused' = [paused EXCEPT ![p] = FALSE]
            /\ readiness' = [readiness EXCEPT ![p] = "ready"]
  /\ UNCHANGED activeIndex

\* The interval for writing is over.
PlayNext(p) ==
  /\ run[p] # None
  /\ run[p].at = "waiting"
  /\ ~paused[p]
  /\ run' = [run EXCEPT ![p].at = "playing", ![p].index = @ + 1]
  /\ activeIndex' = [activeIndex EXCEPT ![p] = run[p].index + 1]
  /\ UNCHANGED <<paused, readiness>>

\* An audio element fails, at the start of a word, within it, or on resuming.
FailToPlay(p) ==
  /\ run[p] # None
  /\ run[p].at = "playing"
  /\ run' = [run EXCEPT ![p] = None]
  /\ paused' = [paused EXCEPT ![p] = FALSE]
  /\ readiness' = [readiness EXCEPT ![p] = "failed"]
  /\ UNCHANGED activeIndex

\* Pausing is offered while a report is being saved, too.
Pause(p) ==
  /\ PlayerState(p) \in {"playing", "waiting"}
  /\ paused' = [paused EXCEPT ![p] = TRUE]
  /\ UNCHANGED <<run, readiness, activeIndex>>

Resume(p) ==
  /\ PlayerState(p) = "paused"
  /\ paused' = [paused EXCEPT ![p] = FALSE]
  /\ UNCHANGED <<run, readiness, activeIndex>>

DisposePlayer(p) == MountPlayer(p, 0)
=============================================================================
