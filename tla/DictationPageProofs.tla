-------------------------- MODULE DictationPageProofs --------------------------
(***************************************************************************)
(* Page, player, network and server keep fitting together for every list,  *)
(* any number of pages, rounds and detours: the theorems about             *)
(* DictationPage.  The inductive invariant says of everything that shows a *)
(* version of the session that nothing shows a version to come, and that   *)
(* what shows the version of now shows the session as it is; and of every  *)
(* page that its loop and its command are about the view it shows.         *)
(***************************************************************************)
EXTENDS DictationPage, SequenceTheorems, FiniteSetTheorems, TLAPS

LEMMA RangeOfList ==
  ASSUME NEW S, NEW s \in Seq(S)
  PROVE  /\ Len(s) \in Nat
         /\ DOMAIN s = 1..Len(s)
         /\ \A k \in 1..Len(s) : s[k] \in S
         /\ s = <<>> <=> Len(s) = 0
OBVIOUS

LEMMA ListOfFunction ==
  ASSUME NEW S, NEW n \in Nat, NEW s \in [1..n -> S]
  PROVE  s \in Seq(S) /\ Len(s) = n
OBVIOUS

LEMMA JoinedLists ==
  ASSUME NEW S, NEW s \in Seq(S), NEW t \in Seq(S)
  PROVE  s \o t \in Seq(S) /\ Len(s \o t) = Len(s) + Len(t)
OBVIOUS

LEMMA AppendedList ==
  ASSUME NEW S, NEW s \in Seq(S), NEW e \in S
  PROVE  /\ Append(s, e) \in Seq(S) /\ s \o <<e>> = Append(s, e)
         /\ Len(Append(s, e)) = Len(s) + 1
         /\ \A k \in 1..Len(s) : Append(s, e)[k] = s[k]
         /\ Append(s, e)[Len(s) + 1] = e
OBVIOUS

-----------------------------------------------------------------------------
(***************************************************************************)
(* The inductive invariant.                                                *)
(***************************************************************************)

Commands == Playback \cup Grading

TablesFit ==
  /\ DOMAIN view = Pages /\ DOMAIN retry = Pages /\ DOMAIN pending = Pages
  /\ DOMAIN retryLocked = Pages /\ DOMAIN revoked = Pages /\ DOMAIN run = Pages
  /\ DOMAIN grader = Pages /\ DOMAIN draft = Pages /\ activeIndex \in [Pages -> Nat]
  /\ DOMAIN paused = Pages /\ DOMAIN readiness = Pages

\* What is true of a session at any version: the played words are the beginning
\* of the round, listening has words left, and item by item the words are marked
\* as they are heard.
StateFits(s, m) ==
  /\ s.version \in Nat /\ s.roundNumber \in Nat
  /\ s.phase \in {"listening", "grading", "completed"}
  /\ s.round \in Seq(Items) /\ s.played \in Seq(Items) /\ s.marked \in Seq(Items)
  /\ IsInjective(s.round) /\ s.round # <<>>
  /\ Len(s.played) <= Len(s.round)
  /\ \A k \in 1..Len(s.played) : s.played[k] = s.round[k]
  /\ s.phase = "listening" => Len(s.played) < Len(s.round)
  /\ m = "item_by_item" =>
       /\ s.phase = "listening" => Len(s.played) = Len(s.marked)
       /\ s.phase = "grading" => Len(s.played) = Len(s.marked) + 1

\* What others change beside the session.
OthersFit ==
  /\ media \in [files : Nat, active : BOOLEAN]
  /\ withdrawn \in BOOLEAN

ServerFits ==
  /\ StateFits(Snapshot, mode)
  /\ mode \in Modes
  /\ OthersFit

\* Nothing shows a version that is still to come, and what shows the version of
\* now shows the session as it is.
Shows(s, now, m) ==
  /\ StateFits(s, m)
  /\ s.version <= now.version
  /\ s.version = now.version =>
       /\ s.phase = now.phase /\ s.roundNumber = now.roundNumber
       /\ s.round = now.round /\ s.played = now.played /\ s.marked = now.marked

StoreFits ==
  /\ DOMAIN stored \subseteq Referenced
  /\ \A cmd \in DOMAIN stored : Shows(stored[cmd], Snapshot, mode)

\* A report names the first word not played yet, and finishes the round exactly
\* if it is the last of it or words are marked one by one, or it repeats a word.
Reports(cmd, now, m) ==
  /\ now.phase = "listening"
  /\ cmd.round = now.roundNumber
  /\ \E k \in 1..Len(now.played) + 1 :
       /\ cmd.list = <<now.round[k]>>
       /\ k <= Len(now.played) => ~cmd.finished
       /\ k > Len(now.played) =>
            (cmd.finished <=> (m = "item_by_item" \/ k = Len(now.round)))

CommandFits(cmd, now, m) ==
  /\ cmd \in Commands
  /\ cmd.version <= now.version
  /\ cmd.type = "playback" /\ cmd.version = now.version => Reports(cmd, now, m)

CommandsFit == \A cmd \in Referenced : CommandFits(cmd, Snapshot, mode)

Kinds == {"none", "ok", "inactive", "conflict", "rejected"}

\* An answer is awaited for the command of the page, and for one request only.
RequestFits(r) ==
  /\ DOMAIN r = {"page", "cmd", "awaited", "result"}
  /\ r.page \in Pages
  /\ r.result.kind \in Kinds
  /\ r.awaited => /\ retry[r.page] = r.cmd /\ pending[r.page]
                  /\ r.result.kind = "ok" => /\ r.cmd \in DOMAIN stored
                                             /\ r.result.snapshot = stored[r.cmd]

RequestsFit ==
  /\ IsFiniteSet(requests)
  /\ \A r \in requests : RequestFits(r)
  /\ \A r, q \in requests : r.awaited /\ q.awaited /\ r.page = q.page => r = q

ViewFits(v, now, m) ==
  v # None => /\ Shows(v, now, m) /\ v \in View
              /\ v.single <=> m = "item_by_item"

\* The command of a page is one of the view it shows, also when it is recorded.
FromView(cmd, v, entries) ==
  cmd # None =>
    /\ v # None
    /\ cmd.version = v.version
    /\ cmd.round = v.roundNumber
    /\ cmd \in DOMAIN entries =>
         /\ entries[cmd].version = v.version + 1
         /\ cmd.type = "playback" /\ v.phase = "listening" =>
              /\ entries[cmd].round = v.round
              /\ cmd.list = <<v.round[Len(v.played) + 1]>> =>
                   Len(entries[cmd].played) = Len(v.played) + 1

\* A loop under way reports for the view shown, and is saving exactly while the
\* page has a command.
LoopFits(l, v, cmd) ==
  l # None =>
    /\ l \in Run
    /\ v # None /\ v.phase = "listening"
    /\ l.version = v.version
    /\ l.items = Len(v.round)
    /\ l.single <=> v.single
    /\ l.index \in 1..Len(v.round)
    /\ l.at = "waiting" => l.kind = "sequence" /\ l.index = Len(v.played)
    /\ l.at # "waiting" /\ l.kind = "sequence" => l.index = Len(v.played) + 1
    /\ l.kind = "replay" => l.index <= Len(v.played)
    /\ l.at = "saving" <=> cmd # None
    /\ cmd # None => cmd.type = "playback" /\ cmd.list = <<v.round[l.index]>>

PageFits(p) ==
  /\ ViewFits(view[p], Snapshot, mode)
  /\ grader[p] # None => view[p] # None /\ view[p].phase = "grading"
                         /\ grader[p] = view[p].version
  /\ pending[p] \/ retryLocked[p] <=> retry[p] # None
  /\ FromView(retry[p], view[p], stored)
  /\ Listens(p) => activeIndex[p] >= 1
  /\ LoopFits(run[p], view[p], retry[p])

PagesFit == \A p \in Pages : PageFits(p)

IInv ==
  /\ TablesFit
  /\ ServerFits
  /\ StoreFits
  /\ CommandsFit
  /\ RequestsFit
  /\ PagesFit

-----------------------------------------------------------------------------
(***************************************************************************)
(* What stays.                                                             *)
(***************************************************************************)

PageSame(p) ==
  /\ view'[p] = view[p] /\ retry'[p] = retry[p]
  /\ pending'[p] = pending[p] /\ retryLocked'[p] = retryLocked[p]
  /\ revoked'[p] = revoked[p] /\ run'[p] = run[p]
  /\ activeIndex'[p] = activeIndex[p] /\ grader'[p] = grader[p]

SessionSame == Snapshot' = Snapshot /\ mode' = mode

StoredShrinks ==
  \A cmd \in DOMAIN stored' : cmd \in DOMAIN stored /\ stored'[cmd] = stored[cmd]

\* A command that is forgotten asks nothing of the view any more.
LEMMA FromViewShrinks ==
  ASSUME StoredShrinks, NEW cmd, NEW v, FromView(cmd, v, stored)
  PROVE  FromView(cmd, v, stored')
BY DEF StoredShrinks, FromView

LEMMA PageStays ==
  ASSUME NEW p \in Pages, PageFits(p), PageSame(p), SessionSame, StoredShrinks
  PROVE  PageFits(p)'
<1>1. /\ ViewFits(view'[p], Snapshot', mode')
      /\ LoopFits(run'[p], view'[p], retry'[p])
  BY DEF PageFits, PageSame, SessionSame
<1>2. FromView(retry'[p], view'[p], stored')
  BY FromViewShrinks DEF PageFits, PageSame
<1>3. grader'[p] # None => view'[p] # None /\ view'[p].phase = "grading"
                           /\ grader'[p] = view'[p].version
  BY DEF PageFits, PageSame
<1>4. pending'[p] \/ retryLocked'[p] <=> retry'[p] # None
  BY DEF PageFits, PageSame
<1>5. Listens(p)' => activeIndex'[p] >= 1
  BY DEF PageFits, PageSame, Listens
<1> QED
  BY <1>1, <1>2, <1>3, <1>4, <1>5 DEF PageFits

\* A step that leaves the session alone is about the requests and its own page.
LEMMA PagesGoOn ==
  ASSUME IInv, TablesFit', SessionSame, OthersFit',
         StoredShrinks, DOMAIN stored' \subseteq Referenced',
         \A cmd \in Referenced' \ Referenced : CommandFits(cmd, Snapshot, mode),
         RequestsFit',
         \A p \in Pages : PageSame(p) \/ PageFits(p)'
  PROVE  IInv'
<1>1. ServerFits'
  BY DEF IInv, ServerFits, SessionSame
<1>2. StoreFits'
  BY DEF IInv, StoreFits, SessionSame, StoredShrinks
<1>3. CommandsFit'
  <2>1. \A cmd \in Referenced' : CommandFits(cmd, Snapshot, mode)
    BY DEF IInv, CommandsFit
  <2> QED
    BY <2>1 DEF CommandsFit, SessionSame
<1>4. PagesFit'
  <2>1. ASSUME NEW p \in Pages PROVE PageFits(p)'
    BY PageStays DEF IInv, PagesFit
  <2> QED
    BY <2>1 DEF PagesFit
<1> QED
  BY <1>1, <1>2, <1>3, <1>4 DEF IInv

LEMMA SessionStays ==
  ASSUME ServerFits, UNCHANGED sessionVars
  PROVE  SessionSame /\ OthersFit'
BY DEF ServerFits, OthersFit, sessionVars, machineVars, SessionSame, Snapshot

LEMMA StoreShrinks ==
  ASSUME StoreFits, Store(stored)
  PROVE  /\ StoredShrinks
         /\ DOMAIN stored' \subseteq Referenced'
         /\ \A cmd \in DOMAIN stored \cap Referenced' :
              cmd \in DOMAIN stored' /\ stored'[cmd] = stored[cmd]
BY DEF Store, StoredShrinks

\* Requests of other pages, and requests nobody waits for, stay as they are.
LEMMA RequestsStay ==
  ASSUME RequestsFit, requests' \subseteq requests,
         \A r \in requests' : r.awaited =>
           /\ retry'[r.page] = retry[r.page] /\ (pending[r.page] => pending'[r.page])
           /\ r.cmd \in DOMAIN stored =>
                r.cmd \in DOMAIN stored' /\ stored'[r.cmd] = stored[r.cmd]
  PROVE  RequestsFit'
<1>1. IsFiniteSet(requests')
  BY FS_Subset DEF RequestsFit
<1>2. ASSUME NEW r \in requests' PROVE RequestFits(r)'
  BY DEF RequestsFit, RequestFits
<1>3. \A r, q \in requests' : r.awaited /\ q.awaited /\ r.page = q.page => r = q
  BY DEF RequestsFit
<1> QED
  BY <1>1, <1>2, <1>3 DEF RequestsFit

-----------------------------------------------------------------------------
(***************************************************************************)
(* The player's steps.                                                     *)
(***************************************************************************)

LEMMA PlayerStep ==
  ASSUME IInv, NEW p \in Pages, NoneButPlayer,
         DOMAIN run' = Pages, DOMAIN paused' = Pages, DOMAIN readiness' = Pages,
         activeIndex' \in [Pages -> Nat],
         \A q \in Pages \ {p} : run'[q] = run[q] /\ activeIndex'[q] = activeIndex[q],
         LoopFits(run'[p], view[p], retry[p]),
         Listens(p) => activeIndex'[p] >= 1
  PROVE  IInv'
<1>1. /\ view' = view /\ retry' = retry /\ pending' = pending
      /\ retryLocked' = retryLocked /\ revoked' = revoked
      /\ grader' = grader /\ draft' = draft
      /\ requests' = requests /\ stored' = stored
      /\ UNCHANGED sessionVars
  BY DEF NoneButPlayer, serverVars, commandVars, markVars
<1>2. TablesFit'
  BY <1>1 DEF IInv, TablesFit
<1>3. SessionSame /\ OthersFit'
  BY <1>1, SessionStays DEF IInv
<1>4. /\ Referenced' = Referenced
      /\ StoredShrinks /\ DOMAIN stored' \subseteq Referenced'
  BY <1>1 DEF IInv, StoreFits, Referenced, StoredShrinks
<1>5. RequestsFit'
  BY <1>1, RequestsStay DEF IInv
<1>6. ASSUME NEW q \in Pages PROVE PageSame(q) \/ PageFits(q)'
  <2>1. CASE q # p
    BY <1>1, <2>1 DEF PageSame
  <2>2. CASE q = p
    <3>1. PageFits(p)
      BY DEF IInv, PagesFit
    <3>2. ViewFits(view'[p], Snapshot', mode') /\ FromView(retry'[p], view'[p], stored')
      BY <1>1, <1>3, <3>1 DEF PageFits, SessionSame
    <3>3. LoopFits(run'[p], view'[p], retry'[p]) /\ (Listens(p)' => activeIndex'[p] >= 1)
      BY <1>1 DEF Listens
    <3>4. /\ grader'[p] # None => view'[p] # None /\ view'[p].phase = "grading"
                                  /\ grader'[p] = view'[p].version
          /\ pending'[p] \/ retryLocked'[p] <=> retry'[p] # None
      BY <1>1, <3>1 DEF PageFits
    <3> QED
      BY <2>2, <3>2, <3>3, <3>4 DEF PageFits
  <2> QED
    BY <2>1, <2>2
<1> QED
  BY <1>2, <1>3, <1>4, <1>5, <1>6, PagesGoOn

\* The word to be heard next, or once more, is one of the round.
LEMMA BeginStep ==
  ASSUME IInv, NEW p \in Pages, NEW kind, NEW index, NoneButPlayer,
         Listens(p), retry[p] = None, Begin(p, kind, index, view[p]),
         \/ kind = "sequence" /\ index = Len(view[p].played) + 1
         \/ kind = "replay" /\ index \in 1..Len(view[p].played)
  PROVE  IInv'
<1> DEFINE l == [kind |-> kind, at |-> "playing", index |-> index,
                 version |-> view[p].version, items |-> Len(view[p].round),
                 single |-> view[p].single]
<1>1. /\ run' = [run EXCEPT ![p] = l] /\ activeIndex' = [activeIndex EXCEPT ![p] = index]
      /\ paused' = [paused EXCEPT ![p] = FALSE] /\ readiness' = readiness
  BY DEF Begin
<1>2. /\ view[p] # None /\ view[p].phase = "listening"
      /\ view[p] \in View /\ StateFits(view[p], mode)
  BY DEF Listens, IInv, PagesFit, PageFits, ViewFits, Shows
<1>3. /\ Len(view[p].played) \in Nat /\ Len(view[p].round) \in Nat
      /\ Len(view[p].played) < Len(view[p].round)
      /\ view[p].version \in Nat /\ view[p].single \in BOOLEAN
  BY <1>2 DEF StateFits, View
<1>4. index \in 1..Len(view[p].round) /\ index \in Nat
  BY <1>3
<1>5. l \in Run
  BY <1>3, <1>4 DEF Run, RunKinds, RunPlaces
<1>6. /\ l.kind = kind /\ l.at = "playing" /\ l.index = index
      /\ l.version = view[p].version /\ l.items = Len(view[p].round)
      /\ l.single = view[p].single
  OBVIOUS
<1> HIDE DEF l
<1>7. LoopFits(l, view[p], retry[p])
  BY <1>2, <1>3, <1>4, <1>5, <1>6 DEF LoopFits
<1>8. /\ DOMAIN run = Pages /\ DOMAIN paused = Pages /\ DOMAIN readiness = Pages
      /\ activeIndex \in [Pages -> Nat]
  BY DEF IInv, TablesFit
<1>9. /\ run'[p] = l /\ activeIndex'[p] = index
      /\ DOMAIN run' = Pages /\ DOMAIN paused' = Pages /\ DOMAIN readiness' = Pages
      /\ activeIndex' \in [Pages -> Nat]
      /\ \A q \in Pages \ {p} : run'[q] = run[q] /\ activeIndex'[q] = activeIndex[q]
  BY <1>1, <1>4, <1>8
<1> QED
  BY <1>4, <1>7, <1>9, PlayerStep

LEMMA NothingToSend ==
  ASSUME IInv, NEW p \in Pages, MayAct(p)
  PROVE  retry[p] = None /\ ~pending[p]
BY DEF MayAct, IInv, PagesFit, PageFits

\* The loop is over.
LEMMA LoopEnds ==
  ASSUME IInv, NEW p \in Pages, NoneButPlayer, NEW index \in Nat,
         run' = [run EXCEPT ![p] = None],
         DOMAIN paused' = Pages, DOMAIN readiness' = Pages,
         activeIndex' = [activeIndex EXCEPT ![p] = index],
         Listens(p) => index >= 1
  PROVE  IInv'
<1>1. DOMAIN run = Pages /\ activeIndex \in [Pages -> Nat]
  BY DEF IInv, TablesFit
<1>2. LoopFits(run'[p], view[p], retry[p])
  BY <1>1 DEF LoopFits
<1>3. /\ DOMAIN run' = Pages /\ activeIndex' \in [Pages -> Nat] /\ activeIndex'[p] = index
      /\ \A q \in Pages \ {p} : run'[q] = run[q] /\ activeIndex'[q] = activeIndex[q]
  BY <1>1
<1> QED
  BY <1>2, <1>3, PlayerStep

LEMMA PlayerButtons ==
  ASSUME IInv, NEW p \in Pages,
         \/ LoadAudio(p) \/ FailToLoad(p) \/ LoadAgain(p) \/ StartButton(p)
         \/ ReplayButton(p) \/ PauseButton(p) \/ ResumeButton(p) \/ EndInterval(p)
         \/ BreakOff(p)
  PROVE  IInv'
<1>1. /\ DOMAIN run = Pages /\ DOMAIN paused = Pages /\ DOMAIN readiness = Pages
      /\ activeIndex \in [Pages -> Nat]
  BY DEF IInv, TablesFit
<1>2. /\ LoopFits(run[p], view[p], retry[p])
      /\ Listens(p) => /\ activeIndex[p] >= 1
                       /\ view[p] # None /\ view[p].phase = "listening"
                       /\ view[p] \in View /\ StateFits(view[p], mode)
  BY DEF IInv, PagesFit, PageFits, ViewFits, Shows, Listens
<1>3. CASE LoadAudio(p) \/ FailToLoad(p) \/ PauseButton(p) \/ ResumeButton(p)
  <2>1. /\ NoneButPlayer /\ run' = run /\ activeIndex' = activeIndex
        /\ DOMAIN paused' = Pages /\ DOMAIN readiness' = Pages
    BY <1>1, <1>3 DEF LoadAudio, FailToLoad, PauseButton, ResumeButton, Prepare, Pause, Resume
  <2> QED
    BY <1>1, <1>2, <2>1, PlayerStep
<1>4. CASE LoadAgain(p)
  <2>1. /\ NoneButPlayer /\ MountPlayer(p, activeIndex[p])
    BY <1>4 DEF LoadAgain, RetryPreload
  <2> QED
    BY <1>1, <1>2, <2>1, LoopEnds DEF MountPlayer
<1>5. CASE BreakOff(p)
  <2>1. /\ NoneButPlayer /\ run' = [run EXCEPT ![p] = None]
        /\ DOMAIN paused' = Pages /\ DOMAIN readiness' = Pages
        /\ activeIndex' = [activeIndex EXCEPT ![p] = activeIndex[p]]
    BY <1>1, <1>5 DEF BreakOff, FailToPlay
  <2> QED
    BY <1>1, <1>2, <2>1, LoopEnds
<1>6. CASE StartButton(p)
  <2>1. /\ NoneButPlayer /\ Listens(p) /\ retry[p] = None
        /\ Begin(p, "sequence", Len(view[p].played) + 1, view[p])
    BY <1>6, NothingToSend DEF StartButton, StartPlayback
  <2> QED
    BY <2>1, BeginStep
<1>7. CASE ReplayButton(p)
  <2>1. /\ NoneButPlayer /\ Listens(p) /\ retry[p] = None
        /\ activeIndex[p] <= Len(view[p].played)
        /\ Begin(p, "replay", activeIndex[p], view[p])
    BY <1>7, NothingToSend DEF ReplayButton, Replay
  <2>2. activeIndex[p] \in 1..Len(view[p].played)
    BY <1>1, <1>2, <2>1 DEF StateFits
  <2> QED
    BY <2>1, <2>2, BeginStep
<1>8. CASE EndInterval(p)
  <2>1. /\ NoneButPlayer /\ Listens(p) /\ run[p] # None /\ run[p].at = "waiting"
        /\ run' = [run EXCEPT ![p].at = "playing", ![p].index = @ + 1]
        /\ activeIndex' = [activeIndex EXCEPT ![p] = run[p].index + 1]
        /\ paused' = paused /\ readiness' = readiness
    BY <1>8 DEF EndInterval, PlayNext
  <2>2. /\ run[p] \in Run /\ run[p].kind = "sequence" /\ retry[p] = None
        /\ run[p].index = Len(view[p].played)
        /\ run[p].version = view[p].version /\ run[p].items = Len(view[p].round)
        /\ run[p].single <=> view[p].single
    BY <1>2, <2>1 DEF LoopFits
  <2>3. /\ Len(view[p].played) \in Nat /\ Len(view[p].round) \in Nat
        /\ Len(view[p].played) < Len(view[p].round)
    BY <1>2, <2>1 DEF StateFits
  <2> DEFINE l == run'[p]
  <2>4. /\ l \in Run /\ l.kind = "sequence" /\ l.at = "playing"
        /\ l.index = Len(view[p].played) + 1
        /\ l.version = view[p].version /\ l.items = Len(view[p].round)
        /\ l.single = run[p].single
    BY <1>1, <2>1, <2>2, <2>3 DEF Run, RunKinds, RunPlaces
  <2> HIDE DEF l
  <2>5. LoopFits(l, view[p], retry[p])
    BY <1>2, <2>1, <2>2, <2>3, <2>4 DEF LoopFits
  <2>6. /\ DOMAIN run' = Pages /\ activeIndex' \in [Pages -> Nat] /\ activeIndex'[p] >= 1
        /\ \A q \in Pages \ {p} : run'[q] = run[q] /\ activeIndex'[q] = activeIndex[q]
    BY <1>1, <2>1, <2>2, <2>3
  <2> QED
    BY <1>1, <2>1, <2>5, <2>6, PlayerStep DEF l
<1> QED
  BY <1>3, <1>4, <1>5, <1>6, <1>7, <1>8

-----------------------------------------------------------------------------
(***************************************************************************)
(* Sending.                                                                *)
(***************************************************************************)

LEMMA ReferencedIsFinite ==
  ASSUME IsFiniteSet(requests)
  PROVE  IsFiniteSet(Referenced)
<1> DEFINE Q == {q \in Pages : retry[q] # None}
           A == {r.cmd : r \in requests}
           B == {retry[q] : q \in Q}
<1>1. IsFiniteSet(A)
  <2>1. [r \in requests |-> r.cmd] \in Surjection(requests, A)
    BY DEF Surjection
  <2> QED
    BY <2>1, FS_Surjection
<1>2. IsFiniteSet(B)
  <2>1. IsFiniteSet(Q)
    BY PageAssumption, FS_Subset
  <2>2. [q \in Q |-> retry[q]] \in Surjection(Q, B)
    BY DEF Surjection
  <2> QED
    BY <2>1, <2>2, FS_Surjection
<1>3. Referenced = A \cup B
  BY DEF Referenced
<1> QED
  BY <1>1, <1>2, <1>3, FS_Union

\* Among one id more than there are commands there is one that none of them bears.
LEMMA NewIdIsNew ==
  ASSUME IsFiniteSet(requests), NEW p \in Pages
  PROVE  NewId(p) \in Pages \X Nat /\ \A cmd \in Referenced : cmd.id # NewId(p)
<1> DEFINE own == {c \in Referenced : c.id[1] = p}
           ids == {cmd.id : cmd \in own}
           n   == Cardinality(ids)
           new == {<<p, k>> : k \in 1..(n + 1)}
<1>1. IsFiniteSet(ids) /\ n \in Nat
  <2>1. IsFiniteSet(own)
    BY ReferencedIsFinite, FS_Subset
  <2>2. [cmd \in own |-> cmd.id] \in Surjection(own, ids)
    BY DEF Surjection
  <2> QED
    BY <2>1, <2>2, FS_Surjection, FS_CardinalityType
<1>2. \E k \in 1..(n + 1) : <<p, k>> \notin ids
  <2>1. SUFFICES ASSUME \A k \in 1..(n + 1) : <<p, k>> \in ids PROVE FALSE
    OBVIOUS
  <2>2. [k \in 1..(n + 1) |-> <<p, k>>] \in Injection(1..(n + 1), ids)
    BY <2>1 DEF Injection, IsInjective
  <2>3. Cardinality(1..(n + 1)) <= n
    BY <1>1, <2>2, FS_Injection
  <2>4. Cardinality(1..(n + 1)) = n + 1
    BY <1>1, FS_Interval
  <2> QED
    BY <1>1, <2>3, <2>4
<1>3. PICK k \in 1..(n + 1) : <<p, k>> \notin ids /\ NewId(p) = <<p, k>>
  BY <1>2 DEF NewId
<1>4. \A cmd \in Referenced : cmd.id # <<p, k>>
  BY <1>3
<1> QED
  BY <1>1, <1>3, <1>4

\* A command that is sent is about the view shown, and bears an id of its own or
\* is the one to be sent again.
LEMMA SendStep ==
  ASSUME IInv, NEW p \in Pages, NEW cmd, Send(p, cmd), ~pending[p],
         UNCHANGED <<serverVars, view, markVars>>,
         CommandFits(cmd, Snapshot, mode),
         FromView(cmd, view[p], stored),
         DOMAIN run' = Pages, UNCHANGED <<paused, readiness, activeIndex>>,
         \A q \in Pages \ {p} : run'[q] = run[q],
         LoopFits(run'[p], view[p], cmd)
  PROVE  IInv'
<1> DEFINE new == [page |-> p, cmd |-> cmd, awaited |-> TRUE, result |-> Result("none")]
<1>1. /\ retry[p] \in {None, cmd} /\ retry' = [retry EXCEPT ![p] = cmd]
      /\ pending' = [pending EXCEPT ![p] = TRUE]
      /\ requests' = requests \cup {new}
      /\ retryLocked' = retryLocked /\ revoked' = revoked
  BY DEF Send
<1>2. /\ view' = view /\ grader' = grader /\ draft' = draft /\ stored' = stored
      /\ paused' = paused /\ readiness' = readiness /\ activeIndex' = activeIndex
      /\ UNCHANGED sessionVars
  BY DEF serverVars, markVars
<1>3. SessionSame /\ OthersFit'
  BY <1>2, SessionStays DEF IInv
<1>4. TablesFit'
  BY <1>1, <1>2 DEF IInv, TablesFit
<1>5. cmd # None
  BY NoneAssumption DEF CommandFits, Commands
<1>6. /\ DOMAIN retry = Pages /\ DOMAIN pending = Pages
      /\ retry'[p] = cmd /\ \A q \in Pages \ {p} : retry'[q] = retry[q]
      /\ pending'[p] /\ \A q \in Pages \ {p} : pending'[q] = pending[q]
  <2>1. DOMAIN retry = Pages /\ DOMAIN pending = Pages
    BY DEF IInv, TablesFit
  <2> QED
    BY <1>1, <2>1
<1>7. /\ new.page = p /\ new.cmd = cmd /\ new.awaited
      /\ new.result.kind = "none" /\ DOMAIN new = {"page", "cmd", "awaited", "result"}
  BY DEF Result
<1> HIDE DEF new
<1>8. Referenced \subseteq Referenced' /\ Referenced' \subseteq Referenced \cup {cmd}
  <2>1. ASSUME NEW c \in Referenced PROVE c \in Referenced'
    <3>1. CASE \E r \in requests : c = r.cmd
      BY <1>1, <3>1 DEF Referenced
    <3>2. CASE \E q \in Pages : retry[q] # None /\ c = retry[q]
      <4>1. PICK q \in Pages : retry[q] # None /\ c = retry[q]
        BY <3>2
      <4>2. retry'[q] # None /\ c = retry'[q]
        BY <1>1, <1>6, <4>1
      <4> QED
        BY <4>2 DEF Referenced
    <3> QED
      BY <3>1, <3>2 DEF Referenced
  <2>2. ASSUME NEW c \in Referenced' PROVE c \in Referenced \cup {cmd}
    <3>1. CASE \E r \in requests' : c = r.cmd
      BY <1>1, <1>7, <3>1 DEF Referenced
    <3>2. CASE \E q \in Pages : retry'[q] # None /\ c = retry'[q]
      BY <1>6, <3>2 DEF Referenced
    <3> QED
      BY <3>1, <3>2 DEF Referenced
  <2> QED
    BY <2>1, <2>2
<1>9. StoredShrinks /\ DOMAIN stored' \subseteq Referenced'
  BY <1>2, <1>8 DEF IInv, StoreFits, StoredShrinks
<1>10. RequestsFit'
  <2>1. IsFiniteSet(requests')
    BY <1>1, FS_AddElement DEF IInv, RequestsFit
  <2>2. \A r \in requests : RequestFits(r) /\ (r.awaited => r.page # p)
    BY DEF IInv, RequestsFit, RequestFits
  <2>3. ASSUME NEW r \in requests' PROVE RequestFits(r)'
    <3>1. CASE r \in requests
      BY <1>2, <1>6, <2>2, <3>1 DEF RequestFits
    <3>2. CASE r = new
      BY <1>6, <1>7, <3>2 DEF RequestFits, Kinds
    <3> QED
      BY <1>1, <3>1, <3>2
  <2>4. ASSUME NEW r \in requests', NEW q \in requests', r.awaited, q.awaited,
               r.page = q.page
        PROVE  r = q
    BY <1>1, <1>7, <2>2, <2>4 DEF IInv, RequestsFit
  <2> QED
    BY <2>1, <2>3, <2>4 DEF RequestsFit
<1>11. ASSUME NEW q \in Pages PROVE PageSame(q) \/ PageFits(q)'
  <2>1. CASE q # p
    BY <1>1, <1>2, <1>6, <2>1 DEF PageSame
  <2>2. CASE q = p
    <3>1. PageFits(p)
      BY DEF IInv, PagesFit
    <3>2. ViewFits(view'[p], Snapshot', mode') /\ LoopFits(run'[p], view'[p], retry'[p])
      BY <1>2, <1>3, <1>6, <3>1 DEF PageFits, SessionSame
    <3>3. FromView(retry'[p], view'[p], stored')
      BY <1>2, <1>6
    <3>4. Listens(p)' => activeIndex'[p] >= 1
      BY <1>1, <1>2, <3>1 DEF PageFits, Listens
    <3>5. /\ grader'[p] # None => view'[p] # None /\ view'[p].phase = "grading"
                                  /\ grader'[p] = view'[p].version
          /\ pending'[p] \/ retryLocked'[p] <=> retry'[p] # None
      BY <1>2, <1>5, <1>6, <3>1 DEF PageFits
    <3> QED
      BY <2>2, <3>2, <3>3, <3>4, <3>5 DEF PageFits
  <2> QED
    BY <2>1, <2>2
<1> QED
  BY <1>3, <1>4, <1>8, <1>9, <1>10, <1>11, PagesGoOn

\* A new command was never recorded.
LEMMA NewCommandIsFromView ==
  ASSUME IInv, NEW p \in Pages, NEW cmd, cmd.id = NewId(p), view[p] # None,
         cmd.version = view[p].version, cmd.round = view[p].roundNumber
  PROVE  FromView(cmd, view[p], stored)
<1>1. cmd \notin Referenced
  BY NewIdIsNew DEF IInv, RequestsFit
<1> QED
  BY <1>1 DEF IInv, StoreFits, FromView

LEMMA ReportStep ==
  ASSUME IInv, NEW p \in Pages, ReportPlayback(p)
  PROVE  IInv'
<1> DEFINE v == view[p]
           l == run[p]
           cmd == [type |-> "playback", id |-> NewId(p), version |-> l.version,
                   round |-> v.roundNumber, list |-> <<v.round[l.index]>>,
                   finished |-> Finished(l)]
<1>1. /\ l # None /\ l.at = "playing"
      /\ run' = [run EXCEPT ![p].at = "saving"]
      /\ UNCHANGED <<paused, readiness, activeIndex>>
      /\ Send(p, cmd)
      /\ UNCHANGED <<serverVars, view, markVars>>
  BY DEF ReportPlayback, HearToEnd
<1>2. /\ LoopFits(l, v, retry[p]) /\ ViewFits(v, Snapshot, mode)
      /\ DOMAIN run = Pages
  BY DEF IInv, PagesFit, PageFits, TablesFit
<1>3. retry[p] = None /\ ~pending[p]
  BY <1>1, <1>2 DEF LoopFits, IInv, PagesFit, PageFits
<1>4. /\ l \in Run /\ v # None /\ v.phase = "listening"
      /\ l.version = v.version /\ l.items = Len(v.round)
      /\ l.single <=> v.single
      /\ l.index \in 1..Len(v.round)
      /\ l.kind = "sequence" => l.index = Len(v.played) + 1
      /\ l.kind = "replay" => l.index <= Len(v.played)
  BY <1>1, <1>2 DEF LoopFits
<1>5. /\ v \in View /\ Shows(v, Snapshot, mode) /\ StateFits(v, mode)
      /\ v.single <=> mode = "item_by_item"
  BY <1>2, <1>4 DEF ViewFits, Shows
<1>6. l.kind = "sequence" \/ l.kind = "replay"
  BY <1>4 DEF Run, RunKinds
<1>7. Finished(l) \in BOOLEAN /\ v.round[l.index] \in Items
  BY <1>4, <1>5 DEF Finished, StateFits
<1>8. /\ cmd.type = "playback" /\ cmd.id = NewId(p) /\ cmd.version = v.version
      /\ cmd.round = v.roundNumber /\ cmd.list = <<v.round[l.index]>>
      /\ cmd.finished = Finished(l)
  BY <1>4
<1>9. cmd \in Commands
  <2>1. NewId(p) \in Pages \X Nat /\ v.version \in Nat /\ v.roundNumber \in Nat
        /\ <<v.round[l.index]>> \in Seq(Items)
    BY <1>5, <1>7, NewIdIsNew DEF IInv, RequestsFit, StateFits
  <2> QED
    BY <1>4, <1>7, <2>1 DEF Commands, Playback
<1>10. cmd.version = version => Reports(cmd, Snapshot, mode)
  <2> SUFFICES ASSUME cmd.version = version PROVE Reports(cmd, Snapshot, mode)
    OBVIOUS
  <2>1. /\ v.phase = phase /\ v.roundNumber = roundNumber /\ v.round = round
        /\ v.played = played
    BY <1>5, <1>8 DEF Shows, Snapshot
  <2>2. /\ Snapshot.phase = phase /\ Snapshot.roundNumber = roundNumber
        /\ Snapshot.round = round /\ Snapshot.played = played
    BY DEF Snapshot
  <2>3. l.index \in 1..Len(played) + 1 /\ Len(played) \in Nat
    BY <1>4, <1>5, <1>6, <2>1 DEF StateFits
  <2>4. /\ l.index <= Len(played) => ~Finished(l)
        /\ l.index > Len(played) =>
             (Finished(l) <=> (mode = "item_by_item" \/ l.index = Len(round)))
    BY <1>4, <1>5, <1>6, <2>1, <2>3 DEF Finished
  <2> QED
    BY <1>4, <1>8, <2>1, <2>2, <2>3, <2>4 DEF Reports
<1>11. CommandFits(cmd, Snapshot, mode)
  <2>1. cmd.version <= version /\ Snapshot.version = version
    BY <1>5, <1>8 DEF Shows, Snapshot
  <2> QED
    BY <1>9, <1>10, <2>1 DEF CommandFits
<1>12. FromView(cmd, view[p], stored)
  BY <1>4, <1>8, NewCommandIsFromView
<1> DEFINE after == run'[p]
<1>13. /\ after \in Run /\ after.at = "saving" /\ after.kind = l.kind
       /\ after.index = l.index /\ after.version = l.version /\ after.items = l.items
       /\ after.single = l.single
  BY <1>1, <1>2, <1>4 DEF Run, RunPlaces
<1>14. DOMAIN run' = Pages /\ \A q \in Pages \ {p} : run'[q] = run[q]
  BY <1>1, <1>2
<1>15. cmd # None
  BY <1>9, NoneAssumption DEF Commands
<1> HIDE DEF cmd, after
<1>16. LoopFits(after, v, cmd)
  <2>1. after.single <=> v.single
    BY <1>4, <1>13
  <2> QED
    BY <1>4, <1>8, <1>13, <1>15, <2>1 DEF LoopFits
<1> QED
  BY <1>1, <1>3, <1>11, <1>12, <1>14, <1>16, SendStep DEF after

LEMMA RetryStep ==
  ASSUME IInv, NEW p \in Pages, RetrySave(p)
  PROVE  IInv'
<1>1. /\ ~pending[p] /\ Send(p, retry[p])
      /\ UNCHANGED <<serverVars, view, playerVars, markVars>>
      /\ UNCHANGED <<run, paused, readiness, activeIndex>>
  BY DEF RetrySave, playerVars
<1>2. retry[p] # None /\ FromView(retry[p], view[p], stored)
      /\ LoopFits(run[p], view[p], retry[p]) /\ DOMAIN run = Pages
  BY DEF RetrySave, IInv, PagesFit, PageFits, TablesFit
<1>3. CommandFits(retry[p], Snapshot, mode)
  BY <1>2 DEF IInv, CommandsFit, Referenced
<1> QED
  BY <1>1, <1>2, <1>3, SendStep

\* The marks sent are of the words the grader shows.
LEMMA SubmitStep ==
  ASSUME IInv, NEW p \in Pages, NEW results \in [1..Len(view[p].round) -> Results],
         SubmitMarks(p, results)
  PROVE  IInv'
<1> DEFINE v == view[p]
           marks == [k \in DOMAIN Asked(v) |-> [item |-> Asked(v)[k], result |-> results[k]]]
           cmd == [type |-> "grading", id |-> NewId(p), version |-> v.version,
                   round |-> v.roundNumber, marks |-> marks]
<1>1. /\ MayAct(p) /\ grader[p] # None /\ Send(p, cmd)
      /\ UNCHANGED <<serverVars, view, markVars>>
      /\ UNCHANGED <<run, paused, readiness, activeIndex>>
  BY DEF SubmitMarks, playerVars
<1>2. ~pending[p] /\ v # None /\ v.phase = "grading"
      /\ ViewFits(v, Snapshot, mode) /\ LoopFits(run[p], v, retry[p]) /\ DOMAIN run = Pages
  BY <1>1 DEF MayAct, IInv, PagesFit, PageFits, TablesFit
<1>3. /\ v \in View /\ StateFits(v, mode) /\ v.version <= version
      /\ v.single <=> mode = "item_by_item"
  BY <1>2 DEF ViewFits, Shows, Snapshot
<1>4. marks \in Seq(Mark)
  <2>1. v.round \in Seq(Items) /\ Len(v.round) \in Nat /\ Len(v.round) >= 1
    BY <1>3, RangeOfList DEF StateFits
  <2>2. CASE v.single
    <3>1. Len(v.marked) + 1 \in 1..Len(v.round)
      BY <1>2, <1>3, <2>2 DEF StateFits
    <3>2. v.round[Len(v.marked) + 1] \in Items
      BY <2>1, <3>1
    <3>3. Asked(v) = <<v.round[Len(v.marked) + 1]>>
      BY <2>2 DEF Asked
    <3>4. marks \in [1..1 -> Mark]
      BY <2>1, <3>2, <3>3 DEF Mark
    <3> QED
      BY <3>4, ListOfFunction
  <2>3. CASE ~v.single
    <3>1. Asked(v) = v.round
      BY <2>3 DEF Asked
    <3>2. marks \in [1..Len(v.round) -> Mark]
      BY <2>1, <3>1 DEF Mark
    <3> QED
      BY <2>1, <3>2, ListOfFunction
  <2> QED
    BY <2>2, <2>3
<1> HIDE DEF marks
<1>5. cmd \in Commands /\ cmd.type = "grading" /\ cmd.id = NewId(p)
      /\ cmd.version = v.version /\ cmd.round = v.roundNumber
  <2>1. NewId(p) \in Pages \X Nat /\ v.version \in Nat /\ v.roundNumber \in Nat
    BY <1>3, NewIdIsNew DEF IInv, RequestsFit, StateFits
  <2> QED
    BY <1>4, <2>1 DEF Commands, Grading
<1> HIDE DEF cmd
<1>6. CommandFits(cmd, Snapshot, mode)
  BY <1>3, <1>5 DEF CommandFits, Snapshot
<1>7. FromView(cmd, view[p], stored)
  BY <1>2, <1>5, NewCommandIsFromView
<1>8. LoopFits(run[p], view[p], cmd)
  BY <1>2 DEF LoopFits
<1>9. Send(p, cmd)
  BY <1>1 DEF cmd, marks
<1> QED
  BY <1>1, <1>2, <1>6, <1>7, <1>8, <1>9, SendStep

LEMMA SelectStep ==
  ASSUME IInv, NEW p \in Pages, SelectMarks(p)
  PROVE  IInv'
<1>1. /\ view[p] # None /\ view[p].phase = "grading"
      /\ grader' = [grader EXCEPT ![p] = view[p].version]
      /\ DOMAIN draft' = Pages
      /\ UNCHANGED <<serverVars, requests, view, commandVars, playerVars>>
  BY DEF SelectMarks, MayAct, IInv, TablesFit
<1>2. /\ stored' = stored /\ requests' = requests /\ view' = view
      /\ retry' = retry /\ pending' = pending /\ retryLocked' = retryLocked
      /\ revoked' = revoked /\ run' = run /\ paused' = paused
      /\ readiness' = readiness /\ activeIndex' = activeIndex
      /\ UNCHANGED sessionVars
  BY <1>1 DEF serverVars, commandVars, playerVars
<1>3. SessionSame /\ OthersFit'
  BY <1>2, SessionStays DEF IInv
<1>4. TablesFit'
  BY <1>1, <1>2 DEF IInv, TablesFit
<1>5. /\ Referenced' = Referenced
      /\ StoredShrinks /\ DOMAIN stored' \subseteq Referenced'
  BY <1>2 DEF IInv, StoreFits, Referenced, StoredShrinks
<1>6. RequestsFit'
  BY <1>2, RequestsStay DEF IInv
<1>7. ASSUME NEW q \in Pages PROVE PageSame(q) \/ PageFits(q)'
  <2>1. DOMAIN grader = Pages /\ PageFits(q)
    BY DEF IInv, TablesFit, PagesFit
  <2>2. CASE q # p
    BY <1>1, <1>2, <2>1, <2>2 DEF PageSame
  <2>3. CASE q = p
    <3>1. /\ ViewFits(view'[p], Snapshot', mode') /\ LoopFits(run'[p], view'[p], retry'[p])
          /\ FromView(retry'[p], view'[p], stored')
      BY <1>2, <1>3, <2>1, <2>3 DEF PageFits, SessionSame
    <3>2. Listens(p)' => activeIndex'[p] >= 1
      BY <1>2, <2>1, <2>3 DEF PageFits, Listens
    <3>3. /\ view'[p] # None /\ view'[p].phase = "grading" /\ grader'[p] = view'[p].version
          /\ pending'[p] \/ retryLocked'[p] <=> retry'[p] # None
      BY <1>1, <1>2, <2>1, <2>3 DEF PageFits
    <3> QED
      BY <2>3, <3>1, <3>2, <3>3 DEF PageFits
  <2> QED
    BY <2>2, <2>3
<1> QED
  BY <1>3, <1>4, <1>5, <1>6, <1>7, PagesGoOn

\* Whether or not the request arrived, the command is kept to be sent again.
LEMMA LoseStep ==
  ASSUME IInv, NEW p \in Pages, NEW r \in requests, LoseAnswer(p, r)
  PROVE  IInv'
<1> DEFINE left == [r EXCEPT !.awaited = FALSE]
<1>1. /\ r.page = p /\ r.awaited
      /\ \/ requests' = requests \ {r}
         \/ requests' = (requests \ {r}) \cup {left}
      /\ pending' = [pending EXCEPT ![p] = FALSE]
      /\ retryLocked' = [retryLocked EXCEPT ![p] = TRUE]
      /\ IF run[p] # None THEN Saved(p, FALSE) ELSE UNCHANGED playerVars
      /\ UNCHANGED <<serverVars, view, retry, revoked, markVars>>
  BY DEF LoseAnswer
<1>2. /\ stored' = stored /\ view' = view /\ retry' = retry /\ revoked' = revoked
      /\ grader' = grader /\ draft' = draft /\ UNCHANGED sessionVars
  BY <1>1 DEF serverVars, markVars
<1>3. SessionSame /\ OthersFit'
  BY <1>2, SessionStays DEF IInv
<1>4. /\ DOMAIN run = Pages /\ DOMAIN paused = Pages /\ DOMAIN readiness = Pages
      /\ activeIndex \in [Pages -> Nat]
      /\ DOMAIN pending = Pages /\ DOMAIN retryLocked = Pages
  BY DEF IInv, TablesFit
<1>5. /\ run'[p] = None /\ activeIndex' = activeIndex
      /\ DOMAIN run' = Pages /\ DOMAIN paused' = Pages /\ DOMAIN readiness' = Pages
      /\ \A q \in Pages \ {p} : run'[q] = run[q]
  BY <1>1, <1>4 DEF Saved, playerVars
<1>6. /\ retryLocked'[p] /\ DOMAIN retryLocked' = Pages /\ DOMAIN pending' = Pages
      /\ \A q \in Pages \ {p} :
           retryLocked'[q] = retryLocked[q] /\ pending'[q] = pending[q]
  BY <1>1, <1>4
<1>7. TablesFit'
  BY <1>2, <1>5, <1>6 DEF IInv, TablesFit
<1>8. /\ RequestFits(r) /\ retry[p] = r.cmd /\ pending[p] /\ retry[p] # None
      /\ \A q \in requests : RequestFits(q) /\ (q.awaited /\ q.page = p => q = r)
  <2>1. PageFits(p)
    BY DEF IInv, PagesFit
  <2> QED
    BY <1>1, <2>1 DEF IInv, RequestsFit, RequestFits, PageFits
<1>9. /\ left.page = p /\ left.cmd = r.cmd /\ ~left.awaited /\ left.result = r.result
      /\ DOMAIN left = {"page", "cmd", "awaited", "result"}
  BY <1>1, <1>8 DEF RequestFits
<1> HIDE DEF left
<1>10. Referenced' = Referenced
  <2>1. ASSUME NEW q \in Pages, retry[q] # None PROVE retry[q] \in Referenced /\ retry'[q] \in Referenced'
    BY <1>2, <2>1 DEF Referenced
  <2>2. r.cmd \in Referenced'
    BY <1>8, <2>1, <1>2
  <2>3. ASSUME NEW q \in requests PROVE q.cmd \in Referenced'
    BY <1>1, <2>2 DEF Referenced
  <2>4. ASSUME NEW q \in requests' PROVE q.cmd \in Referenced
    BY <1>1, <1>9 DEF Referenced
  <2> QED
    BY <1>2, <2>1, <2>3, <2>4 DEF Referenced
<1>11. StoredShrinks /\ DOMAIN stored' \subseteq Referenced'
  BY <1>2, <1>10 DEF IInv, StoreFits, StoredShrinks
<1>12. RequestsFit'
  <2>1. IsFiniteSet(requests')
    <3>1. IsFiniteSet(requests \ {r})
      BY FS_RemoveElement DEF IInv, RequestsFit
    <3>2. \/ requests' = requests \ {r}
          \/ requests' = (requests \ {r}) \cup {left}
      BY <1>1
    <3>3. ASSUME NEW q PROVE IsFiniteSet((requests \ {r}) \cup {q})
      BY <3>1, FS_AddElement
    <3> HIDE DEF left
    <3> QED
      BY <3>1, <3>2, <3>3
  <2>2. \A q \in requests' : q = left \/ (q \in requests /\ q # r)
    BY <1>1
  <2>3. ASSUME NEW q \in requests' PROVE RequestFits(q)'
    <3>1. CASE q = left
      BY <1>8, <1>9, <3>1 DEF RequestFits
    <3>2. CASE q \in requests /\ q # r
      <4>1. RequestFits(q) /\ (q.awaited => q.page # p)
        BY <1>8, <3>2
      <4> QED
        BY <1>2, <1>6, <4>1 DEF RequestFits
    <3> QED
      BY <2>2, <3>1, <3>2
  <2>4. ASSUME NEW q \in requests', NEW s \in requests', q.awaited, s.awaited,
               q.page = s.page
        PROVE  q = s
    BY <1>9, <2>2, <2>4 DEF IInv, RequestsFit
  <2> QED
    BY <2>1, <2>3, <2>4 DEF RequestsFit
<1>13. ASSUME NEW q \in Pages PROVE PageSame(q) \/ PageFits(q)'
  <2>1. CASE q # p
    BY <1>2, <1>5, <1>6, <2>1 DEF PageSame
  <2>2. CASE q = p
    <3>1. PageFits(p)
      BY DEF IInv, PagesFit
    <3>2. ViewFits(view'[p], Snapshot', mode') /\ LoopFits(run'[p], view'[p], retry'[p])
          /\ FromView(retry'[p], view'[p], stored')
      BY <1>2, <1>3, <1>5, <3>1 DEF PageFits, SessionSame, LoopFits
    <3>3. Listens(p)' => activeIndex'[p] >= 1
      BY <1>2, <1>5, <3>1 DEF PageFits, Listens
    <3>4. /\ grader'[p] # None => view'[p] # None /\ view'[p].phase = "grading"
                                  /\ grader'[p] = view'[p].version
          /\ pending'[p] \/ retryLocked'[p] <=> retry'[p] # None
      BY <1>2, <1>6, <1>8, <3>1 DEF PageFits
    <3> QED
      BY <2>2, <3>2, <3>3, <3>4 DEF PageFits
  <2> QED
    BY <2>1, <2>2
<1> QED
  BY <1>3, <1>7, <1>10, <1>11, <1>12, <1>13, PagesGoOn

-----------------------------------------------------------------------------
(***************************************************************************)
(* Showing a session.                                                      *)
(***************************************************************************)

\* What a page is shown of a session at some version.
LEMMA ShownFits ==
  ASSUME ServerFits, NEW s, Shows(s, Snapshot, mode)
  PROVE  /\ Shown(s) # None
         /\ ViewFits(Shown(s), Snapshot, mode)
         /\ Shown(s).version = s.version /\ Shown(s).phase = s.phase
         /\ Shown(s).round = s.round /\ Shown(s).played = s.played
<1> DEFINE v == Shown(s)
<1>1. /\ v.version = s.version /\ v.phase = s.phase /\ v.roundNumber = s.roundNumber
      /\ v.round = s.round /\ v.played = s.played /\ v.marked = s.marked
      /\ v.single <=> mode = "item_by_item"
  BY DEF Shown
<1>2. v \in View
  <2>1. /\ s.version \in Nat /\ s.phase \in {"listening", "grading", "completed"}
        /\ s.roundNumber \in Nat
        /\ s.round \in Seq(Items) /\ s.played \in Seq(Items) /\ s.marked \in Seq(Items)
    BY DEF Shows, StateFits
  <2>2. media.files \in Nat
    BY DEF ServerFits, OthersFit
  <2>3. (mode = "item_by_item") \in BOOLEAN
    OBVIOUS
  <2> QED
    BY <2>1, <2>2, <2>3 DEF Shown, View
<1> HIDE DEF v
<1>3. StateFits(v, mode)
  BY <1>1 DEF Shows, StateFits
<1>4. Shows(v, Snapshot, mode)
  BY <1>1, <1>3 DEF Shows
<1>5. v # None
  BY <1>2, NoneAssumption
<1>6. ViewFits(v, Snapshot, mode)
  BY <1>1, <1>2, <1>4 DEF ViewFits
<1> QED
  BY <1>1, <1>5, <1>6 DEF v

LEMMA SnapshotShows ==
  ASSUME ServerFits
  PROVE  Shows(Snapshot, Snapshot, mode)
BY DEF ServerFits, Shows, StateFits

\* A loop that goes on after its report was saved finds the next word to be heard
\* in the new view, whose version it counts; every other loop is over.
LEMMA PlayerAfterShow ==
  ASSUME TablesFit, NEW p \in Pages, PageFits(p),
         NEW v, v # None, ViewFits(v, Snapshot, mode),
         \/ ShowPlayer(p, v, FALSE)
         \/ /\ ShowPlayer(p, v, TRUE)
            /\ retry[p] # None
            /\ KeepsPlayer(p, v) /\ retry[p].list = <<view[p].round[Len(view[p].played) + 1]>>
                 /\ retry[p].type = "playback"
                 => /\ v.version = view[p].version + 1
                    /\ v.round = view[p].round
                    /\ Len(v.played) = Len(view[p].played) + 1
  PROVE  /\ LoopFits(run'[p], v, None)
         /\ v.phase = "listening" /\ ~revoked[p] => activeIndex'[p] >= 1
         /\ DOMAIN run' = Pages /\ DOMAIN paused' = Pages /\ DOMAIN readiness' = Pages
         /\ activeIndex' \in [Pages -> Nat]
         /\ \A q \in Pages \ {p} : run'[q] = run[q] /\ activeIndex'[q] = activeIndex[q]
<1>1. /\ DOMAIN run = Pages /\ DOMAIN paused = Pages /\ DOMAIN readiness = Pages
      /\ activeIndex \in [Pages -> Nat]
  BY DEF TablesFit
<1>2. Len(v.played) \in Nat /\ Len(v.played) + 1 \in Nat
  BY DEF ViewFits, Shows, StateFits
<1>3. KeepsPlayer(p, v) /\ ~revoked[p] => activeIndex[p] >= 1
  BY DEF KeepsPlayer, PageFits, Listens
<1>4. CASE ~KeepsPlayer(p, v)
  <2> DEFINE i == IF v.phase = "listening" THEN Len(v.played) + 1 ELSE 0
  <2>1. MountPlayer(p, i)
    BY <1>4 DEF ShowPlayer
  <2>2. i \in Nat /\ (v.phase = "listening" => i >= 1)
    BY <1>2
  <2> HIDE DEF i
  <2> QED
    BY <1>1, <2>1, <2>2 DEF MountPlayer, LoopFits
<1>5. CASE KeepsPlayer(p, v) /\ view[p].files # v.files
  <2>1. MountPlayer(p, activeIndex[p])
    BY <1>5 DEF ShowPlayer
  <2> QED
    BY <1>1, <1>3, <1>5, <2>1 DEF MountPlayer, LoopFits
<1>6. CASE KeepsPlayer(p, v) /\ view[p].files = v.files /\ run[p] = None
  <2>1. UNCHANGED playerVars
    BY <1>6 DEF ShowPlayer
  <2> QED
    BY <1>1, <1>3, <1>6, <2>1 DEF playerVars, LoopFits
<1>7. CASE KeepsPlayer(p, v) /\ view[p].files = v.files /\ run[p] # None
  <2>1. \/ Saved(p, FALSE)
        \/ /\ Saved(p, TRUE)
           /\ retry[p] # None
           /\ retry[p].list = <<view[p].round[Len(view[p].played) + 1]>>
                /\ retry[p].type = "playback"
                => /\ v.version = view[p].version + 1
                   /\ v.round = view[p].round
                   /\ Len(v.played) = Len(view[p].played) + 1
    BY <1>7 DEF ShowPlayer
  <2>2. activeIndex' = activeIndex
    BY <2>1 DEF Saved
  <2>3. CASE /\ run' = [run EXCEPT ![p] = None]
             /\ paused' = [paused EXCEPT ![p] = FALSE]
             /\ readiness' = [readiness EXCEPT ![p] = "ready"]
    BY <1>1, <1>3, <1>7, <2>2, <2>3 DEF LoopFits
  <2>4. CASE /\ Saved(p, TRUE) /\ run[p].kind = "sequence" /\ ~Finished(run[p])
             /\ run' = [run EXCEPT ![p].at = "waiting", ![p].version = @ + 1]
             /\ UNCHANGED <<paused, readiness>>
             /\ retry[p] # None
             /\ retry[p].list = <<view[p].round[Len(view[p].played) + 1]>>
                  /\ retry[p].type = "playback"
                  => /\ v.version = view[p].version + 1
                     /\ v.round = view[p].round
                     /\ Len(v.played) = Len(view[p].played) + 1
    <3> DEFINE l == run[p]
               after == run'[p]
    <3>1. /\ l \in Run /\ l.at = "saving"
          /\ retry[p].type = "playback" /\ retry[p].list = <<view[p].round[l.index]>>
          /\ l.index = Len(view[p].played) + 1
          /\ l.index \in 1..Len(view[p].round)
          /\ l.version = view[p].version /\ l.items = Len(view[p].round)
          /\ l.single <=> view[p].single
      BY <1>7, <2>4 DEF PageFits, LoopFits
    <3>2. /\ v.version = view[p].version + 1 /\ v.round = view[p].round
          /\ Len(v.played) = l.index
      BY <2>4, <3>1
    <3>3. (v.single <=> view[p].single) /\ v.phase = "listening" /\ view[p].version \in Nat
      BY <1>7 DEF KeepsPlayer, PageFits, ViewFits, Shows, StateFits
    <3>4. /\ after \in Run /\ after.at = "waiting" /\ after.kind = "sequence"
          /\ after.index = l.index /\ after.version = l.version + 1
          /\ after.items = l.items /\ after.single = l.single
      <4>1. after = [kind |-> l.kind, at |-> "waiting", index |-> l.index,
                     version |-> l.version + 1, items |-> l.items, single |-> l.single]
        BY <1>1, <2>4, <3>1 DEF Run
      <4>2. /\ l.kind = "sequence" /\ l.index \in Nat /\ l.version + 1 \in Nat
            /\ l.items \in Nat /\ l.single \in BOOLEAN
        BY <2>4, <3>1 DEF Run
      <4> QED
        BY <4>1, <4>2 DEF Run, RunKinds, RunPlaces
    <3> HIDE DEF after
    <3>5. LoopFits(after, v, None)
      <4>1. after.single <=> v.single
        BY <3>1, <3>3, <3>4
      <4> QED
        BY <3>1, <3>2, <3>3, <3>4, <4>1 DEF LoopFits
    <3>6. DOMAIN run' = Pages /\ \A q \in Pages \ {p} : run'[q] = run[q]
      BY <1>1, <2>4
    <3> QED
      BY <1>1, <1>3, <1>7, <2>2, <2>4, <3>5, <3>6 DEF after
  <2> QED
    BY <2>1, <2>3, <2>4 DEF Saved
<1> QED
  BY <1>4, <1>5, <1>6, <1>7

LEMMA ShowStep ==
  ASSUME IInv, NEW p \in Pages, NEW v, v # None, ViewFits(v, Snapshot, mode), SessionSame,
         view' = [view EXCEPT ![p] = v], ShowMarks(p, v),
         retry'[p] = None, ~pending'[p], ~retryLocked'[p], revoked[p] => revoked'[p],
         \/ ShowPlayer(p, v, FALSE)
         \/ /\ ShowPlayer(p, v, TRUE)
            /\ retry[p] # None
            /\ KeepsPlayer(p, v) /\ retry[p].list = <<view[p].round[Len(view[p].played) + 1]>>
                 /\ retry[p].type = "playback"
                 => /\ v.version = view[p].version + 1
                    /\ v.round = view[p].round
                    /\ Len(v.played) = Len(view[p].played) + 1
  PROVE  /\ PageFits(p)'
         /\ DOMAIN view' = Pages /\ DOMAIN grader' = Pages /\ DOMAIN draft' = Pages
         /\ DOMAIN run' = Pages /\ DOMAIN paused' = Pages /\ DOMAIN readiness' = Pages
         /\ activeIndex' \in [Pages -> Nat]
         /\ \A q \in Pages \ {p} :
              /\ view'[q] = view[q] /\ run'[q] = run[q]
              /\ activeIndex'[q] = activeIndex[q] /\ grader'[q] = grader[q]
<1>1. TablesFit /\ PageFits(p)
  BY DEF IInv, PagesFit
<1>2. /\ LoopFits(run'[p], v, None)
      /\ v.phase = "listening" /\ ~revoked[p] => activeIndex'[p] >= 1
      /\ DOMAIN run' = Pages /\ DOMAIN paused' = Pages /\ DOMAIN readiness' = Pages
      /\ activeIndex' \in [Pages -> Nat]
      /\ \A q \in Pages \ {p} : run'[q] = run[q] /\ activeIndex'[q] = activeIndex[q]
  BY <1>1, PlayerAfterShow
<1>3. /\ DOMAIN view' = Pages /\ DOMAIN grader' = Pages /\ DOMAIN draft' = Pages
      /\ view'[p] = v
      /\ grader'[p] = IF v.phase = "grading" /\ Recovered(p, v) THEN draft[p].version ELSE None
      /\ \A q \in Pages \ {p} : view'[q] = view[q] /\ grader'[q] = grader[q]
  BY <1>1 DEF TablesFit, ShowMarks
<1>4. grader'[p] # None => view'[p] # None /\ view'[p].phase = "grading"
                           /\ grader'[p] = view'[p].version
  BY <1>3 DEF Recovered
<1>5. /\ ViewFits(view'[p], Snapshot', mode') /\ LoopFits(run'[p], view'[p], retry'[p])
      /\ FromView(retry'[p], view'[p], stored')
  BY <1>2, <1>3 DEF SessionSame, FromView
<1>6. Listens(p)' => activeIndex'[p] >= 1
  BY <1>2, <1>3 DEF Listens
<1>7. PageFits(p)'
  BY <1>4, <1>5, <1>6 DEF PageFits
<1> QED
  BY <1>2, <1>3, <1>7

LEMMA OpenStep ==
  ASSUME IInv, NEW p \in Pages, Open(p)
  PROVE  IInv'
<1> DEFINE v == Shown(Snapshot)
<1>1. /\ view[p] = None
      /\ view' = [view EXCEPT ![p] = v] /\ ShowPlayer(p, v, FALSE) /\ ShowMarks(p, v)
      /\ UNCHANGED <<serverVars, requests, commandVars, detours>>
  BY DEF Open, Show
<1>2. /\ stored' = stored /\ requests' = requests
      /\ retry' = retry /\ pending' = pending /\ retryLocked' = retryLocked
      /\ revoked' = revoked /\ UNCHANGED sessionVars
  BY <1>1 DEF serverVars, commandVars
<1>3. SessionSame /\ OthersFit'
  BY <1>2, SessionStays DEF IInv
<1>4. v # None /\ ViewFits(v, Snapshot, mode)
  BY ShownFits, SnapshotShows DEF IInv
<1>5. retry[p] = None /\ ~pending[p] /\ ~retryLocked[p]
  BY <1>1 DEF IInv, PagesFit, PageFits, FromView
<1> HIDE DEF v
<1>6. /\ PageFits(p)'
      /\ DOMAIN view' = Pages /\ DOMAIN grader' = Pages /\ DOMAIN draft' = Pages
      /\ DOMAIN run' = Pages /\ DOMAIN paused' = Pages /\ DOMAIN readiness' = Pages
      /\ activeIndex' \in [Pages -> Nat]
      /\ \A q \in Pages \ {p} :
           /\ view'[q] = view[q] /\ run'[q] = run[q]
           /\ activeIndex'[q] = activeIndex[q] /\ grader'[q] = grader[q]
  BY <1>1, <1>2, <1>3, <1>4, <1>5, ShowStep
<1>7. TablesFit'
  BY <1>2, <1>6 DEF IInv, TablesFit
<1>8. /\ Referenced' = Referenced
      /\ StoredShrinks /\ DOMAIN stored' \subseteq Referenced'
  BY <1>2 DEF IInv, StoreFits, Referenced, StoredShrinks
<1>9. RequestsFit'
  BY <1>2, RequestsStay DEF IInv
<1>10. \A q \in Pages : PageSame(q) \/ PageFits(q)'
  BY <1>2, <1>6 DEF PageSame
<1> QED
  BY <1>3, <1>7, <1>8, <1>9, <1>10, PagesGoOn

\* A page that is left keeps nothing but the marks on the device, and waits for
\* none of its requests.
LEMMA UnloadStep ==
  ASSUME IInv, NEW p \in Pages, Unload(p)
  PROVE  IInv'
<1> DEFINE G(r) == IF r.page = p THEN [r EXCEPT !.awaited = FALSE] ELSE r
<1>1. /\ view' = [view EXCEPT ![p] = None] /\ retry' = [retry EXCEPT ![p] = None]
      /\ pending' = [pending EXCEPT ![p] = FALSE]
      /\ retryLocked' = [retryLocked EXCEPT ![p] = FALSE]
      /\ revoked' = [revoked EXCEPT ![p] = FALSE]
      /\ grader' = [grader EXCEPT ![p] = None]
      /\ requests' = {G(r) : r \in requests}
      /\ Store(stored) /\ draft' = draft /\ UNCHANGED sessionVars
      /\ MountPlayer(p, 0)
  BY DEF Unload, Abandoned, DisposePlayer
<1>2. SessionSame /\ OthersFit'
  BY <1>1, SessionStays DEF IInv
<1>3. /\ DOMAIN view' = Pages /\ DOMAIN retry' = Pages /\ DOMAIN pending' = Pages
      /\ DOMAIN retryLocked' = Pages /\ DOMAIN revoked' = Pages /\ DOMAIN grader' = Pages
      /\ DOMAIN run' = Pages /\ DOMAIN paused' = Pages /\ DOMAIN readiness' = Pages
      /\ activeIndex' \in [Pages -> Nat]
      /\ view'[p] = None /\ retry'[p] = None /\ ~pending'[p] /\ ~retryLocked'[p]
      /\ grader'[p] = None /\ run'[p] = None
      /\ \A q \in Pages \ {p} : PageSame(q)
  BY <1>1 DEF IInv, TablesFit, MountPlayer, PageSame
<1>4. TablesFit'
  BY <1>1, <1>3 DEF IInv, TablesFit
<1>5. ASSUME NEW r \in requests
      PROVE  /\ RequestFits(r)
             /\ G(r).page = r.page /\ G(r).cmd = r.cmd /\ G(r).result = r.result
             /\ DOMAIN G(r) = {"page", "cmd", "awaited", "result"}
             /\ G(r).awaited => r.awaited /\ G(r) = r /\ r.page # p
  BY DEF IInv, RequestsFit, RequestFits
<1>6. IsFiniteSet(requests')
  <2>1. [r \in requests |-> G(r)] \in Surjection(requests, {G(r) : r \in requests})
    BY DEF Surjection
  <2> QED
    BY <1>1, <2>1, FS_Surjection DEF IInv, RequestsFit
<1> HIDE DEF G
<1>7. Referenced' \subseteq Referenced
  <2>1. ASSUME NEW q \in requests' PROVE q.cmd \in Referenced
    BY <1>1, <1>5 DEF Referenced
  <2>2. ASSUME NEW q \in Pages, retry'[q] # None PROVE retry'[q] \in Referenced
    BY <1>3, <2>2 DEF Referenced, PageSame
  <2> QED
    BY <2>1, <2>2 DEF Referenced
<1>8. /\ StoredShrinks /\ DOMAIN stored' \subseteq Referenced'
      /\ \A cmd \in DOMAIN stored \cap Referenced' :
           cmd \in DOMAIN stored' /\ stored'[cmd] = stored[cmd]
  BY <1>1, StoreShrinks DEF IInv
<1>9. RequestsFit'
  <2>1. ASSUME NEW q \in requests' PROVE RequestFits(q)'
    <3>1. PICK r \in requests : q = G(r)
      BY <1>1
    <3>2. RequestFits(r) /\ q.page = r.page /\ q.cmd = r.cmd /\ q.result = r.result
          /\ DOMAIN q = {"page", "cmd", "awaited", "result"}
          /\ (q.awaited => r.awaited /\ r.page # p)
      BY <1>5, <3>1
    <3>3. q.cmd \in Referenced'
      BY DEF Referenced
    <3> QED
      BY <1>3, <1>8, <3>2, <3>3 DEF RequestFits, PageSame
  <2>2. ASSUME NEW q \in requests', NEW s \in requests', q.awaited, s.awaited,
               q.page = s.page
        PROVE  q = s
    BY <1>1, <1>5, <2>2 DEF IInv, RequestsFit
  <2> QED
    BY <1>6, <2>1, <2>2 DEF RequestsFit
<1>10. PageFits(p)'
  BY <1>3 DEF PageFits, ViewFits, FromView, LoopFits, Listens
<1> QED
  BY <1>2, <1>3, <1>4, <1>7, <1>8, <1>9, <1>10, PagesGoOn

LEMMA PollStep ==
  ASSUME IInv, NEW p \in Pages, Poll(p)
  PROVE  IInv'
<1>1. /\ view' = view /\ retry' = retry /\ pending' = pending
      /\ retryLocked' = retryLocked /\ draft' = draft /\ requests' = requests
      /\ stored' = stored /\ UNCHANGED sessionVars
      /\ revoked' = [revoked EXCEPT ![p] = TRUE]
      /\ grader' = [grader EXCEPT ![p] = None]
      /\ MountPlayer(p, 0)
  BY DEF Poll, DisposePlayer, serverVars
<1>2. SessionSame /\ OthersFit'
  BY <1>1, SessionStays DEF IInv
<1>3. /\ DOMAIN revoked' = Pages /\ DOMAIN grader' = Pages
      /\ DOMAIN run' = Pages /\ DOMAIN paused' = Pages /\ DOMAIN readiness' = Pages
      /\ activeIndex' \in [Pages -> Nat]
      /\ revoked'[p] /\ grader'[p] = None /\ run'[p] = None
      /\ \A q \in Pages \ {p} : PageSame(q)
  BY <1>1 DEF IInv, TablesFit, MountPlayer, PageSame
<1>4. TablesFit'
  BY <1>1, <1>3 DEF IInv, TablesFit
<1>5. /\ Referenced' = Referenced
      /\ StoredShrinks /\ DOMAIN stored' \subseteq Referenced'
  BY <1>1 DEF IInv, StoreFits, Referenced, StoredShrinks
<1>6. RequestsFit'
  BY <1>1, RequestsStay DEF IInv
<1>7. PageFits(p)'
  <2>1. PageFits(p)
    BY DEF IInv, PagesFit
  <2>2. ViewFits(view'[p], Snapshot', mode') /\ FromView(retry'[p], view'[p], stored')
    BY <1>1, <1>2, <2>1 DEF PageFits, SessionSame
  <2>3. pending'[p] \/ retryLocked'[p] <=> retry'[p] # None
    BY <1>1, <2>1 DEF PageFits
  <2>4. LoopFits(run'[p], view'[p], retry'[p]) /\ ~Listens(p)'
    BY <1>3 DEF LoopFits, Listens
  <2> QED
    BY <1>3, <2>2, <2>3, <2>4 DEF PageFits
<1> QED
  BY <1>2, <1>3, <1>4, <1>5, <1>6, <1>7, PagesGoOn

-----------------------------------------------------------------------------
(***************************************************************************)
(* Answers.                                                                *)
(***************************************************************************)

Answers == {"saved", "changed", "not_found", "other"}

LEMMA AnswerIsOneOf ==
  ASSUME NEW result, result.kind \in Kinds \ {"none"}
  PROVE  /\ Answer(result) \in Answers
         /\ Answer(result) = "saved" => result.kind = "ok"
BY DEF Answer, Answers, Kinds

LEMMA UnreadIsOneOf ==
  ASSUME NEW result
  PROVE  Unread(result) \in Answers /\ Unread(result) # "saved"
BY DEF Unread, Answers

\* An answer that shows the page a session shows it as recorded for its command,
\* or as it is now.
LEMMA ReactStep ==
  ASSUME IInv, NEW r \in requests, r.awaited, r.result.kind # "none",
         NEW p, p = r.page, SessionSame,
         NEW answer \in {Answer(r.result), Unread(r.result)},
         Settle(p, answer), React(p, answer, r.result.snapshot)
  PROVE  /\ PageFits(p)'
         /\ DOMAIN view' = Pages /\ DOMAIN grader' = Pages /\ DOMAIN draft' = Pages
         /\ DOMAIN run' = Pages /\ DOMAIN paused' = Pages /\ DOMAIN readiness' = Pages
         /\ activeIndex' \in [Pages -> Nat]
         /\ \A q \in Pages \ {p} :
              /\ view'[q] = view[q] /\ run'[q] = run[q]
              /\ activeIndex'[q] = activeIndex[q] /\ grader'[q] = grader[q]
<1> DEFINE snapshot == r.result.snapshot
           s == Current(snapshot)
<1>1. /\ p \in Pages /\ retry[p] = r.cmd /\ pending[p] /\ r.result.kind \in Kinds \ {"none"}
      /\ r.result.kind = "ok" => r.cmd \in DOMAIN stored /\ snapshot = stored[r.cmd]
  BY DEF IInv, RequestsFit, RequestFits
<1>2. /\ PageFits(p) /\ TablesFit /\ ServerFits /\ retry[p] # None
  BY <1>1 DEF IInv, PagesFit, PageFits
<1>3. /\ retry'[p] = None /\ ~pending'[p] /\ ~retryLocked'[p]
      /\ revoked[p] => revoked'[p]
      /\ answer = "not_found" => revoked'[p]
  BY <1>1, <1>2 DEF Settle, TablesFit
<1>4. answer \in Answers /\ (answer = "saved" => r.result.kind = "ok")
  BY <1>1, AnswerIsOneOf, UnreadIsOneOf
<1>5. CASE answer = "saved"
  <2> DEFINE v == Shown(s)
  <2>1. /\ view' = [view EXCEPT ![p] = v] /\ ShowPlayer(p, v, TRUE) /\ ShowMarks(p, v)
    BY <1>5 DEF React, Show
  <2>2. /\ r.cmd \in DOMAIN stored /\ snapshot = stored[r.cmd]
        /\ Shows(snapshot, Snapshot, mode)
    BY <1>1, <1>4, <1>5 DEF IInv, StoreFits
  <2>3. Shows(s, Snapshot, mode)
    BY <1>2, <2>2, SnapshotShows DEF Current
  <2>4. /\ v # None /\ ViewFits(v, Snapshot, mode)
        /\ v.version = s.version /\ v.phase = s.phase
        /\ v.round = s.round /\ v.played = s.played
    BY <1>2, <2>3, ShownFits
  <2> HIDE DEF v
  <2>5. ASSUME KeepsPlayer(p, v), retry[p].type = "playback",
               retry[p].list = <<view[p].round[Len(view[p].played) + 1]>>
        PROVE  /\ v.version = view[p].version + 1
               /\ v.round = view[p].round
               /\ Len(v.played) = Len(view[p].played) + 1
    <3>1. view[p].phase = "listening" /\ v.phase = "listening"
      BY <2>5 DEF KeepsPlayer
    <3>2. s = stored[retry[p]]
      BY <1>1, <2>2, <2>4, <3>1 DEF Current, Snapshot
    <3>3. FromView(retry[p], view[p], stored)
      BY <1>2 DEF PageFits
    <3> QED
      BY <1>1, <1>2, <2>2, <2>4, <2>5, <3>1, <3>2, <3>3 DEF FromView
  <2> QED
    BY <1>1, <1>2, <1>3, <2>1, <2>4, <2>5, ShowStep
<1>6. CASE answer = "changed"
  <2> DEFINE v == Shown(Snapshot)
  <2>1. /\ view' = [view EXCEPT ![p] = v] /\ ShowPlayer(p, v, FALSE) /\ ShowMarks(p, v)
    BY <1>6 DEF React, Show
  <2>2. v # None /\ ViewFits(v, Snapshot, mode)
    BY <1>2, ShownFits, SnapshotShows
  <2> HIDE DEF v
  <2> QED
    BY <1>1, <1>3, <2>1, <2>2, ShowStep
<1>7. CASE answer \in {"not_found", "other"}
  <2>1. /\ view' = view /\ draft' = draft
        /\ DOMAIN grader' = Pages /\ grader'[p] \in {None, grader[p]}
        /\ \A q \in Pages \ {p} : grader'[q] = grader[q]
    <3>1. DOMAIN grader = Pages /\ DOMAIN draft = Pages
      BY <1>2 DEF TablesFit
    <3>2. CASE answer = "not_found"
      <4>1. view' = view /\ draft' = draft /\ grader' = [grader EXCEPT ![p] = None]
        BY <3>2 DEF React
      <4> QED
        BY <1>1, <3>1, <4>1
    <3>3. CASE answer = "other"
      <4>1. view' = view /\ draft' = draft /\ grader' = grader
        BY <3>3 DEF React, markVars
      <4> QED
        BY <1>1, <3>1, <4>1
    <3> QED
      BY <1>7, <3>2, <3>3
  <2>2. /\ run'[p] = None
        /\ DOMAIN run' = Pages /\ DOMAIN paused' = Pages /\ DOMAIN readiness' = Pages
        /\ activeIndex' \in [Pages -> Nat]
        /\ answer = "other" => activeIndex' = activeIndex
        /\ \A q \in Pages \ {p} : run'[q] = run[q] /\ activeIndex'[q] = activeIndex[q]
    <3>1. /\ DOMAIN run = Pages /\ DOMAIN paused = Pages /\ DOMAIN readiness = Pages
          /\ activeIndex \in [Pages -> Nat]
      BY <1>2 DEF TablesFit
    <3>2. CASE answer = "not_found"
      <4>1. MountPlayer(p, 0)
        BY <3>2 DEF React, DisposePlayer
      <4> QED
        BY <1>1, <3>1, <3>2, <4>1 DEF MountPlayer
    <3>3. CASE answer = "other"
      <4>1. IF run[p] # None THEN Saved(p, FALSE) ELSE UNCHANGED playerVars
        BY <3>3 DEF React
      <4>2. CASE run[p] = None
        BY <3>1, <4>1, <4>2 DEF playerVars
      <4>3. CASE run[p] # None
        BY <1>1, <3>1, <4>1, <4>3 DEF Saved
      <4> QED
        BY <4>2, <4>3
    <3> QED
      BY <1>7, <3>2, <3>3
  <2>3. /\ ViewFits(view'[p], Snapshot', mode') /\ FromView(retry'[p], view'[p], stored')
        /\ LoopFits(run'[p], view'[p], retry'[p])
    BY <1>2, <1>3, <2>1, <2>2 DEF PageFits, SessionSame, FromView, LoopFits
  <2>4. Listens(p)' => activeIndex'[p] >= 1
    BY <1>2, <1>3, <1>7, <2>1, <2>2 DEF PageFits, Listens
  <2>5. grader'[p] # None => view'[p] # None /\ view'[p].phase = "grading"
                             /\ grader'[p] = view'[p].version
    BY <1>2, <2>1 DEF PageFits
  <2>6. PageFits(p)'
    BY <1>3, <2>3, <2>4, <2>5 DEF PageFits
  <2> QED
    BY <1>2, <2>1, <2>2, <2>6 DEF TablesFit
<1> QED
  BY <1>4, <1>5, <1>6, <1>7 DEF Answers

LEMMA HearStep ==
  ASSUME IInv, NEW r \in requests,
         NEW answer \in {Answer(r.result), Unread(r.result)}, Hear(r, answer)
  PROVE  IInv'
<1>1. /\ r.awaited /\ r.result.kind # "none" /\ requests' = requests \ {r}
      /\ Settle(r.page, answer)
      /\ React(r.page, answer, r.result.snapshot)
      /\ Store(stored) /\ UNCHANGED sessionVars
  BY DEF Hear
<1>2. PICK p : p = r.page
  OBVIOUS
<1>3. p \in Pages
  BY <1>2 DEF IInv, RequestsFit, RequestFits
<1>4. SessionSame /\ OthersFit'
  BY <1>1, SessionStays DEF IInv
<1>5. /\ PageFits(p)'
      /\ DOMAIN view' = Pages /\ DOMAIN grader' = Pages /\ DOMAIN draft' = Pages
      /\ DOMAIN run' = Pages /\ DOMAIN paused' = Pages /\ DOMAIN readiness' = Pages
      /\ activeIndex' \in [Pages -> Nat]
      /\ \A q \in Pages \ {p} :
           /\ view'[q] = view[q] /\ run'[q] = run[q]
           /\ activeIndex'[q] = activeIndex[q] /\ grader'[q] = grader[q]
  BY <1>1, <1>2, <1>4, ReactStep
<1>6. /\ DOMAIN retry' = Pages /\ DOMAIN pending' = Pages
      /\ DOMAIN retryLocked' = Pages /\ DOMAIN revoked' = Pages
      /\ retry'[p] = None
      /\ \A q \in Pages \ {p} :
           /\ retry'[q] = retry[q] /\ pending'[q] = pending[q]
           /\ retryLocked'[q] = retryLocked[q] /\ revoked'[q] = revoked[q]
  BY <1>1, <1>2, <1>3 DEF Settle, IInv, TablesFit
<1>7. TablesFit'
  BY <1>5, <1>6 DEF TablesFit
<1>8. Referenced' \subseteq Referenced
  BY <1>1, <1>6 DEF Referenced
<1>9. /\ StoredShrinks /\ DOMAIN stored' \subseteq Referenced'
      /\ \A cmd \in DOMAIN stored \cap Referenced' :
           cmd \in DOMAIN stored' /\ stored'[cmd] = stored[cmd]
  BY <1>1, StoreShrinks DEF IInv
<1>10. RequestsFit'
  <2>1. ASSUME NEW q \in requests', q.awaited
        PROVE  /\ retry'[q.page] = retry[q.page] /\ pending'[q.page] = pending[q.page]
               /\ q.cmd \in Referenced'
    <3>1. q.page \in Pages /\ q.page # p
      BY <1>1, <1>2, <2>1 DEF IInv, RequestsFit, RequestFits
    <3>2. q.cmd \in Referenced'
      BY DEF Referenced
    <3> QED
      BY <1>6, <3>1, <3>2
  <2> QED
    BY <1>1, <1>9, <2>1, RequestsStay DEF IInv
<1>11. \A q \in Pages : PageSame(q) \/ PageFits(q)'
  BY <1>5, <1>6 DEF PageSame
<1> QED
  BY <1>4, <1>7, <1>8, <1>9, <1>10, <1>11, PagesGoOn

-----------------------------------------------------------------------------
(***************************************************************************)
(* The session goes on.                                                    *)
(***************************************************************************)

\* A report adds the word that is next, or repeats the one played last.
LEMMA PlaybackRecorded ==
  ASSUME ServerFits, NEW cmd, cmd \in Playback, Reports(cmd, Snapshot, mode),
         ReducePlayback(cmd.round, cmd.list, cmd.finished), version' = version + 1
  PROVE  /\ StateFits(Snapshot', mode') /\ mode' = mode /\ round' = round
         /\ cmd.list = <<round[Len(played) + 1]>> => Len(played') = Len(played) + 1
<1>1. /\ version \in Nat /\ roundNumber \in Nat /\ phase = "listening"
      /\ round \in Seq(Items) /\ played \in Seq(Items) /\ marked \in Seq(Items)
      /\ IsInjective(round) /\ round # <<>>
      /\ Len(played) < Len(round)
      /\ \A k \in 1..Len(played) : played[k] = round[k]
      /\ mode = "item_by_item" => Len(played) = Len(marked)
  BY DEF ServerFits, StateFits, Snapshot, ReducePlayback
<1>2. /\ mode' = mode /\ roundNumber' = roundNumber /\ round' = round /\ marked' = marked
  BY DEF ReducePlayback
<1>3. PICK k \in 1..Len(played) + 1 :
        /\ cmd.list = <<round[k]>>
        /\ k <= Len(played) => ~cmd.finished
        /\ k > Len(played) => (cmd.finished <=> (mode = "item_by_item" \/ k = Len(round)))
  BY DEF Reports, Snapshot
<1>4. /\ Len(played) \in Nat /\ Len(round) \in Nat
      /\ \A i, j \in 1..Len(round) : round[i] = round[j] => i = j
      /\ \A i \in 1..Len(round) : round[i] \in Items
  BY <1>1, RangeOfList DEF IsInjective
<1>5. /\ \A i \in 1..Len(round) : cmd.list = <<round[i]>> => i = k
  BY <1>1, <1>3, <1>4
<1> DEFINE next == round[Len(played) + 1]
           longer == Append(played, next)
<1>6. /\ longer \in Seq(Items) /\ played \o <<next>> = longer
      /\ Len(longer) = Len(played) + 1
      /\ \A i \in 1..Len(played) + 1 : longer[i] = round[i]
  <2>1. next \in Items
    BY <1>1, <1>4
  <2> QED
    BY <1>1, <1>4, <2>1, AppendedList
<1>7. CASE PlayNextItem(cmd.list, cmd.finished)
  <2>1. /\ mode = "item_by_item" /\ phase' = "grading" /\ played' = longer
    BY <1>1, <1>7 DEF PlayNextItem
  <2> HIDE DEF longer
  <2> QED
    BY <1>1, <1>2, <1>4, <1>6, <2>1 DEF StateFits, Snapshot
<1>8. CASE PlayBatch(cmd.list, cmd.finished)
  <2>1. /\ mode = "continuous_batch"
        /\ phase' = IF cmd.finished THEN "grading" ELSE "listening"
        /\ \/ AdvancesPrefix(cmd.list) /\ played' = played \o cmd.list
           \/ ReplaysCurrent(cmd.list) /\ played' = played
    BY <1>8 DEF PlayBatch
  <2>2. CASE AdvancesPrefix(cmd.list) /\ played' = played \o cmd.list
    <3>1. cmd.list = <<next>> /\ k = Len(played) + 1
      BY <1>1, <1>3, <1>4, <1>5, <2>2 DEF AdvancesPrefix
    <3>2. played' = longer /\ (cmd.finished <=> Len(played) + 1 = Len(round))
      BY <1>3, <1>4, <1>6, <2>1, <2>2, <3>1
    <3> HIDE DEF longer
    <3> QED
      BY <1>1, <1>2, <1>4, <1>6, <2>1, <3>2 DEF StateFits, Snapshot
  <2>3. CASE ReplaysCurrent(cmd.list) /\ played' = played
    <3>1. Len(played) >= 1 /\ cmd.list = <<round[Len(played)]>>
      BY <1>1, <1>4, <2>3 DEF ReplaysCurrent
    <3>2. k = Len(played) /\ ~cmd.finished
      <4>1. Len(played) \in 1..Len(round)
        BY <1>1, <1>4, <3>1
      <4>2. k = Len(played)
        BY <1>5, <3>1, <4>1
      <4> QED
        BY <1>3, <1>4, <4>2
    <3>3. cmd.list # <<next>>
      <4>1. Len(played) + 1 \in 1..Len(round)
        BY <1>1, <1>4
      <4>2. cmd.list = <<next>> => Len(played) + 1 = k
        BY <1>5, <4>1
      <4> QED
        BY <1>4, <3>2, <4>2
    <3>4. phase' = "listening" /\ played' = played
      BY <2>1, <2>3, <3>2
    <3>5. StateFits(Snapshot', mode')
      BY <1>1, <1>2, <2>1, <3>4 DEF StateFits, Snapshot
    <3> QED
      BY <1>2, <3>3, <3>5
  <2> QED
    BY <2>1, <2>2, <2>3
<1> QED
  BY <1>7, <1>8 DEF ReducePlayback

\* Marks of the words that are due end the round, or the next word is to be heard.
LEMMA MarksRecorded ==
  ASSUME ServerFits, NEW cmd, cmd \in Grading,
         ReduceMarks(cmd.round, cmd.marks), version' = version + 1
  PROVE  StateFits(Snapshot', mode') /\ mode' = mode
<1> DEFINE marks == cmd.marks
           more  == MarkedItems(marks)
<1>1. /\ version \in Nat /\ roundNumber \in Nat /\ phase = "grading"
      /\ round \in Seq(Items) /\ played \in Seq(Items) /\ marked \in Seq(Items)
      /\ IsInjective(round) /\ round # <<>>
      /\ Len(played) <= Len(round)
      /\ \A k \in 1..Len(played) : played[k] = round[k]
      /\ mode = "item_by_item" => Len(played) = Len(marked) + 1
  BY DEF ServerFits, StateFits, Snapshot, ReduceMarks
<1>2. mode' = mode
  BY DEF ReduceMarks
<1>3. marks \in Seq(Mark)
  BY DEF Grading
<1>4. /\ Len(played) \in Nat /\ Len(round) \in Nat /\ Len(marked) \in Nat
      /\ Len(marks) \in Nat /\ DOMAIN marks = 1..Len(marks)
      /\ \A k \in 1..Len(marks) : marks[k] \in Mark
  BY <1>1, <1>3, RangeOfList
<1>5. more \in Seq(Items) /\ Len(more) = Len(marks)
  <2>1. more \in [1..Len(marks) -> Items]
    BY <1>4 DEF MarkedItems, Mark
  <2> QED
    BY <1>4, <2>1, ListOfFunction
<1> HIDE DEF more
<1>6. marked \o more \in Seq(Items) /\ Len(marked \o more) = Len(marked) + Len(marks)
  <2>1. marked \o more \in Seq(Items) /\ Len(marked \o more) = Len(marked) + Len(more)
    BY <1>1, <1>5, JoinedLists
  <2> QED
    BY <1>5, <2>1
<1>7. CASE GoOnListening(marks)
  <2>1. /\ mode = "item_by_item" /\ Len(marked) + Len(marks) < Len(round)
        /\ phase' = "listening" /\ marked' = marked \o more
        /\ roundNumber' = roundNumber /\ round' = round /\ played' = played
    BY <1>7 DEF GoOnListening, more
  <2>2. Len(marks) = 1
    <3>1. more = <<round[Len(marked) + 1]>>
      BY <2>1 DEF ReduceMarks, CoversWhatIsDue, more
    <3> QED
      BY <1>5, <3>1
  <2> QED
    BY <1>1, <1>2, <1>4, <1>6, <2>1, <2>2 DEF StateFits, Snapshot
<1>8. CASE Complete(marks)
  <2>1. /\ phase' = "completed" /\ marked' = marked \o more
        /\ roundNumber' = roundNumber /\ round' = round /\ played' = played
    BY <1>8 DEF Complete, more
  <2> QED
    BY <1>1, <1>2, <1>4, <1>6, <2>1 DEF StateFits, Snapshot
<1>9. CASE NextRound(marks)
  <2>1. /\ round' \in Rounds /\ round' # <<>>
        /\ phase' = "listening" /\ roundNumber' = roundNumber + 1
        /\ played' = <<>> /\ marked' = <<>>
    BY <1>9 DEF NextRound
  <2>2. round' \in Seq(Items) /\ IsInjective(round') /\ Len(round') \in Nat
    <3>1. PICK n \in 0..Len(round) : round' \in Injection(1..n, Items)
      BY <2>1 DEF Rounds
    <3>2. n \in Nat
      BY <1>4, <3>1
    <3> QED
      BY <3>1, <3>2, ListOfFunction DEF Injection
  <2>3. Len(round') > 0
    BY <2>1, <2>2, RangeOfList
  <2>4. Len(played') = 0 /\ Len(marked') = 0 /\ played' \in Seq(Items) /\ marked' \in Seq(Items)
    BY <2>1
  <2> QED
    BY <1>1, <1>2, <2>1, <2>2, <2>3, <2>4 DEF StateFits, Snapshot
<1> QED
  BY <1>7, <1>8, <1>9 DEF ReduceMarks

\* What is recorded is the session after the command, one version further on, and
\* for a report of the next word the view it came from with that word played.
LEMMA SessionGoesOn ==
  ASSUME ServerFits, NEW cmd, CommandFits(cmd, Snapshot, mode),
         MayRecord(cmd), Reduce(cmd), version' = version + 1
  PROVE  /\ StateFits(Snapshot', mode') /\ mode' = mode
         /\ cmd.type = "playback" /\ phase = "listening" =>
              /\ round' = round
              /\ cmd.list = <<round[Len(played) + 1]>> => Len(played') = Len(played) + 1
<1>1. cmd \in Playback \/ cmd \in Grading
  BY DEF CommandFits, Commands
<1>2. CASE cmd \in Playback
  <2>1. cmd.type = "playback"
    BY <1>2 DEF Playback
  <2>2. Reports(cmd, Snapshot, mode)
    BY <2>1 DEF CommandFits, MayRecord, Snapshot
  <2>3. ReducePlayback(cmd.round, cmd.list, cmd.finished)
    BY <2>1 DEF Reduce
  <2> QED
    BY <1>2, <2>2, <2>3, PlaybackRecorded
<1>3. CASE cmd \in Grading
  <2>1. cmd.type = "grading"
    BY <1>3 DEF Grading
  <2>2. ReduceMarks(cmd.round, cmd.marks)
    BY <2>1 DEF Reduce
  <2> QED
    BY <1>3, <2>1, <2>2, MarksRecorded
<1> QED
  BY <1>1, <1>2, <1>3

\* What executing a request leaves of the requests.
LEMMA ExecutedReferences ==
  ASSUME RequestsFit, NEW r \in requests, NEW result, Executed(r, result),
         UNCHANGED <<retry, pending>>
  PROVE  /\ Referenced' \subseteq Referenced
         /\ r.awaited => r.cmd \in Referenced'
         /\ \A q \in requests \ {r} : q.cmd \in Referenced'
         /\ \A p \in Pages : retry[p] # None => retry[p] \in Referenced'
<1> DEFINE done == [r EXCEPT !.result = result]
<1>1. requests' = (requests \ {r}) \cup (IF r.awaited THEN {done} ELSE {})
  BY DEF Executed
<1>2. done.cmd = r.cmd
  BY DEF RequestsFit, RequestFits
<1> HIDE DEF done
<1>3. ASSUME NEW q \in requests' PROVE q.cmd \in Referenced
  BY <1>1, <1>2 DEF Referenced
<1>4. \A p \in Pages : retry[p] # None => retry[p] \in Referenced'
  BY DEF Referenced
<1>5. Referenced' \subseteq Referenced
  BY <1>3 DEF Referenced
<1>6. \A q \in requests' : q.cmd \in Referenced'
  BY DEF Referenced
<1>7. r.awaited => r.cmd \in Referenced'
  BY <1>1, <1>2, <1>6
<1>8. \A q \in requests \ {r} : q.cmd \in Referenced'
  BY <1>1, <1>6
<1> QED
  BY <1>4, <1>5, <1>7, <1>8

LEMMA ExecutedRequests ==
  ASSUME RequestsFit, NEW r \in requests, NEW result, result.kind \in Kinds,
         Executed(r, result), UNCHANGED <<retry, pending>>,
         r.awaited /\ result.kind = "ok" =>
           r.cmd \in DOMAIN stored' /\ result.snapshot = stored'[r.cmd],
         \A q \in requests \ {r} : q.cmd \in DOMAIN stored =>
           q.cmd \in DOMAIN stored' /\ stored'[q.cmd] = stored[q.cmd]
  PROVE  RequestsFit'
<1> DEFINE done == [r EXCEPT !.result = result]
<1>1. requests' = (requests \ {r}) \cup (IF r.awaited THEN {done} ELSE {})
  BY DEF Executed
<1>2. RequestFits(r)
  BY DEF RequestsFit
<1>3. /\ done.page = r.page /\ done.cmd = r.cmd /\ done.result = result
      /\ done.awaited <=> r.awaited
      /\ DOMAIN done = {"page", "cmd", "awaited", "result"}
  BY <1>2 DEF RequestFits
<1> HIDE DEF done
<1>4. IsFiniteSet(requests')
  <2>1. IsFiniteSet(requests \ {r})
    BY FS_RemoveElement DEF RequestsFit
  <2>2. requests' = (requests \ {r}) \cup {done} \/ requests' = requests \ {r}
    BY <1>1
  <2>3. IsFiniteSet((requests \ {r}) \cup {done})
    BY <2>1, FS_AddElement
  <2> QED
    BY <2>1, <2>2, <2>3
<1>5. \A q \in requests' : (q \in requests /\ q # r) \/ (q = done /\ r.awaited)
  BY <1>1
<1>6. ASSUME NEW q \in requests' PROVE RequestFits(q)'
  <2>1. CASE q \in requests /\ q # r
    <3>1. RequestFits(q)
      BY <2>1 DEF RequestsFit
    <3> QED
      BY <2>1, <3>1 DEF RequestFits
  <2>2. CASE q = done /\ r.awaited
    <3>1. q.page \in Pages /\ q.result.kind \in Kinds
          /\ retry'[q.page] = q.cmd /\ pending'[q.page]
      BY <1>2, <1>3, <2>2 DEF RequestFits
    <3>2. q.result.kind = "ok" => q.cmd \in DOMAIN stored' /\ q.result.snapshot = stored'[q.cmd]
      BY <1>3, <2>2
    <3> QED
      BY <1>3, <2>2, <3>1, <3>2 DEF RequestFits
  <2> QED
    BY <1>5, <2>1, <2>2
<1>7. ASSUME NEW q \in requests', NEW s \in requests', q.awaited, s.awaited,
             q.page = s.page
      PROVE  q = s
  <2>1. q \in requests \/ q = done
    BY <1>5
  <2>2. s \in requests \/ s = done
    BY <1>5
  <2>3. \A a, b \in requests : a.awaited /\ b.awaited /\ a.page = b.page => a = b
    BY DEF RequestsFit
  <2> QED
    BY <1>3, <1>5, <1>7, <2>3
<1> QED
  BY <1>4, <1>6, <1>7 DEF RequestsFit

LEMMA RecordStep ==
  ASSUME IInv, NEW r \in requests, Record(r), UNCHANGED pageVars
  PROVE  IInv'
<1> DEFINE cmd == r.cmd
<1>1. /\ MayRecord(cmd) /\ Reduce(cmd) /\ version' = version + 1
      /\ Executed(r, [kind |-> "ok", snapshot |-> Snapshot'])
      /\ stored' = [c \in (DOMAIN stored \cup {cmd}) \cap Referenced' |->
                      IF c = cmd THEN Snapshot' ELSE stored[c]]
      /\ media' = media /\ withdrawn' = withdrawn
  BY DEF Record, Store
<1>2. /\ view' = view /\ retry' = retry /\ pending' = pending
      /\ retryLocked' = retryLocked /\ revoked' = revoked /\ run' = run
      /\ paused' = paused /\ readiness' = readiness /\ activeIndex' = activeIndex
      /\ grader' = grader /\ draft' = draft
  BY DEF pageVars, commandVars, playerVars, markVars
<1>3. cmd \in Referenced /\ CommandFits(cmd, Snapshot, mode)
  BY DEF IInv, CommandsFit, Referenced
<1>4. /\ StateFits(Snapshot', mode') /\ mode' = mode
      /\ cmd.type = "playback" /\ phase = "listening" =>
           /\ round' = round
           /\ cmd.list = <<round[Len(played) + 1]>> => Len(played') = Len(played) + 1
  BY <1>1, <1>3, SessionGoesOn DEF IInv
<1>5. /\ version \in Nat /\ cmd.version = version /\ cmd \notin DOMAIN stored
      /\ Snapshot.version = version /\ Snapshot'.version = version + 1
  BY <1>1 DEF IInv, ServerFits, StateFits, MayRecord, Snapshot
<1> DEFINE after == Snapshot'
<1>6. /\ after.version = version + 1 /\ after.round = round' /\ after.played = played'
  BY <1>1 DEF Snapshot
<1>7. StateFits(after, mode) /\ ServerFits'
  BY <1>1, <1>4 DEF IInv, ServerFits, OthersFit
<1> HIDE DEF after, cmd
<1>8. ASSUME NEW s, Shows(s, Snapshot, mode)
      PROVE  Shows(s, after, mode)
  BY <1>5, <1>6, <1>8 DEF Shows, StateFits
<1>9. Shows(after, after, mode)
  BY <1>5, <1>6, <1>7 DEF Shows
<1>10. /\ DOMAIN stored' = (DOMAIN stored \cup {cmd}) \cap Referenced'
       /\ \A c \in DOMAIN stored' : stored'[c] = IF c = cmd THEN after ELSE stored[c]
  BY <1>1 DEF after
<1>11. /\ Referenced' \subseteq Referenced
       /\ r.awaited => cmd \in Referenced'
       /\ \A q \in requests \ {r} : q.cmd \in Referenced'
  BY <1>1, <1>2, ExecutedReferences DEF IInv, cmd
<1>12. TablesFit'
  BY <1>2 DEF IInv, TablesFit
<1>13. StoreFits'
  <2>1. ASSUME NEW c \in DOMAIN stored' PROVE Shows(stored'[c], after, mode)
    <3>1. c # cmd => Shows(stored[c], Snapshot, mode)
      BY <1>10 DEF IInv, StoreFits
    <3> QED
      BY <1>8, <1>9, <1>10, <3>1
  <2> QED
    BY <1>4, <1>10, <2>1 DEF StoreFits, after
<1>14. CommandsFit'
  <2>1. ASSUME NEW c \in Referenced' PROVE CommandFits(c, after, mode)
    <3>1. CommandFits(c, Snapshot, mode)
      BY <1>11 DEF IInv, CommandsFit
    <3>2. c.version \in Nat
      BY <3>1 DEF CommandFits, Commands, Playback, Grading
    <3> QED
      BY <1>5, <1>6, <3>1, <3>2 DEF CommandFits
  <2> QED
    BY <1>4, <2>1 DEF CommandsFit, after
<1>15. RequestsFit'
  <2> DEFINE result == [kind |-> "ok", snapshot |-> after]
  <2>1. result.kind = "ok" /\ result.snapshot = after /\ Executed(r, result)
    BY <1>1 DEF after
  <2> HIDE DEF result
  <2>2. r.awaited => cmd \in DOMAIN stored' /\ after = stored'[cmd]
    BY <1>10, <1>11
  <2>3. \A q \in requests \ {r} : q.cmd \in DOMAIN stored =>
           q.cmd \in DOMAIN stored' /\ stored'[q.cmd] = stored[q.cmd]
    BY <1>5, <1>10, <1>11
  <2> QED
    BY <1>2, <2>1, <2>2, <2>3, ExecutedRequests DEF IInv, Kinds, cmd
<1>16. ASSUME NEW p \in Pages PROVE PageFits(p)'
  <2>1. PageFits(p)
    BY DEF IInv, PagesFit
  <2>2. ViewFits(view'[p], after, mode)
    BY <1>2, <1>8, <2>1 DEF PageFits, ViewFits
  <2>3. FromView(retry'[p], view'[p], stored')
    <3>1. FromView(retry[p], view[p], stored) /\ ViewFits(view[p], Snapshot, mode)
      BY <2>1 DEF PageFits
    <3>2. CASE retry[p] # cmd \/ retry[p] = None
      BY <1>2, <1>10, <3>1, <3>2 DEF FromView
    <3>3. CASE retry[p] = cmd /\ retry[p] # None
      <4>1. /\ view[p] # None /\ cmd.version = view[p].version
            /\ cmd.round = view[p].roundNumber
        BY <3>1, <3>3 DEF FromView
      <4>2. /\ view[p].phase = phase /\ view[p].round = round /\ view[p].played = played
        BY <1>5, <3>1, <4>1 DEF ViewFits, Shows, Snapshot
      <4>3. cmd \in DOMAIN stored' =>
              /\ stored'[cmd].version = view[p].version + 1
              /\ cmd.type = "playback" /\ view[p].phase = "listening" =>
                   /\ stored'[cmd].round = view[p].round
                   /\ cmd.list = <<view[p].round[Len(view[p].played) + 1]>> =>
                        Len(stored'[cmd].played) = Len(view[p].played) + 1
        BY <1>4, <1>5, <1>6, <1>10, <4>1, <4>2
      <4> QED
        BY <1>2, <3>3, <4>1, <4>3 DEF FromView
    <3> QED
      BY <3>2, <3>3
  <2>4. LoopFits(run'[p], view'[p], retry'[p]) /\ (Listens(p)' => activeIndex'[p] >= 1)
    BY <1>2, <2>1 DEF PageFits, Listens
  <2>5. /\ grader'[p] # None => view'[p] # None /\ view'[p].phase = "grading"
                                /\ grader'[p] = view'[p].version
        /\ pending'[p] \/ retryLocked'[p] <=> retry'[p] # None
    BY <1>2, <2>1 DEF PageFits
  <2> QED
    BY <1>4, <2>2, <2>3, <2>4, <2>5 DEF PageFits, after
<1> QED
  BY <1>7, <1>12, <1>13, <1>14, <1>15, <1>16 DEF IInv, PagesFit

\* A command that is answered from the store or refused leaves the session alone,
\* and so does one whose transaction fails.
LEMMA RefuseStep ==
  ASSUME IInv, NEW r \in requests,
         NEW result \in {Outcome(r.cmd), Result("rejected")},
         Executed(r, result), Store(stored),
         UNCHANGED sessionVars, UNCHANGED pageVars
  PROVE  IInv'
<1>1. /\ view' = view /\ retry' = retry /\ pending' = pending
      /\ retryLocked' = retryLocked /\ revoked' = revoked /\ run' = run
      /\ paused' = paused /\ readiness' = readiness /\ activeIndex' = activeIndex
      /\ grader' = grader /\ draft' = draft
  BY DEF pageVars, commandVars, playerVars, markVars
<1>2. SessionSame /\ OthersFit'
  BY SessionStays DEF IInv
<1>3. TablesFit'
  BY <1>1 DEF IInv, TablesFit
<1>4. /\ result.kind \in Kinds
      /\ result.kind = "ok" => r.cmd \in DOMAIN stored /\ result.snapshot = stored[r.cmd]
  BY DEF Outcome, Result, Kinds
<1>5. Executed(r, result)
  OBVIOUS
<1>6. /\ Referenced' \subseteq Referenced
      /\ r.awaited => r.cmd \in Referenced'
      /\ \A q \in requests \ {r} : q.cmd \in Referenced'
  BY <1>1, <1>5, ExecutedReferences DEF IInv
<1>7. /\ StoredShrinks /\ DOMAIN stored' \subseteq Referenced'
      /\ \A cmd \in DOMAIN stored \cap Referenced' :
           cmd \in DOMAIN stored' /\ stored'[cmd] = stored[cmd]
  BY StoreShrinks DEF IInv
<1>8. RequestsFit'
  BY <1>1, <1>4, <1>5, <1>6, <1>7, ExecutedRequests DEF IInv
<1>9. \A p \in Pages : PageSame(p)
  BY <1>1 DEF PageSame
<1> QED
  BY <1>2, <1>3, <1>6, <1>7, <1>8, <1>9, PagesGoOn

LEMMA ExecuteStep ==
  ASSUME IInv, NEW r \in requests, Execute(r)
  PROVE  IInv'
<1>1. UNCHANGED pageVars
  BY DEF Execute
<1>2. \/ Record(r)
      \/ Executed(r, Outcome(r.cmd)) /\ Store(stored) /\ UNCHANGED sessionVars
  BY DEF Execute
<1> QED
  BY <1>1, <1>2, RecordStep, RefuseStep

LEMMA FailToServeStep ==
  ASSUME IInv, FailToServe
  PROVE  IInv'
<1>1. PICK r \in requests : FailToExecute(r) \/ FailToAnswer(r)
  BY DEF FailToServe
<1>2. CASE FailToExecute(r)
  <2>1. /\ Executed(r, Result("rejected")) /\ Store(stored)
        /\ UNCHANGED sessionVars /\ UNCHANGED pageVars
    BY <1>2 DEF FailToExecute
  <2> QED
    BY <2>1, RefuseStep
<1>3. CASE FailToAnswer(r)
  BY <1>3, HearStep DEF FailToAnswer
<1> QED
  BY <1>1, <1>2, <1>3

\* Others act on the task and its audio, or nothing happens.
LEMMA OthersStep ==
  ASSUME IInv, CancelTask \/ LoseAudio \/ GenerateAudio \/ UNCHANGED vars
  PROVE  IInv'
<1>1. UNCHANGED <<machineVars, version, stored, requests, pageVars>>
  BY DEF CancelTask, LoseAudio, GenerateAudio, vars, serverVars, sessionVars
<1>2. OthersFit'
  <2>1. media \in [files : Nat, active : BOOLEAN] /\ withdrawn \in BOOLEAN
    BY DEF IInv, ServerFits, OthersFit
  <2>2. CASE CancelTask \/ UNCHANGED vars
    BY <2>1, <2>2 DEF CancelTask, vars, serverVars, sessionVars, OthersFit
  <2>3. CASE LoseAudio
    BY <2>1, <2>3 DEF LoseAudio, OthersFit
  <2>4. CASE GenerateAudio
    BY <2>1, <2>4 DEF GenerateAudio, OthersFit
  <2> QED
    BY <2>2, <2>3, <2>4
<1>3. /\ view' = view /\ retry' = retry /\ pending' = pending
      /\ retryLocked' = retryLocked /\ revoked' = revoked /\ run' = run
      /\ paused' = paused /\ readiness' = readiness /\ activeIndex' = activeIndex
      /\ grader' = grader /\ draft' = draft /\ stored' = stored /\ requests' = requests
  BY <1>1 DEF pageVars, commandVars, playerVars, markVars
<1>4. SessionSame
  BY <1>1 DEF SessionSame, Snapshot, machineVars
<1>5. TablesFit'
  BY <1>3 DEF IInv, TablesFit
<1>6. /\ Referenced' = Referenced
      /\ StoredShrinks /\ DOMAIN stored' \subseteq Referenced'
  BY <1>3 DEF IInv, StoreFits, Referenced, StoredShrinks
<1>7. RequestsFit'
  BY <1>3, RequestsStay DEF IInv
<1>8. \A p \in Pages : PageSame(p)
  BY <1>3 DEF PageSame
<1> QED
  BY <1>2, <1>4, <1>5, <1>6, <1>7, <1>8, PagesGoOn

-----------------------------------------------------------------------------
(***************************************************************************)
(* The theorems.                                                           *)
(***************************************************************************)

LEMMA InitFits == ASSUME Init PROVE IInv
<1>1. TablesFit
  BY DEF Init, TablesFit
<1>2. ServerFits
  <2>1. /\ Words \in Seq(Items) /\ IsInjective(Words) /\ Words # <<>> /\ Len(Words) > 0
    BY PageAssumption, RangeOfList
  <2>2. /\ version = 0 /\ phase = "listening" /\ roundNumber = 1 /\ round = Words
        /\ played = <<>> /\ marked = <<>> /\ mode \in Modes
        /\ media = [files |-> 1, active |-> TRUE] /\ withdrawn = FALSE
    BY DEF Init
  <2>3. StateFits(Snapshot, mode)
    BY <2>1, <2>2 DEF StateFits, Snapshot
  <2> QED
    BY <2>2, <2>3 DEF ServerFits, OthersFit
<1>3. Referenced = {} /\ requests = {} /\ DOMAIN stored = {}
  BY DEF Init, Referenced
<1>4. StoreFits /\ CommandsFit
  BY <1>3 DEF StoreFits, CommandsFit
<1>5. RequestsFit
  BY <1>3, FS_EmptySet DEF RequestsFit
<1>6. PagesFit
  BY DEF Init, PagesFit, PageFits, ViewFits, FromView, LoopFits, Listens
<1> QED
  BY <1>1, <1>2, <1>4, <1>5, <1>6 DEF IInv

LEMMA PageStep ==
  ASSUME IInv, NEW p \in Pages, GoOn(p) \/ OtherWay(p)
  PROVE  IInv'
<1>1. CASE Open(p)
  BY <1>1, OpenStep
<1>2. CASE GoBack(p) \/ Reload(p)
  BY <1>2, UnloadStep DEF GoBack, Reload
<1>3. CASE \/ LoadAudio(p) \/ FailToLoad(p) \/ LoadAgain(p) \/ StartButton(p)
           \/ ReplayButton(p) \/ PauseButton(p) \/ ResumeButton(p) \/ EndInterval(p)
           \/ BreakOff(p)
  BY <1>3, PlayerButtons
<1>4. CASE ReportPlayback(p)
  BY <1>4, ReportStep
<1>5. CASE SelectMarks(p)
  BY <1>5, SelectStep
<1>6. CASE SubmitAllRight(p)
  <2>1. [k \in 1..Len(view[p].round) |-> "correct"] \in [1..Len(view[p].round) -> Results]
    BY DEF Results
  <2> QED
    BY <1>6, <2>1, SubmitStep DEF SubmitAllRight
<1>7. CASE SubmitWithMistakes(p)
  BY <1>7, SubmitStep DEF SubmitWithMistakes
<1>8. CASE RetrySave(p)
  BY <1>8, RetryStep
<1>9. CASE Poll(p)
  BY <1>9, PollStep
<1>10. CASE \E r \in requests : LoseAnswer(p, r)
  BY <1>10, LoseStep
<1> QED
  BY <1>1, <1>2, <1>3, <1>4, <1>5, <1>6, <1>7, <1>8, <1>9, <1>10 DEF GoOn, OtherWay

LEMMA NextKeepsFit == ASSUME IInv, [Next]_vars PROVE IInv'
<1>1. CASE \E p \in Pages : GoOn(p) \/ OtherWay(p)
  BY <1>1, PageStep
<1>2. CASE Serve
  BY <1>2, ExecuteStep, HearStep DEF Serve, Receive
<1>3. CASE CancelTask \/ LoseAudio \/ GenerateAudio \/ UNCHANGED vars
  BY <1>3, OthersStep
<1>4. CASE FailToServe
  BY <1>4, FailToServeStep
<1> QED
  BY <1>1, <1>2, <1>3, <1>4 DEF Next

\* The inductive invariant: whatever was lost, repeated or overtaken, everything
\* that shows a version of the session shows it as it is or was.
THEOREM SpecIInv == Spec => []IInv
<1>1. Init => IInv
  BY InitFits
<1>2. IInv /\ [Next]_vars => IInv'
  BY NextKeepsFit
<1> QED
  BY <1>1, <1>2, PTL DEF Spec

\* Page, player and server keep fitting together: the loop counts the version the
\* page shows, and what is to be sent again was recorded, if it was, right after
\* the view it came from.
THEOREM PageInvHolds == Spec => []PageInv
<1>1. ASSUME IInv PROVE PageInv
  <2>1. PageTypeOK
    <3>1. version \in Nat /\ withdrawn \in BOOLEAN
      BY <1>1 DEF IInv, ServerFits, StateFits, OthersFit, Snapshot
    <3>2. ASSUME NEW p \in Pages
          PROVE  /\ retry[p] = None \/ retry[p] \in Playback \cup Grading
                 /\ run[p] = None \/ run[p] \in Run
                 /\ pending[p] => retry[p] # None
                 /\ retryLocked[p] => retry[p] # None
      <4>1. PageFits(p)
        BY <1>1 DEF IInv, PagesFit
      <4>2. retry[p] # None => retry[p] \in Playback \cup Grading
        BY <1>1 DEF IInv, CommandsFit, CommandFits, Commands, Referenced
      <4> QED
        BY <4>1, <4>2 DEF PageFits, LoopFits
    <3> QED
      BY <3>1, <3>2 DEF PageTypeOK
  <2>2. PlayerFollowsPage
    <3>1. ASSUME NEW p \in Pages, run[p] # None
          PROVE  /\ view[p] # None /\ view[p].phase = "listening"
                 /\ run[p].version = view[p].version
                 /\ run[p].index \in 1..Len(view[p].round)
                 /\ LET next == IF run[p].at = "waiting" THEN run[p].index + 1 ELSE run[p].index
                    IN run[p].kind = "sequence" => next = Len(view[p].played) + 1
      BY <1>1, <3>1 DEF IInv, PagesFit, PageFits, LoopFits
    <3> QED
      BY <3>1 DEF PlayerFollowsPage
  <2>3. RetryFits
    BY <1>1 DEF IInv, PagesFit, PageFits, FromView, RetryFits
  <2> QED
    BY <2>1, <2>2, <2>3 DEF PageInv
<1> QED
  BY <1>1, SpecIInv, PTL

\* A round whose words were all heard is open for grading.
THEOREM NeverADeadEnd == Spec => []NoDeadEnd
<1>1. IInv => NoDeadEnd
  BY DEF IInv, ServerFits, StateFits, Snapshot, NoDeadEnd
<1> QED
  BY <1>1, SpecIInv, PTL

\* The marks a page shows as selected were made on the words it shows.
THEOREM MarksAreMadeHere == Spec => []MarksMadeHere
<1>1. IInv => MarksMadeHere
  BY DEF IInv, PagesFit, PageFits, MarksMadeHere
<1> QED
  BY <1>1, SpecIInv, PTL
=============================================================================
