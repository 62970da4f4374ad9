# Verification of kickoffwhen

kickoffwhen is a family learning application. Guardians hand out dictation
tasks made of learning cards, a child plays and marks them on a paired device, a
review service keeps the spaced-repetition memory of every card, and a finished
task becomes a todo that a guardian approves and rewards. It is a Next.js
application over one PostgreSQL database, with a worker process that generates
speech, recognises photographed pages and removes files.

This directory holds TLA+ specifications translated from the source, TLC
configurations that check them on small instances, and TLAPS proofs for every
value of the constants. `PROJECT.json` lists for every definition the lines it
models, for every property a plausible mistake that breaks it, and for every
hazard of the code the properties aimed at it. Paths below are relative to
`src/src/` of the repository.

## 1. The system

| component | state it keeps | operations | talks to |
|---|---|---|---|
| session machine `modules/dictation/session-machine.ts` | pure: phase, round number, the round, what was played and marked, first and latest marks | create, record playback, submit marks | called by the session service |
| session service `modules/dictation/session-service.ts` | `dictation_sessions` (the machine's state and a version), items, rounds, playback and answer events, `dictation_commands`, completion event | start, resume, record playback, submit marks | machine; review service; task row; media rows (is the speech there) |
| task management `modules/dictation/task-management.ts` | `learning_tasks`, `learning_task_items` | cancel, remove a word before the start | session row, todo row |
| task building `modules/dictation/task-service.ts`, `active-task-cards.ts` | the same tables, jobs, todo | build a daily task or a batch, idempotent by command id | review states (due cards), job queue, todos |
| automatic review `modules/review/auto-review-task.ts`, `worker/index.ts` | none of its own | one review task per child, subject and day | task building |
| review service `modules/review/service.ts`, `scheduler.ts` | `child_card_states`, `review_events` | record first result, mark relearning complete | called by the session service inside its transaction; the library ts-fsrs computes due dates |
| todos `modules/todos/*` | `todo_tasks`, submissions, reviews, rewards, attachment files | create, edit, cancel, submit, review | dictation task status |
| job queue `modules/jobs/*` | `jobs`: status, attempts, availability, lease | enqueue, request again, claim, run, finish or retry | speech and recognition providers, media store |
| media store `modules/media/*` | `private_media` rows and files on disk | put, open, remove, reconcile orphans | job queue; session start reads it |
| OCR drafts and content `modules/learning-content/*` | drafts, lines, cards | upload, recognise, confirm | job queue, media store |
| devices `modules/devices/service.ts` | devices, pairing codes, child sessions, access rows | pair, select a child, change access, revoke | children, parent mode |
| PIN and parent mode `modules/families/service.ts`, `modules/devices/parent-mode-access.ts` | PIN hash, counter of failures, unlocks | set and verify PIN, unlock, lock | devices |
| child views `modules/dictation/child-view-service.ts` | none | what a page is shown of a session, from the stored result of a command or the present state | session rows, media rows |
| dictation client `components/dictation/*`, `modules/dictation/client-resume.ts` | a view, at most one command under way, a command to repeat, the player, marks kept on the device | play, mark, save, retry, resume | the command route, the child views |
| audio playback `components/dictation/audio-playback.ts` | one run of a list or of a replay, its position, paused or not | start, replay, pause, resume, dispose | the page, the audio element |
| homework `components/todos/*`, `modules/todos/http.ts`, `recording.ts` | what a board shows, the form that is open, a recorder and its stream | edit, submit with evidence, judge, record | the todo service, files on disk |
| reports, seed import, accounts, pages | read-only, operator batch, external library, rendering | - | - |

Where it is hard: several devices of one child act on one session, answers to
requests get lost and requests are sent again; a guardian cancels while the
child works; the same facts are written to several tables (machine state in the
session row, marks in the item rows, the review history, the status of session,
task and todo); the review service can refuse a result, which rolls back the
whole batch of marks and would block the session for good; a worker can be
slower than its lease or die between a file and its row.

What makes each part correct:

- *session*: commands form one log with each command once and decided on the
  latest state; every word is asked until it is right, none is lost; a first
  result is entered once; all tables tell the same story; no result a child can
  give is refused; a closed session is never touched; completion, cancellation
  and reward exclude each other as they should.
- *task building*: a card is in one active task of a child at most; its kind
  fits its memory state; one task per command id.
- *job queue*: a job is held by one worker at a time, runs at most five times,
  has one outcome per attempt, and ends.
- *media store*: every active row has its file; files without rows disappear
  from their place, those about to get their row do not.
- *OCR*: a draft is confirmed once and has one set of lines.
- *devices, PIN*: a code pairs one device; withdrawn access is gone; the limit
  of wrong PINs holds for all attempts together.
- *client*: whatever is lost and repeated, the work a child did is recorded
  once, the client always has a way on, and marks never move to a round they
  were not made in.
- *homework*: nobody's edit is lost, a review judges the submission its guardian
  saw, the evidence of a submission is kept and no other file is; the
  microphone is released when the form is left, however late it was granted.

## 2. Modules

| module | what it is |
|---|---|
| `SessionMachine` | the reducer of `session-machine.ts`: each branch an action on the machine's fields, a refused event a disabled action; the invariant the machine keeps |
| `DictationSession` | the whole life of one task: start, commands with versions and ids, answers and review events, management, todo and reward; each action is one database transaction |
| `LearningPromise` | abstract: what a session promises the family - words become known one answer at a time, a first result is entered once, completion is the answer that makes the last word known |
| `CommandLog` | abstract: what devices may rely on - commands are a log, each entered once, each decided with all earlier ones in sight |
| `MCDictationSession` | small instances for TLC |
| `WorkQueue` | abstract: what the job queue promises - a job has one holder at most, only a holder settles it, attempts are bounded and counted, and with workers that poll every job ends |
| `JobQueue` | the queue in the database for the jobs that generate speech: builders that ask, workers that claim under a lease, find or generate speech, store it and settle |
| `MCJobQueue` | small instances for TLC |
| `DeviceAccess` | pairing codes, devices, the children of a device, their sessions: transactions of several statements under row locks |
| `FamilyAccess` | abstract: what a family may rely on of its devices, without statements and locks - everything somebody does happens at once, by what holds then |
| `MCDeviceAccess` | a small instance for TLC |
| `TaskPlanner` | how cards come into tasks: daily builds and batches, query by query under the lock of the child, while other tasks go on |
| `CardsInHand` | abstract: how cards are handed out and come back - a command hands out its daily task or its batch at once, free cards only, each as what it is then |
| `MCTaskPlanner` | a small instance for TLC |
| `MediaStore` | files and their rows: put, remove, the orphan pass, with crashes, failing writes, transactions, clean-ups and passes |
| `AudioPlayback` | the player of a page: runs of a list and of a replay, what each callback and button does to them |
| `DictationPage` | the pages of a child against the session behind them: requests that get lost, answers made from stored results, repeated commands, reloads, a second page, audio that goes away, marks kept on the device |
| `MCDictationPage` | small instances for TLC |
| `PinLock` | PINs of the parent and of a child on several devices: counters, locks, new PINs, unlocks of the parent mode and their use while devices are revoked |
| `MCPinLock` | a small instance for TLC |
| `Homework` | a todo with its edits, submissions, evidence files, reviews and reward, and the boards that send them |
| `OcrDraft` | a picture from its upload through recognition by several workers to its confirmation from several pages |
| `AudioRecording` | the recorder of a submission: starts, permission, events of the recorder, leaving the form |
| `MCUploads` | a small instance of the last three for TLC |
| `DictationSessionProofs`, `DictationPageProofs`, `JobQueueProofs`, `MediaStoreProofs`, `TaskPlannerProofs`, `DeviceAccessProofs`, `PinLockProofs`, `UploadsProofs` | TLAPS proofs, of the last three modules above (`Homework`, `OcrDraft`, `AudioRecording`) together in `UploadsProofs` |

`DictationSession` EXTENDS `SessionMachine` (the service calls the reducer inside
its transaction) and instantiates `LearningPromise` and `CommandLog` through
refinement mappings; `JobQueue` does the same with `WorkQueue`, `DeviceAccess` with
`FamilyAccess` and `TaskPlanner` with `CardsInHand`. What joins the
two halves is the set of active speech: `JobQueue` produces it, the start of a
session reads it, which `DictationSession` leaves free to change at any time
(`AudioChanges`). `TaskPlanner` makes what `DictationSession` starts from: the
condition `Accepts` that `KindsFit` keeps for every task is the one its initial
states satisfy. `MediaStore` opens the steps `PutMedia` and `Withdraw` of
`JobQueue`. `DictationPage` EXTENDS `SessionMachine`, so that the pages act on the
same reducer, and `AudioPlayback`, whose runs report to their page; of the
service it keeps what a page can see (versions, stored results, withdrawal, the
speech of the round) - that any command a device could send is answered
correctly is the matter of `DictationSession`. `PinLock` opens the child PIN of
`DeviceAccess` (`CheckAccess`). `Homework`, `OcrDraft` and `AudioRecording` share
nothing; `MCUploads` puts them side by side, as a sum: the variable `part` says
which one a behaviour is of.

Next to a definition stands, where a plausible mistake in that place would be
caught, its `Faulty...` variant; nothing uses them but the entries "mutants" of
`PROJECT.json`.

### How the model corresponds to the code

`SessionMachine`: the variables are the fields of the state record of
`session-types.ts` (`round` is `currentRoundItemIds`, `first` and `latest` are
the two mark tables). `ReducePlayback` has the two modes as disjuncts;
`PlayBatch` tells the next words of the round from a replay of the current one
in the order of the code. `ReduceMarks` has one disjunct for each way a batch
of marks can end: the round goes on, the session completes, a new round begins.
`IncorrectItems` describes the filtered round by what it contains and in what
order.

`DictationSession`: variables are columns and tables. All transactions that
work on a session lock the task row first (`session-service.ts:130-150`,
`task-management.ts`), so each is one atomic action; a thrown error rolls the
transaction back and is a disabled action. A request is a record with the id,
the version and round the device knew, and its contents; `MayRecord` is the
stored-command check, the task check and the version check in that order
(a repeated command is answered from the store, which changes nothing).
`SubmitBatchMarks` contains the whole loop of the code over the marks: the role
of each answer, the refusals and the review event of the review service, the
item rows, the round rows, the completion event and the status of session and
task. A card stands for its item, as a task has one item per card.

Left to the data abstraction: text, ids, wording, tenant columns (every query is
scoped to family and child; one child of one family is modelled), timestamps,
the numbers the library ts-fsrs computes.

Hand-out is the initial state: `Init` allows every result of `buildDailyTask`
for the instance's words - both modes, with or without manual replay, any subset
of the cards already remembered, kinds that fit.

`JobQueue`: `status`, `attempts`, `availableAt` and `lockedAt` are the columns of
`jobs`, one row per dedupe key. `ClaimOne` is the whole transaction of
`claimOne` in `jobs/worker.ts`: every expired lease of every job is taken back
first (`Stale`, `StatusNow`, `AvailableAtNow`, `LockedAtNow`), then the job
available longest is taken; `ClaimNothing` is the same transaction when there
is none. `work[w]` is the row a worker keeps in its hands: the values
`ownsLease` compares are those of the claim, while the row may have moved on.
Finding, generating and storing speech and settling are steps of their own, so
a worker can be outrun between any two of them; `SettleRefused` is a success
whose update throws and lands in the catch block; `Crash` may happen at any
step. A builder looks for speech, enqueues and asks again in three steps, with
everybody else in between. `RetryDelay` and `Lease` are the constants of the
code, in units of one clock. Times are read from the clock of the process in
the code; the shipped deployment runs one worker process, and all clocks are
taken to agree. That the clock is read just before the claiming transaction,
not in it, is not modelled apart: a later claim sees an `availableAt` or an end
of lease that is at least as late, so the order of the claim times that
`OneOwner` needs is the same.

`withdrawn` is a history variable: keys whose speech was removed after it was
stored and before the job was next claimed or the speech stored again. In the
shipped code nobody removes the speech of a card; `delete_media` jobs are handled
but never enqueued. The model allows it, as the store offers the operation.

A build that asks again for a job which a worker settles with speech in that
moment is refused with `JOB_TTS_CACHE_EXISTS` (`jobs/service.ts:188`), which
undoes the build (`task-service.ts:362-365`); repeating it finds the speech.
`requeueFailedJob` has no caller in the source, so a word whose speech was given
up gets it from the next build that contains it.

`DeviceAccess`: the variables are the tables; `tx[r]` is where request `r` is in its
transaction, `locks` the row locks it holds. A statement with `FOR UPDATE` or an
UPDATE takes rows for itself, one with `FOR SHARE` shares them; a request that
meets a lock waits (the action is disabled) and then decides on what is
committed by then, as PostgreSQL does at its default isolation. Writes become
visible with the commit, which is the last step of each transaction. An ended or
deleted session is a row that is not live. Left out: the locks of foreign keys
(they exclude only the removal of the row they point to, which the code never
does), the columns of last activity (written under the same order of locks), the
rate limit of codes; a wrong child PIN is a refusal that may always happen
(`CheckAccess`). An expired code gives its place to a new one. A child is
deactivated under the locks of the devices it had when the query began; one it
is given meanwhile is missed, and a session on it can outlive the deactivation -
what keeps it from being admitted is that the admission looks at the child again, so
`LiveSessionFits` does not speak of `active` and `ActorIsEntitled` does.
The admission of a request is a transaction of its own (`devices/service.ts:584-650`):
`admitting` is the time from its last look to its commit, while it shares what it
looked at. What the request does once it was admitted is not part of this module
(section 5).
For `FamilyAccess` a transaction happens at its commit, an admission at its last look;
and a code counts as open until the device it makes is there
(`OpenCodes`), since its expiry is looked at once, in the first statement.

`TaskPlanner`: `memory` is whether the card has a row in `child_card_states` and
whether it is due, `tasks` the rows by command id with the kinds of their items
("marked" once the first mark is in). `tx[r]` holds what a build has read so far:
the code reads the cards in tasks, the due cards and the cards begun in separate
statements, each a step here. The child's row is locked from the first to the
last statement, so `ChildIsFree` guards the first. A batch calls the daily build
once per section inside its own transaction; the tasks made so far are in sight
of this build alone (`CardsMade`). A refusal rolls everything back. Marking,
finishing, cancelling and removing a word take no lock of the child and may come
between any two statements. One child and one subject are modelled, the order of
cards and sections and the choice among due cards are left open. An automatic
review is a daily build without new cards. For `CardsInHand` a build happens at its
commit. A batch leaves out cards that became free only while it was built, so the
abstract build takes any of the free cards that suit its parts.

`MediaStore`: a put is named by the id of its medium. `temp` and `final` are the
two places of its file, `row` the committed row; the steps are the operations on
files and the statements in between. A put waits while an uncommitted one holds
its key, as the unique index makes it. `FailToWrite` is an error of the directory or
of the temporary file, which come before the `try` and are not cleaned up after
(`media/store.ts:172-175`); `Fail` is an error at any later statement, `LoseCommit`
an error after the commit, `Crash` the death of the process; the code cleans up
after `Fail` and `LoseCommit` in the same way, which can fail too (`FailToCleanUp`).
A statement of the pass may fail, which ends it until the next one (`FailPass`).
Time is the age of files, up to the grace. `PutLimit` is an assumption: the code does
not limit a put, and one that took more than the grace (a day, as the worker calls
the pass) between writing and commit could lose its file to the pass. What the
code leaves behind is visible in the model: a file in its final place goes with the
pass (of a put that crashed, or whose clean-up failed); a temporary file stays (of a
put that crashed, whose write broke off or whose clean-up failed), as the pass
looks for final names only. So do the file of a removed medium if the process dies
before the file goes or the removal fails, the file of an expired medium that was
replaced, and, after a lost commit, a valid row
without its file.

`DictationPage`: the session is a pair of rows (`version`, the machine's fields)
with the commands stored by id (`stored`), each with the snapshot it led to. A
request is in the set `requests` from the moment it is sent until its answer is
heard or lost: `Execute` is the transaction of the command, `Receive` the making
of the answer and what the page does with it; a lost answer (`LoseAnswer`)
leaves the command to be repeated with the same id and payload, and the
command may still be executed after that. `Answer` follows the route: a view of the
stored result, or SESSION_CHANGED with the present view, or what the route makes
of a session that is withdrawn or whose speech is gone. `React` follows
`sendCommand`: each answer settles the command, except a failure of the network
(`retryLocked`). A statement of the command may fail (`FailToExecute`), and so may
reading the session for the answer (`FailToAnswer`) or for the page's question every
five seconds (`Poll`): the routes make a rejected command of it, or a session that is
gone. `LoseAudio` is nothing the shipped code does: speech is stored with no end
(`jobs/worker.ts:274`) and no `delete_media` job is enqueued. The code answers for it
(AUDIO_NOT_READY), so the model has it, as something done by hand from outside.
`Show` replaces a view: the player stays for the same round and files, the marks are those kept on the device for this round and version
(`Recovered`). A reload forgets everything but these marks, a second page knows
nothing of the first. The player is `AudioPlayback`: a run of the list or of a
replay stands at one of the places where the code waits (`RunPlaces`), and a
report to the server is a step between two of them. A run that was replaced has
no further step: that is what the generations and abort signals of
`audio-playback.ts` are for, and `Saved` looks at what they guard. Left out: the
repetitions of a word and the length of intervals, the buttons' texts, the
answers a page gets for requests that are malformed. When the files of a round
change on an open page, the code goes on showing the state of the player before
until the new ones are loaded, the model shows "preloading". Each page is on
a device of its own: two pages in one browser share the marks kept there, which is
not modelled (they are recovered for one round and version only, whoever kept them).
 A command that is
no longer wanted by any page, on the way or kept to be repeated is dropped from
`stored` (`Referenced`), since nothing can name its id again.

`PinLock`: `counter` holds `failed_attempts` and `locked_until` of the parent's
PIN and of each child on each device; `tx[r]` is where a request is in its
transaction. `ReadCounter` is the statement with `FOR UPDATE` (for a child: the
device's row was locked before), and what is decided afterwards uses the row as
it was read and the time from the start of the request, however long the
check of the hash took (`MaxDelay`). `wrong[k]` is a history variable: when
the wrong PINs of the last `LockTime - MaxDelay` were counted, since the last
PIN that was right or set anew. Expired unlocks that no request refers to are dropped.

`Homework`: one todo of kind "manual", the kind of the boards. `req[r]` is a
request with the contents of the form it was sent from; a handler reads the list
and saves the file before the transaction of the service (`Authorize`,
`SaveAttachment`, `Submit`), and removes the file when the service throws
(`GivenBack`, `RemoveAttachment`), also when what threw was only the answer to
the commit. Writing the file may break off, outside the `try` that would remove it
(`FailToSave`; `attachments.ts:8`, `http.ts:53`), and removing it may fail, which is
ignored (`FailToRemove`; `attachments.ts:9`). `orphans` are the files that a crash
or one of these two left, `unheard` those removed
although their submission is committed, because only its answer failed: the code
repairs none of them. A board shows what its last
refresh brought; an edit carries the time of change it saw, a review and a
submission the number. `DateOf` moves the todo to another day, out of a board's
sight.

`OcrDraft`: the job of the picture with its lease and attempts, as in `JobQueue`,
and the handler `runOcr` in the steps between its statements; the second look at
the lines and their insertion are one transaction, whose `FOR UPDATE` on a query
without rows locks nothing, so two workers can both be in it. What stops the
second is the unique index on order (`Orders`): its insertion is refused and
undone. A reading is a number of lines and their text, in the order the provider
gives them. A confirmation locks the draft, compares a draft that is decided with
what it was sent, and otherwise makes one card for each chosen line.
The route of the shipped application has `providerStatus` "disabled", so uploads
are refused; what is modelled is an installation with a provider.

`AudioRecording`: `asking` are the starts that wait for the permission, `live` the
streams whose tracks hold the microphone, `device` the recorders of the browser, which
may still send events when they are stopped; each is named by the generation of
its start.

No fairness is assumed in `DictationSession`, `TaskPlanner`, `DeviceAccess`,
`PinLock` and the modules of `MCUploads`: what happens in them is up to people. A child may stop in the middle of a task for
ever, and the code does not claim otherwise. That the next step is always open is
stated as safety (`MarksAreAccepted`).

## 3. Runs

| run | instance | question |
|---|---|---|
| TwoWords | 2 words, 6 commands, 2 submissions, every list of distinct words and every marking | does one task, from hand-out to reward, keep every property of `DictationSession`, and implement `LearningPromise` and `CommandLog`? |
| ThreeWords | 3 words in task order, 4 commands, no todo | does the history of rounds fit where a second round can have an order of its own and a word can drop out of the middle? |
| WorkQueue | 2 jobs, 2 workers, the 5 attempts of the code | does the abstract promise imply that every job ends? |
| OneJob | 1 word, 2 workers, 2 builders, 3 attempts, lease 2, time 6 | does any order of slow workers, crashes, expiries, retries and requests give a job two owners, strand it, or report speech that was never stored? |
| DeviceAccess | 2 requests at a time, 2 devices, 2 children, 2 codes, 2 sessions | does any interleaving of pairing, selecting, granting, revoking, deactivating and admitting let in a request that is not entitled, leave a session that should have ended, or leave the requests waiting for each other? is each transaction as if it ran alone (`FamilyAccess`)? |
| TaskPlanner | 2 cards in 2 sections, 2 commands, 2 requests | can builds, marks, cancellations and repeated commands, in any order, put a card into two tasks, give it a kind its mark will be refused for, or make a batch refuse its own choice? is a build as if made in one look (`CardsInHand`)? |
| DictationPage | 2 pages of one child, 2 words, 2 rounds, one thing that goes wrong anywhere | with the commands the pages really send, over lost answers, statements that fail, reloads and a second page: do page, player and session fit, does the continuous mode always have a way on, do marks stay where they were made, does a child that goes on get to the end? |
| FailedRead | 1 page, 2 words, one thing that goes wrong | expected to fail: is "withdrawn" shown only for a withdrawn task? |
| PinLock | 2 requests at a time, 2 devices, a parent and a child, limit 2 | does the limit of wrong PINs hold for all devices and requests together, and does the parent mode open only for a PIN that was right, unlocked and recent, on a device that is not revoked? |
| Uploads | (each behaviour is one of the three modules) a board of a guardian and one of a child, 2 requests, 2 files, 2 edits; 2 workers, 2 pages, 2 confirmations, 2 texts, 3 attempts; 4 generations of a recorder | are edits, reviews, evidence files, drafts and recordings what their users saw and sent? |
| MediaStore | 2 puts with or without one key, limit 1, grace 2 | does any order of puts, removals, passes and failures take the file from a valid row, leave files of failed puts that clean up after themselves, or keep orphans for good? |
| TwoJobs | 2 words, 2 workers, 1 builder, 2 attempts, lease 1, time 2 | the same with several jobs: claims that give back several leases, the order of availability; does `JobQueue` implement `WorkQueue`? |

What they show:

- TwoWords: `SessionInv` - the four places that keep the state of a task agree
  (`StatusAgreement`), the marks of the session row and of the item rows agree
  (`RowsAgreeWithMarks`), the review history of a card is its first result and at
  most one correction (`ReviewsFollowMarks`), rewards stand for finished work
  (`RewardAgreement`); no mark a child can give is refused (`MarksAreAccepted`),
  so a session cannot get stuck in grading; rounds and answers tell one story
  (`RoundHistory`); nothing is answered unheard (`AnsweredAfterHeard`); late
  commands change nothing (`ClosedSessionIsFrozen`), repeated ones record nothing
  twice (`WorkNeedsANewCommand`); `KeepsPromise` and `CommandsFormALog` are the
  two refinements.
- ThreeWords: `RoundHistory` again: the next round asks exactly what was wrong, in the
  order of the round before, when two of three words are asked again.
- OneJob: `QueueInv`, the invariant of the proofs, `OneOwner` and
  `SucceededWithSpeech`. TwoJobs: `NoJobIsStranded` and `KeepsQueue`.
- WorkQueue: `JobsSettle`.
- TaskPlanner: `HandedOutOnce` (a card is in one task, with a kind its mark will
  fit), `SectionStaysNew` (which rests on the order of the two lists a batch
  reads); `HandsCardsOut`: it implements `CardsInHand`, so whatever is marked,
  finished or cancelled between the queries, a build hands out cards that are free at
  its end, of the kind they are then, and all tasks of a batch or none.
- MediaStore: `RowHasFile`; `FailedPutIsClean` (a put that failed after its write and
  cleaned up left no file; one whose write broke off left none in its place);
  `OrphansDisappear` (the file that a crashed put or a failed clean-up left in its
  place, without a row, goes).
- DeviceAccess: one live session per device (`OneLiveSession`); a request is admitted
  only while all it rests on is in place at once (`ActorIsEntitled`); it implements
  `FamilyAccess` (`RunsAsIfAlone`): a code makes one device, a selection ends only the
  session before it, access is given for children active at that moment, and
  nothing is withdrawn between the last look of an admission and its commit; the locks are taken without a circle
  (`NoRequestIsStuck`); `AccessInv`: that too, said of the locks alone (`NoCircle`), sessions
  end with the access they rest on, and
  a check holds until the write that relies on it.
- DictationPage: `PageInv` (the loop of the player counts versions and words
  as the page does, and a command kept to be repeated can only be told as saved or
  overtaken); `NoDeadEnd` (the reducer has a dead end in the continuous mode when a
  last word is reported without the end of the list; the reports of the pages
  never lead into it); `MarksMadeHere`; `SessionEnds` (liveness).
- PinLock: `WrongPinsAreFew`, `NoUnlockWhileLocked`, `ParentModeIsEarned`, and
  `PinInv`, why they hold: whoever decides on a counter has read what it still is.
- Uploads: `NoLostEdit`, `JudgedAsSeen`, `HomeworkInv` (status, submissions,
  reviews, reward and files fit); `DraftIsOneReading` (two workers that read a
  picture differently never mix their lines), `ConfirmedOnce`;
  `MicrophoneIsReleased`.

What FailedRead shows. While a session is open its page asks for it every five
seconds, and takes the status 404 for a withdrawal (`dictation-experience.tsx:46`). The
route gives that answer to whatever fails in reading the session but missing audio
(`app/api/child/dictation/[sessionId]/route.ts:23-28`), so one statement that fails, as
while the database restarts, makes the page say that the task was withdrawn, and
take everything but the way back from it, until it is loaded again. That a temporary
failure "should not interrupt dictation" is what the page says at :47 of the network
between itself and the server. A command that names an old version gets the same
answer if the session cannot be read then
(`app/api/child/dictation/[sessionId]/commands/route.ts:108-116`), which the page tells
as the withdrawal by a guardian (`:112-114`). Nothing is lost: the task is still in the
list. The run finds the first in two steps.

Bounds and why they are enough. Two words reach both modes, a partial mark, a
second round of one word or of two, and every order of every list; a third word
is needed only where a round has an inner order, which is ThreeWords. Six
commands are two rounds item by item, or three rounds in the continuous mode.
Two submissions are a rejection and a second try. Three attempts are a first, a
middle and a last one; six units of time are three leases one after the other,
so that a worker can wake up after two others had the job in between. Two
workers are enough for one to be overtaken, and the overtaking one to crash.
Two requests are one that is overtaken and one that overtakes; the order of
locks matters between two, on two devices. Two sessions are one that is
replaced and one that replaces it.
Two cards in two sections are a card taken by one build and one left for the
next; two commands are one whose task goes on while the other is built. Of two
puts each can overtake, supersede or replace the other.
Two pages are one that is overtaken and one that overtakes. In DictationPage a
detour (`MaxDetours`) is something that goes wrong or leads off the way: a lost answer,
a failed statement of the server, a reload, a replay, a pause, a file that fails to
load, or is loaded again in vain, a sound that breaks off, a loss of audio, a
withdrawal. Not counted are the poll that finds the task withdrawn and the
mistakes that lead to a second round. One at a time may sound little, but it falls on any step
of two pages that are already in each other's way, and every other step is taken
as often as it is possible. `MaxRounds` bounds the rounds: a mistake is not made in
the last one.
The run has the sessions that allow replays: without, the page lacks a button, and
what the session refuses then (`MayReplay`) is nothing any page sends; FailedRead has
both.
In PinLock a limit of 2 is one wrong PIN that is counted and one that locks; time
is long enough for a lock to begin, end and begin again, and `MaxDelay` lets a
request that looked at the clock before a lock decide after it. In Uploads two
edits can be each other's loss, two submissions are a rejection and a second
try, two files are one that is kept and one that is given back; the clock has two
values, so that two edits can fall on the same one and the code's own order has
to tell them apart. Two workers and two texts are two readings that differ.
Four generations of a recorder are a start, its cancellation, and the same again.
`MaxTime`, `CommandIds`, `MaxSubmissions`, `MaxDetours`, `MaxRounds`, `MaxEdits`,
`MaxNumber`, `MaxLines` and `MaxGeneration` are the only bounds on counters;
attempts are bounded by the code itself. `FreshIdsInOrder` (command ids are
taken in one order) and `MCSymmetry` in TwoJobs leave out behaviours that
differ only in names. CHECK_DEADLOCK is off where a task really comes to an
end (completed and rewarded, or withdrawn) and where all commands or puts of the
instance are used up; the queue and the device access are checked with it on.

Fairness. `WorkQueue` and `MediaStore` have fair specifications. In `MediaStore` a
put ends one way or another (a transaction commits, fails or dies with its
process), time passes, and a pass that has begun ends. The rest is an assumption
about how the worker is used, not something the code forces. It runs a pass when a poll
finds no job to claim, six hours after the last one at the earliest, for files that
are a day old, and ignores what the pass throws (`jobs/worker.ts:27-28, 130-145,
383-387`). A queue that is never empty, or a statement that fails in every pass, would
keep orphans for ever. So weak fairness of `ListFiles` says that the queue is empty
again and again, and strong fairness of the steps of a pass for one file that not
every pass fails before it gets there; under these `OrphansDisappear` holds. A
removal may be forgotten. In `WorkQueue`: weak fairness
of `IsTaken(j)`: workers poll every second for as long as the process runs
(`worker/index.ts:31-42`), delays are finite, and a claim takes the job that is
available longest, so a waiting job is not passed over for ever. Weak fairness of
`IsLetGo(j)`: a lease ends after 15 minutes, and the next claim by any worker
gives back every job whose lease is over; so a job does not stay running for
ever, however its holder behaves. No fairness is assumed of workers that hold a
job, nor that any attempt succeeds. Both conditions are read off the code; that
`JobQueue` with a fair clock and fair polling implies them is not checked, as its
clock is bounded.

## 4. Proofs

Everything in `*Proofs.tla` is checked by TLAPS for every value of the constants
under the assumptions the modules name. Most of them only say what kind of thing a
constant is: lists are sequences of items, the list of a task names each word once,
limits and times are natural numbers, the value that stands for "none" or "nobody" is
none of the others, and pages and cards are finitely many. Two say something about
the code's surroundings:

- `MediaAssumption`: a put is shorter than the grace of the orphan pass (an hour at
  least, `media/store.ts`; a day, as the worker calls it);
- `DelayAssumption`: a request at the PIN is shorter than a lock (a quarter of an
  hour). `WrongPinsAreFew` is about the wrong PINs of the last `LockTime - MaxDelay`,
  and would say nothing otherwise.

A theorem about an invariant follows from `SpecIInv` of its module (or the theorem
named below), which says that the inductive invariant holds; that one rests on a
lemma per action.

*Session.* `MachineInv` is inductive for the reducer alone
(there is one lemma per way a batch of marks or a playback can end). `SessionInv` adds what the tables say: none of the properties is inductive
by itself. `ReviewsFollowMarks` needs `RowsAgreeWithMarks`, since the code
decides the role of an answer from the item row; `MarksAreAccepted` follows from
`ReviewsFollowMarks` (a correction finds its wrong first result unused) together
with `ItemRowsFit` (a card without a first result still has the memory state its
kind was chosen for, and a played word was counted) and with `MachineInv` (grading
opens only when the round was heard). From it follow `TypesHold`,
`SessionInvHolds`, `GradingNeverRefused`, `RewardsStandForWork`,
`ClosedSessionsAreFrozen`, and `PromiseKept`, the refinement of
`LearningPromise`. `CommandsAreALog` is the refinement of `CommandLog`; it rests
on `CommandsNumbered`, which is inductive with the types.

*Queue.* `OneOwner` is not inductive: whether a second claimer owns the job
depends on when the first claimed it. `LostOnlyByLease` is the strengthening: a
busy worker either still owns its lease or claimed at least a lease ago. So a new
claim, at the present time, can never carry the same `lockedAt` as an old one,
although `attempts` starts again from 0 when a guardian asks again - this is why
the code compares the time as well as the count. `HandledWithSpeech` carries
what a worker has stored up to the moment it reports success. `QueueKept` is the
refinement: the holder of a job is the worker that owns its lease, a claim is a
`Take` together with the giving back of every expired lease, a step of a worker
that lost its lease is a stutter, a crash of an owner is `Vanish`.

*Media.* `RowHasFile` needs to know that the pass never holds a file whose put may
still commit. `MediaInv` says why: a put that is not over is younger than the
grace (`PassFollowsPuts`), so its file is not listed, and once a put is over it
never gets a row (`RowsFollowPuts`). `MediaAssumption`, a put is shorter than the
grace, is used exactly there. `MediaInvariant` is the inductive invariant, from
which `ValidRowsHaveFiles` and `FailedPutsAreClean` follow.

*History of a session.* `RoundHistory` speaks of all rounds there were, so the
invariant carries them: `HistoryInv` says of each round row and of the answers in
it what the reducer said when they were written (the answers of a round are for its
words, one each; of the open round they are the marks of the state; the latest
answer of a word is what the item row says), and rests on `SessionInv`. The step that
needs work is a batch that ends a round: the next round is the filter of the
words of the session by what was wrong (`NextRoundIsWhatWasWrong`). `HeardInv` adds
that what the state counts as played was reported in this round, from which
`AnsweredAfterHeard` follows. `WorkNeedsANewCommand` follows, step by step, from
`CommandsNumbered`.

*Pages.* A page knows the session by answers that may be old. The invariant of
`DictationPageProofs` says of everything that shows a version of the session - views,
stored results, answers on their way - that it shows no version still to come, and
that what shows the version of now shows the session as it is (`Shows`). Of a command
anywhere it says what it reports, if it is about the version of now
(`CommandFits`), of a page that its command is one of the view it shows
(`FromView`), and of its loop that it counts the view's version and words
(`LoopFits`). One awaited request per page and new ids for new commands (the ids in
use are finitely many, `NewIdIsNew`) make an answer the answer to this command.
`PageInv`, `NoDeadEnd` and `MarksMadeHere` follow; `NoDeadEnd` is the promise
the server alone does not give, and holds because every report comes from a view.

*Building tasks.* The child's row is locked, so one build runs at a time (`OneBuild`);
marks and cancellations go on around it. `ReadingsStand` says what of its
readings may be relied on: the cards it counts on are in no active task, so nobody
marks them, and what it takes for reviews or as taken is still so. `HandedOutOnce` and
`SectionStaysNew` follow. `BatchBuiltOnce` is an action property and needs, in
addition, that while a batch is being built none of its tasks exists.
`CardsAreHandedOut` is the refinement of `CardsInHand`. Its invariant, `HandInv`, adds
of what kinds the cards of each part can be (`KindsKnown`) and that the daily task of
a build is the first of its command (`DailyFits`). With `ReadingsStand` a commit is
then `HandOut` of the cards in its parts: the kind a card was given several queries
ago is the one it would be given now.

*Devices.* The statements of transactions interleave. `IInv` says for each step of a
request what it has locked, and what it has read and may rely on because the row is
locked (`SessionConfirmed`, `DeviceHeld`, `SelectionFits`, `CodeHeld`); a lemma
(`HeldRowsStay`) says that no other request changes a row one holds. `OneLiveSession`
is not inductive: a selection has ended the sessions of its device and holds them
all locked by the time it inserts its own. `ActorIsEntitled` is read off the last step of an
admission. `NobodyWaitsInACircle` has an invariant of its own, `LocksInOrder`: what a request
holds of each kind of row depends on the step it is at. Who holds a session locks
nothing more, who holds a child may only lock sessions yet, and who locks devices
holds none that comes after the one it waits for. So if all that are under way
waited, they would all wait for devices, and the holder of the last device that
is waited for would wait for a later one. `FamilyKept`, the refinement of
`FamilyAccess`, needs `FInv`: both invariants, and what each request is about to do
(`Purpose`). The children it pairs a device for are those of the code it claimed, even
if that expires in between (`ClaimFits`); those it gives are active and shared
(`GrantFits`); the sessions a selection ends are of its own device (`EndsOwn`). An
admission shares its session until its commit, so what ends sessions meets none that
are being admitted.
Before its commit a transaction changes nothing that shows, and its commit is one
step of `FamilyAccess`.

*PINs.* `PinInv` is inductive with the rows that requests hold (`RowsHeldApart`): who
counts a PIN holds its counter alone, and what it has read of it is the row.
`WrongPinsAreFew` counts attempts by their times: the wrong PINs remembered are no
more than the counter has counted, and a lock outlasts each of them by a lock less a
delay (`WrongFit`) - the counter is set back only when they are all forgotten, or
by a right or new PIN. `NoUnlockWhileLocked` is an action property of the same
invariant.

*Uploads.* Homework: `HomeworkFits` adds to `HomeworkInv` what requests and forms hold:
a file in the hands of a request is of no other request and of no submission,
unless the answer to its commit was lost; a form that is as new as the row shows its
text. `NoLostEdit` and `JudgedAsSeen` are action properties of it. Drafts:
`OcrInv` needs that the numbers of the lines are those of one reading
(`LinesFit`), since the unique index on the number is what keeps the second worker
out; that the cards of a draft are as many as its chosen lines is a lemma on ranks in
a finite set (`Ranks`). Recording: `OneHolder` says that only the variables
of the form name what holds the microphone.

Only model-checked:

- `JobsSettle`, `OrphansDisappear`, `SessionEnds`: liveness;
- `NoRequestIsStuck`: it speaks of what is `ENABLED`. That no lock stands in the way is
  the theorem `NobodyWaitsInACircle`;
- `WithdrawnIsTrue`, which does not hold (section 3).

Every other property of a run is a theorem. So are two that no run states apart, as the
refinements say them too: `CodePairsOnce` (a code pairs one device) and
`BatchBuiltOnce`.

## 5. Not modelled

- Reports, the seed import and the content audit: they only read, or run once by an
  operator's hand. Accounts: the library better-auth. The speech and recognition
  services: external; a call succeeds or fails, a reading is any of a few. Pages
  other than those named above, configuration and health checks: no state of the
  system. Families, children and cards are created by single inserts.
- The times of answers and the numbers of ts-fsrs. `session-service.ts:511` takes an
  answer's time later than the session's last change, its last answer and every
  memory state it changes, all read under the locks it writes under; the model
  leaves the time out, and with it the refusal REVIEW_TIME_INVALID, except that a
  card is due or not (`TaskPlanner`).
- The pass of the automatic review over all children. It is a loop without a
  catch (`review/auto-review-task.ts:63`): if one child's build fails with anything
  but TASK_EMPTY, the children after it get no task in this pass. Each of its
  builds is in `TaskPlanner`.
- The rate limit of pairing codes, which only refuses.
- What a request does after its admission. The admission commits before the handler
  begins (`devices/service.ts:584-650`), and the handler works in transactions of its
  own, for the child the admission named, without looking at the session of the
  device again (`app/api/child/dictation/[sessionId]/commands/route.ts:49`, then
  65-81). So a request that was admitted just
  before a child is taken from its device, or the device revoked, still does its one
  command; the next request is refused. `ActorIsEntitled` and `FamilyKept` speak of the
  admission alone.

What the models show the code does not repair, and the properties therefore
except: the file of a medium when the process dies between its soft delete and the
removal (`media/store.ts:378`); temporary files of a put that crashed, whose write
broke off, which is outside the `try` (`media/store.ts:172-175`), or whose clean-up
failed; evidence files left by a crash between saving and submitting, by a write that
broke off (`todos/attachments.ts:8`, `todos/http.ts:53`) or by a removal that failed,
which is ignored (`todos/attachments.ts:9`), and the evidence of a
submission whose commit succeeded without an answer, which is removed
(`todos/http.ts:53-61`); after a lost answer, a board that keeps its old number
and is told TODO_STALE until it is refreshed; a second approval, which is
ignored with the bonus it names; a confirmation that is edited after one that was
recorded, which is refused for good. A picture is read as one provider orders it:
two readings whose lines are numbered differently would not meet in the unique
index, and both be kept; the shipped provider numbers from 0.

## 6. Plan

All parts that have a state of their own and a hazard are modelled, every safety
property but `NoRequestIsStuck` is proved, and the parts whose transactions or
workers interleave most - the session, the queue, the devices, the building of
tasks - implement abstract specifications of what they promise. What is left:

1. Time in `DictationSession`: the order of the times of answers, and the refusal
   REVIEW_TIME_INVALID.
2. The pass of the automatic review over several children, one of which fails.
