# Formal model of the exam platform

TLA+ modules, TLC configurations and TLAPS proofs for the part of the platform
in which a mistake costs a candidate an exam: taking an attempt, saving
answers, losing and regaining the connection, running out of time, being
graded, and taking the exam again; and around it the admission queue, the staff
commands with their receipts, the incidents, the e-mail outbox, and the accounts
with their roles.  The repository's own `formal/tla` holds two
narrower models (the recovery hook of the browser and the idempotency of an
operator grant); nothing here depends on them.

## 1. The system

A pnpm monorepo: `packages/exam-engine` (the domain commands), `packages/db`
(Drizzle schema, repositories, transactions on PostgreSQL), `packages/contracts`
and `packages/domain` (schemas and types), `apps/api` (Fastify routes,
orchestrators, background plugins) and `apps/web` (the React client).

| Component | State | Operations | Interacts through |
| --- | --- | --- | --- |
| Exam lifecycle (`examCommands`, `routes/exam.ts`) | `exams.status`, window, publication | publish, open/close by the clock, extend, close, cancel, archive, publish results | every command reads the exam row, some without a lock |
| Enrollment (`enrollmentStateMachine`, `grading.ts`) | status, attempt count, final result | start, finalize | first lock of every attempt command |
| Attempt (`attemptCommands`, `deadlineReconciliation`) | status, deadline, submission | start/restore, submit, reconcile the deadline | second lock; frozen answers go to grading |
| Interruption (`restoreInterruption`, `interruptionPolicy`, `operatorGrant`) | episodes, outcome events, time adjustments | detect, restore, compensate, grant | pointer in the attempt row |
| Answer protocol (`answerProtocol`, `TakeExamPage`, `useSubmitFlush`) | versioned answers, save receipts; the browser's drafts and save queue | edit, save, retry, reload, flush | HTTP requests that may be lost, late or repeated |
| Grading (`grading`, `gradingWorkset`, `manualGrading`) | grading entries, score | grade a question, finalize | writes attempt and enrollment |
| Heartbeat scanner (`plugins/heartbeat.ts`) | in-memory list of one scan | mark disrupted | lists rows without locks, then visits them one by one |
| Deadline scanner (`plugins/deadlineScanner.ts`) | in-memory list of one scan | auto-submit | same |
| Force-submit, misconduct, grant execution (`orchestrators/*Execution.ts`) | command receipts, time adjustments | staff commands with retry, race recovery and replay | attempt commands, row locks, unique indexes |
| Admission queue (`admissionCommands`, `examAdmissionRepo`) | `exam_admissions` | join, admit by batch, consume | start; the waiting page polls |
| Incidents (`incidentCommands`, `systemIncidentCommands`, `systemIncidentDelivery`) | incidents, events, three link tables | create, investigate, resolve, dismiss, severity, note, link; report an interruption | heartbeat cycle, operation ids |
| Email outbox (`emailOutboxRepo`, `outboxService`, worker) | `email_outbox`, leases | enqueue, claim, hand over, record, recover | mail provider |
| Accounts and roles (`routes/user.ts`, `roleAssignments.ts`, `candidate.ts`, `authz/*`) | `users`, `user_role_assignments`, one advisory lock per organization | create, assign, promote, (de)activate, remove, disable, delete | authority of every request |
| Exam staff assignments, notifications, audit, permission tables, question bank, import/export, telemetry | own tables | | not on the attempt path |

What is hard here: a request captures its time before it waits for locks; the
start route and the grading route read the exam row outside the lock they rely
on; the scanners work from lists that are stale when they get to a row; four
different commands can end an attempt; an enrollment's result is written in the
order graders finish, not in the order attempts were taken; the browser retries
saves whose fate it does not know and reloads while saves are in flight; a staff
command delivered twice races itself for its operation id under snapshot
isolation; nobody moves the admission queue but the polls of those who wait; a
mail worker may outlive its lease; two commands may each take one of two
administrators away; and an interruption must be reported although
the process that found it dies.

What makes each modelled component correct:

- attempts: one at a time, no more than the policy allows, each with a deadline
  that is its duration plus the adjustments on record, each ending exactly once
  and never before its deadline unless somebody ended it, each ending at last;
- interruptions: an episode is open exactly while the attempt is disrupted, and
  every other episode has one outcome;
- answers: the server's history of an answer is complete and exact, every
  acknowledgement is true, and what is graded is the newest acknowledged answer;
- grading: the result of the enrollment is that of a graded attempt, the right
  one under the score strategy, whatever the order of grading; a grade can
  always be completed; completion is for good;
- admission: nobody is admitted ahead of the schedule, an attempt consumes one
  admission, whoever waits is served;
- staff commands: each delivery behaves as one atomic execution or as the answer
  its operation id already has, and is answered;
- incidents: the events of an incident tell its state, links and events agree,
  replies are true, every interruption gets its incident or, if somebody else's
  command holds its operation id, is reported as a conflict time and again;
- accounts: somebody can administrate, nobody is Admin and Maintainer at once, and
  the cached role is the primary one, whatever commands overlap;
- outbox: at least once, in a bounded number of tries, settled at last, and no
  stale worker changes the outcome.

`PROJECT.json` lists every component and every hazard at its line.

## 2. Modules

| Module | Content |
| --- | --- |
| `AttemptContract` | abstract specification of an enrollment: attempts one at a time and within the retake policy, a paper handed in once and as it stands, a mark given once and together with the result |
| `ExamRuntime` | one enrollment, its attempts, the exam row, candidate tabs, staff, graders, both scanners, crashes; `Contract == INSTANCE AttemptContract WITH` the rows as stages, work, papers and marks |
| `ExamRuntime_proofs` | inductive invariant of `ExamRuntime` and its theorems |
| `MCExamRuntime` | symmetry of tabs and graders |
| `AnswerContract` | abstract specification of saving: an append-only log of answers, closed once, with true acknowledgements |
| `AnswerProtocol` | one question: pages, network, versioned answer and receipts; `Contract == INSTANCE AnswerContract WITH` the receipts as the log |
| `AnswerProtocol_proofs` | inductive invariant of `AnswerProtocol` and its theorems |
| `MCAnswerProtocol` | symmetry of tabs and answers |
| `Admission`, `_proofs`, `MC` | memberships of one queued exam, requests of tabs statement by statement |
| `CommandContract` | abstract specification of force-submit, misconduct mark and time grant: atomic, idempotent per operation id |
| `CommandReceipts`, `_proofs`, `MC` | their execution; `Contract == INSTANCE CommandContract WITH calls <- ClientCalls`, what the handlers (`job`) still owe their clients |
| `Incidents`, `_proofs`, `MC` | staff commands on incidents, the heartbeat cycle's reports, and the recovery of both |
| `EmailOutbox`, `_proofs`, `MC` | the table, the workers and the provider |
| `Authority`, `_proofs`, `MC` | accounts, role assignments, and the commands that change them under the organization's lock |

The modules meet where the code does, each keeping of its neighbour what it
touches: `CommandReceipts` has the status, flag and deadline of the attempt that
`ExamRuntime` models in full (its `Advance` and `Touch` are everyone else who
writes that row); `Incidents` starts where `MarkDisrupted` of `ExamRuntime`
commits an episode (`Detect`); `Admission` keeps of an attempt that it is active.
They are not composed in one state space: what one part needs of another is one
guard or one column, and the product would be out of TLC's reach.

### ExamRuntime and the code

`exam`, `enr` and `att` are the columns of `exams`, `exam_enrollments` and
`exam_attempts` that decide something; the interruption ledger and the time
adjustments of an attempt are folded into its row (`episodes`, `outcomes`,
`grace`, `granted`).  A command of the engine takes the enrollment and the
attempt locks, then the exam (`FOR SHARE` to reconcile a deadline, `FOR UPDATE`
to restore, grant and auto-submit), in one REPEATABLE READ transaction with up
to three retries (`packages/db/src/types.ts`), so it is one action.  What these
locks do not protect is a step of its own:

| Not protected | In the model |
| --- | --- |
| a request takes `fastify.now()` before it waits for its locks | `RequestTimes`, up to `MaxDelay` old |
| start reads the exam without a lock, at READ COMMITTED (`attemptCommands.ts:239`) | `StartBegin`, then `StartCommit` |
| the grading route reads the exam before its transaction (`gradingQueue.ts:341`) | `GradeBegin`, then `GradeQuestion` or `GradeRejected` |
| scans list attempts without locks, then visit them | `HeartbeatScan`/`MarkDisrupted`, `DeadlineScan`/`AutoSubmit` |
| the process can stop between two visits | `Crash` drops both lists and every request under way |

Every candidate operation reconciles an expired deadline first
(`ReconcileExpired`), as the code does.  `SubmitAndGrade` is the whole of
`submitAndGradeAttempt`: freeze, settle the open episode, grade what can be
graded automatically, finalize when nothing is left for a person.  Scores are
arbitrary members of `Scores`.  There is one API process.  Publication,
unpublication and edits of an exam are refused once attempts exist, so `Init`
is a published exam without attempts and the policy is a set of constants;
`timed_sync` cannot be published and is absent.

### AnswerProtocol and the code

`row` and `receipts` are the server's side of one question; versions, receipts,
client sequence numbers and save chains are all kept per question, so one is
enough.  A `Page` is the state of `TakeExamPage` and `useSubmitFlush`: draft,
`versionsRef`, `clientSeqsRef`, the generation counter, the debounced save, the
chain of saves behind the one under way, the status of the coordinator and the
indicator.  `Verdict` is `processSaveAnswer` in its order of checks.  A request
is never taken out of `net`: it can be delivered late, again, or after the page
that sent it is gone; a reply can be lost (`NetworkError`).  A snapshot is two
reads with a save possibly between them (`LoadRow`, `LoadSeq`), and what
`applySnapshot` does with it is `Applied`.  The flush before a submission is
`FireTimer` taken early.  `Submit` stands for every way `ExamRuntime` ends an
attempt, `Disrupt` for its heartbeat scanner.  Left out: the refusals
`INVALID_ANSWER`, `DEADLINE_EXCEEDED` and voided attempts, which like
`ATTEMPT_ALREADY_SUBMITTED` change nothing on the server.  The `page` and `gen`
fields of a request are history: the server does not look at them.

### The three contracts

`AttemptContract`, `AnswerContract` and `CommandContract` say what a part
promises to those who use it, in one state machine without locks, clocks,
retries or a network; the detailed module defines the mapping next to the
property that states the refinement.

`AttemptContract` has six variables.  `StageOf` maps the status of a row
(in progress and disrupted are both "open": the candidate did not ask for the
difference); `work` and `paper` are the saved and the frozen answers, `mark` the
score, `final` and `over` the result and the completion of the enrollment.  A
submission is `HandIn`, or `Mark` at once when nothing is left for a person;
everything that only moves time, episodes, deadlines, reads or the exam is a
stutter.  The contract leaves open when an enrollment completes, because that
depends on the clock; `PassStopsRetakes` and `GradingNeverBlocked` are about it.

`AnswerContract` has the log of accepted answers (the receipts in the order of
their versions), whether the attempt is open, what grading got, and the
acknowledgements under way (place in the log and answer).  An accepted save is
`Accept`, a replay is `Repeat`, a reply that is received, lost or belongs to a
page that is gone is `Forget`, the submission is `Close`; the whole life of the
pages is a stutter.

### Admission and the code

`rows` is `exam_admissions`; the order of inserts (`joinOrder`) is history that
only properties read.  The queue route runs each statement on its own, so each
is a step: the unlocked look for an active attempt, the insert with its reread
and three tries, then `reconcileAdmission` (find, anchor, ordinal, CAS).  The
start route runs the same reconciliation in its transaction, under the
enrollment lock; its writes appear with `StartCommit`, and until then the CAS of
another request on the row waits (`RowHeld`).  A request uses the time it arrived
at, up to `MaxDelay` old.  A start by someone in progress returns before the gate.

### CommandReceipts, CommandContract and the code

A handler (`job`) goes through pre-read, BEGIN, row lock, insert, COMMIT or
recovery.  Snapshot isolation is explicit: `Begin` fixes what the grant will see
of its operation id (`seen`), a commit of anybody else on the attempt marks the
waiting snapshots `stale`, and a stale lock is 40001, retried up to
`MAX_RETRIES`.  The unique index is `ledger` with `pending`: an insert waits for
an uncommitted row of the same id and gets 23505 from a committed one, seen or
not.  Receipts recover by a fresh read, a grant by one full rerun.  The writes
of a transaction become visible in `Commit`.  `Abort` is a crash, a lost
connection or a refusal by validation.  Left out: grants that name an incident,
the lock of the exam row (taken after the attempt's and by readers only), and the
status `voided`.

In `CommandContract` a delivery executes at one instant, or is answered from the
row of its id, or fails without effect; a grant may instead find the attempt over
and end it if overdue.  A grant answered so does not consult rows committed after
its snapshot: the contract allows "terminal" whether or not the id is in use,
because the code does.

### Incidents and the code

A command is one REPEATABLE READ transaction; its plain reads are `Begin`,
because they see one snapshot.  A version bump then waits for the incident's row
lock; an append-only command goes on to its inserts.  Events are keyed by
operation id (the arbiter).  The operation id of a system incident is derived from
its episode, and a client, who chooses his own, may send the same one: the keys
of staff commands include the derived ids, once the episode exists.  An incident
has an attempt and a candidate or not (`Anchor`, `Created`), and what is linked
to it must agree with both (`InScope`).  `Throw` is `withIncidentOperationRecovery`: which errors are
looked up in the arbiter before they are reported.  `Payload` keeps what the
severity change adds to its event, since that is compared on replay.  A
heartbeat cycle lists the episodes whose own operation is not committed
(`Reconcile`; another command under the same id is not completion, `Delivered`)
and delivers them one by one.  Left out: validation and 404
answers (`Fail`), foreign-key share locks, audits, the action link committed
together with a grant, and the recovery queue, which only reads.

### EmailOutbox and the code

Every repository statement is one step.  The clock is two flags of a row: its
lock has expired, its retry is due.  A lease expires freely when nobody works
under it and, counted as a fault, while a batch is still under way.  `Send` is
the provider's answer; `SendUnclear` its acceptance with a broken connection;
`MarkSentThrows` enters the handler of a failed send, as the try block does; a
database error in the poll's own statements has the effect of `Crash`.  What
enqueues a message (notifications) is `Enqueue`.  The sender is one with a
provider behind it: with `EMAIL_ENABLED=false` the `DisabledEmailSender`
(`senders.ts:53`) reports success and nothing is sent, so that
`DeliveredAtLeastOnce` says nothing of such a deployment.

### Authority and the code

`user` and `asg` are `users` and `user_role_assignments`; `Rows`, `Demote`,
`Enable` and the operators after them are the statements of the repository on the
rows of one account.  A command is sent by an administrator, who is one when
`deriveAssignmentAuthority` says so, reads what it reads (`Send`: whether the
role changes is decided here), waits for the advisory lock, changes its account
(one action per route), checks the post-conditions and commits.  The transaction
is READ COMMITTED, so what it checks is what is committed by then with its own
writes (`UserView`, `AsgView`), and the routes of candidates, which do not take
the lock, may come between any two of its steps; only a row of `users` that it
has written makes them wait (`RowFree`).  `rank` is the order of `created_at`.
The unique index on the primary flag is `IndexHolds`.  `Profiled` are the
accounts with a candidate profile, whatever other roles they hold.  Left out:
names and e-mail addresses, passwords and sessions, the invitation that an
acceptance consumes, and checks that change nothing.

## 3. Runs

| Run | Question | Properties |
| --- | --- | --- |
| `Grace` | do two episodes of automatic grace keep the books, with late requests, a restart and an extension, and does every attempt end? | `InterruptionEpisodes`, `DeadlineAccounting`, `NeverAutoSubmittedEarly`, `AttemptsEnd` |
| `Grants` | does an attempt end once, with a reachable submission, when grants, saves, force-submit, cancel, extension and both scanners race at the edges of the window? | `TypeOK`, `TerminalIsFinal`, `SubmissionPossible` |
| `Retakes` | what becomes of the enrollment when two tabs start three attempts, save and submit, with two manual questions each, graded in any order, and does it keep the contract? | `OneActiveAttempt`, `SubmittedAwaitsManual`, `FinalResultIsGraded`, `HighestIsMax`, `GradingNeverBlocked`, `PassStopsRetakes`, `ImplementsAttemptContract` |
| `SaveProtocol` | do two tabs with late, lost and repeated requests and a submission keep an exact history, and implement the log of the contract? | `ReceiptLedger`, `AcksAreTrue`, `ClientNotAhead`, `SnapshotSeqCoversAnswers`, `ImplementsAnswerContract` |
| `SaveOneTab` | does one tab keep up and settle its edits through an error, a reload, retries and a disruption? | `QueueKeepsUp`, `EditsSettle` |
| `Admission` | do concurrent polls and starts, with a call cut off, keep to the batch schedule and to one admission per attempt? | `AttemptsAdmitted`, `AdmittedOnSchedule`, `BatchCapHeld` |
| `AdmissionServed` | is whoever keeps polling let in, while others start and retake? | `WaitingIsServed` |
| `CommandReceipts` | are racing, retried, aborted and recovered deliveries of commands that share operation ids atomic, counted once and answered? | `ReceiptsTellTheTruth`, `SecondsAccounted`, `ImplementsContract`, `EveryDeliveryAnswered` |
| `EmailOutbox` | do two workers deliver at least once, within the retries, for good, through crashes, errors and expired leases? | `RetriesAsConfigured`, `DeliveredAtLeastOnce`, `OutcomeIsFinal`, `EmailsSettle` |
| `Incidents` | do racing staff commands and the heartbeat cycle leave a true history, sound links and true replies, and is no episode forgotten, also when a command of the staff has taken its operation id? | `HistoryTellsState`, `LinksHaveEvents`, `RepliesAreTrue`, `EpisodesReported` |
| `Authority` | do overlapping commands on accounts and roles keep an administrator, the exclusion and the cached role, with the candidate routes beside the lock? | `AdminsRemain`, `RolesExclusive`, `CacheFollowsPrimary` |
| `LostEdit` | the finding of section 6 | `FailedSaveRetried` |

`BatchCapHeld` has a premise, that memberships are committed in the order of
their times; section 6 says what happens otherwise.  `AdmittedOnSchedule` has
none.

`TypeOK` of the other modules and `WinnerIsFound` (which `ImplementsContract`
implies: the contract has no such answer) are proved in section 5.  So are
`FrozenAnswers` and `FreezeIsNewest`, which the two other contracts imply (a
paper is the work when it was handed in; grading gets the end of the log).

Every property of a passing run has a mutant: a plausible fault in one
definition (a dropped recheck, a missing status guard, a cap per incident only,
a lock not taken) under which TLC reports the property violated.  They stand
before the definitions they replace, marked "Fault" or "MUTANT".

### Bounds and why they are enough

Time has a handful of instants: enough for a start, a timeout, a detection, a
restore, an extension and a deadline to come in every order.  `MaxDelay = 1`
lets a request be older than one committed change.  Two episodes are what the
aggregate cap needs (3 under a cap of 2 per incident).  Three attempts are
what out-of-order grading needs: one completes, one replaces, one is left.  Two
tabs and two graders give every race of a pair, and no guard of the code counts
further.  Two edits with two tabs give a save in flight, one queued and one from
a competing page; one lost request is enough to make a replay.  `Retakes` runs
without time and `Grace` without graders: the dimensions that do not meet in the
code are explored apart.  In `Admission`, batches of one make every place a boundary; two
candidates, one with two tabs, give a race within a candidate and one between
candidates, and a third id lets a candidate join again; retakes
(`AttemptBound = 2`) happen in `AdmissionServed`.  In `CommandReceipts`, two
deliveries at a time of four commands share one operation id over two tables,
two kinds and two attempts, with two grants that together exceed the close, and
one retry is enough for it to be used up.  In `Incidents`, ten commands over
three operation ids and the one derived from the episode clash in the locks and
in the index of the events and of the action links; one of them is refused for
its candidate, one for its attempt, and one fault happens.  In
`EmailOutbox`, two workers, two messages, two attempts and two faults let a
lease be lost and its loser come back after the winner has recorded.  In
`Authority`, three commands make a second administrator and let the two race, or
give one account three roles; two accounts, one with a profile, are what a race
for the last administrator needs.  The
theorems of section 5 hold for every value of all of these.

### Fairness

`ExamRuntime`: weak fairness of the clock, of `DeadlineScan` and of `AutoSubmit`
only: the scanner is a `setInterval` that keeps firing whether or not a scan
failed.  Nothing is assumed of candidates, staff, graders or the heartbeat
scanner; crashes and extensions are bounded by constants.

`AnswerProtocol`: weak fairness of the browser's timers, of the retry that the
30-second heartbeat triggers, of receiving a reply, of the two reads and the
application of a snapshot, of the heartbeat that finds the attempt ended, and
of the server answering the save a page is waiting for.  Nothing is assumed of
the candidate, of restores, of `Submit` or `Disrupt`.  `MaxRetries = 4` exceeds
the failures the faults of the run can cause, so the bound never stands in for a
retry that the code would make.

`Admission`: weak fairness of the clock and of a handler's next statement, and
strong fairness of `Poll`: the waiting page sends its request two seconds after
the last answer, until one fails (`StartExamPage.tsx:86-96`; the catch at 105-131
ends the loop, and the candidate has to press start again).  So
`WaitingIsServed` speaks of who keeps polling, and its run has no failures
(`MaxFailures = 0`).  Nothing is assumed of starts or of other candidates.

`CommandReceipts`: strong fairness of each handler's steps, because PostgreSQL
queues those who wait for a row or for an uncommitted index entry, and serves
them in order.  Nothing is assumed of clients.

`Incidents`: weak fairness of handlers, strong fairness of `Reconcile`, which is
a `setInterval` that requests do not stop; failures are bounded.

`EmailOutbox`: weak fairness of each worker's loop, which is supervised and
restarted, and of time.  Faults are bounded; rejections by the provider are not
faults, and nothing says that it ever accepts.

`Authority` has no liveness property: its commands wait for one lock, which
every end of a transaction releases (`Release`).

### Deadlock

A behaviour of `ExamRuntime` and of the four modules around it always has a next
step, and the runs check it.  The `AnswerProtocol` runs
say `CHECK_DEADLOCK FALSE`: once the attempt is submitted and its pages know,
nothing more happens, as it should.  So do those of `Authority`: commands are
bounded, and an organization without an administrator stays as it is.

## 4. Reading the actions

Each action carries the name of the function it models; the map in
`PROJECT.json` gives the lines.  Guards are the code's conditions and early
returns; a request that is refused without a state change is not a step.  A
candidate request on an expired attempt is not refused without effect: it
submits the attempt, and that is the first disjunct of those actions.

## 5. Proofs

All of it is for every number of attempts, tabs, graders and answers, every
policy, every schedule and every bound, from the assumptions stated with the
constants (`None` is not a number, a Boolean, an answer, a record or a reason of
submission; numbers are natural; the timing matrix the code validates at
publication).

`ExamRuntime_proofs`.  `RowInv` says of one attempt row, given the closing time,
what `TypeOK`, `InterruptionEpisodes`, `DeadlineAccounting` and `FrozenAnswers`
say of all.  One lemma per row operator (`NewAttemptRow`, `SavedRow`,
`DisruptedRow`, `RestoredRow`, `SubmittedRow`, `GrantedRow`, `CompensatedRow`,
`EntryRow`, `GradedRow`) shows that it keeps `RowInv`, and `LaterClosing` that
an extension does.  `NextForms` then shows that every action has one of four
forms: it leaves the rows alone (`IdleStep`), rewrites one row that is in use
(`RowStep`), grades one (`GradeStep`) or adds one (`CreateStep`).  The invariant
`IInv` is kept form by form.  It is stronger than the properties where they are
not inductive: the rows in use are exactly those up to the attempt counter, a
started attempt has its timestamps, the closing time is null exactly when it was
at publication, the final attempt is one of the rows, graded rows have a score,
and an idle scanner has an empty list.  Two more parts carry what was read
outside the locks.  `ReadsInv`: times captured by requests and scans lie in the
past, an exam row read by a start is behind the one in force (a closing time only
moves later), and nobody has moved it where nobody can extend.  With it
`SubmissionPossible` survives a start that checked a stale row, and the recheck of
`AutoSubmit` is right at the present time and not only at the time of its list.
`ResultInv`: under `pass_then_stop` a graded pass has completed the enrollment
(`PassCompletes`), and where the policy is steady the reason for a completion
still holds (`CompletedForGood`).  `PassStopsRetakes` follows from the first,
`GradingNeverBlocked` from the second.

The refinement goes along the same forms: an `IdleStep` changes nothing the
mapping shows, a `RowStep` is `Write`, `HandIn` or a stutter (`RowMapped`), a
`GradeStep` is `Mark` (`GradeMapped`, where `FinalResultIsGraded` makes the
score on the enrollment the mark of the final attempt, and so the comparison of
`shouldSelectAttempt` that of `ResultAfter`), a `CreateStep` is `Begin`
(`CreateMapped`, where `PassCompletes` gives the retake policy and `RowsCounted`
with `OneActiveAttempt` that all earlier attempts are handed in).

| Theorem | States |
| --- | --- |
| `Invariance` | `IInv` always |
| `TypeCorrect`, `EpisodesCorrect`, `DeadlinesCorrect`, `AnswersCorrect`, `OneActive`, `LimitCorrect` | the invariants of those names |
| `ResultsCorrect`, `HighestCorrect` | `FinalResultIsGraded`; `HighestIsMax` |
| `AwaitingCorrect`, `SubmissionAlwaysPossible` | `SubmittedAwaitsManual`; `SubmissionPossible` |
| `GradingUnblocked` | `SteadyPolicy => GradingNeverBlocked`: nobody extends the exam, and `pass_then_stop` keeps the highest score; section 6 says why both are needed |
| `SubmissionsFinal`, `CompletionFinal`, `PassStops`, `NotSubmittedEarly` | the action properties `TerminalIsFinal`, `CompletedEnrollmentIsFinal`, `PassStopsRetakes`, `NeverAutoSubmittedEarly` |
| `KeepsTheContract` | the refinement `Spec => Contract!CSpec` of `AttemptContract` |

`AnswerProtocol_proofs`.  Type lemmas for the operators on a page lead to
`TypeCorrect`.  `WritesOrKeeps` reduces the server to two cases: a step appends
one receipt with the next version to an attempt in progress, or leaves row and
receipts alone; `LedgerStep`, `FreezeStep`, `AcksStep` and `HistoryStep` follow
from it.  `ClientNotAhead` is not inductive, because a page takes versions from
replies, requests and snapshots: `AllBehind` bounds all of these, including the
request a page keeps while it waits.  `CoverStep` needs the order of the two
reads of a snapshot: the sequence is read after the answer, so every receipt
up to the answer's version is already there.

`QueueKeepsUp` needs to know where the one tab is (`QuietInv`, for as long as no
fault has happened).  `Blank`: until its first snapshot nothing has been sent or
saved by anybody.  `Chain`: of the saves that are pending, queued and under way
only the youngest carries the present generation, and it carries the draft.
`Sync`: the page's version and sequence are those of the server, except for the
one request under way, whose answer can only be an acceptance of the next
version, its replay, or a refusal because the attempt is over; and a page that
says saved shows the server's answer.  `Loads`: any later snapshot is of a
submitted attempt.

For the contract, `ReceiptLedger` says that there is one receipt for each
version up to the row's, so that the receipts are a sequence (`LogFits`); a step
keeps it or appends to it (`LogKept`, `LogGrows`, from `WritesOrKeeps`), and
`AcksAreTrue` puts every acknowledgement in it.

| Theorem | States |
| --- | --- |
| `Invariance` | `IInv` always |
| `TypeCorrect`, `LedgerCorrect`, `FreezeCorrect`, `AcksCorrect`, `VersionsCorrect`, `SnapshotsCorrect` | `TypeOK`, `ReceiptLedger`, `FreezeIsNewest`, `AcksAreTrue`, `ClientNotAhead`, `SnapshotSeqCoversAnswers` |
| `HistoryCorrect` | the action property `SaveHistoryKept` |
| `NeverFuture` | no request of the take page is refused as `FUTURE_VERSION` |
| `QueueCorrect` | `OneTab => QueueKeepsUp`; with two tabs the other one's save is a newer answer that the page has not seen |
| `KeepsTheContract` | the refinement `Spec => Contract!CSpec` of `AnswerContract` |

`Admission_proofs`.  `IInv` adds to the types what every request knows
(`TabInv`: the lock it holds, and that a row it has read is still its
candidate's), that a candidate has at most one active membership and the
consumed ones number the attempts (`LedgerInv`), and that a request which has
decided to admit was right about the schedule (`TabOnSchedule`).  `RowsEvolve`,
true of every step, says that rows are only added or filled in; with it a
decision taken on old reads stays right, because later joins do not change who
was there before (`AheadEvolve`) and an anchor is never removed (`DueEvolve`).
The cap of a batch is an argument about one member: of those admitted, all the
others are ahead of the one that joined last (`LastOfFinite`, `OrderInv`), so its
ordinal counts them, and it was admitted no earlier than the batch of that
ordinal.

| Theorem | States |
| --- | --- |
| `TypeCorrect`, `EveryAttemptAdmitted`, `NobodyAheadOfSchedule` | `TypeOK`, `AttemptsAdmitted`, `AdmittedOnSchedule` |
| `BatchCapCorrect` | `BatchCapHeld`, with its premise |
| `WrittenOnce` | the action property `AdmissionWrittenOnce` |

`CommandReceipts_proofs`.  `IInv`: locks and pending rows belong to the handlers
that are at those steps; a plan made under the lock is still the plan for the
row as it is (`PlanCurrent`), which is what makes `Commit` the contract's
`Execute`; a handler that lost a race has a winner's row (`WinnerKept`), and a
grant that runs again sees it.  `LedgerInv` then relates ledger and attempts:
the adjustments of an attempt tile its deadline (`RowsBelow` and
`SecondsAccounted`).  `NextMapped` maps every step to a step of the contract or
to a stutter.

| Theorem | States |
| --- | --- |
| `Inductive` | `IInv` always |
| `TypeCorrect`, `WinnerAlwaysFound`, `TimeAddedOnce`, `ReceiptsTrue`, `AuditsExact` | `TypeOK`, `WinnerIsFound`, `SecondsAccounted`, `ReceiptsTellTheTruth`, `AuditedOnce` |
| `ImplementsTheContract` | the refinement `Spec => Contract!CSpec` |

`EmailOutbox_proofs`.  The bounds are not inductive, because a worker may still
hand over a message for a claim it made long ago.  `Accounts` counts those
(`Claimants`): hand-overs past and to come never exceed the claims, claims
beyond the limit never exceed the faults, and acceptances past and to come
exceed the faults by at most the one claim that may still end in "sent"
(`Credit`).  `Fence`: whoever passes the ownership check holds the count the row
has, so what it writes takes nothing back.

| Theorem | States |
| --- | --- |
| `Inductive` | `IInv` always |
| `TypeCorrect`, `RetriesBounded`, `AtLeastOnce` | `TypeOK`, `RetriesAsConfigured`, `DeliveredAtLeastOnce` |
| `OutcomeFinal` | the action property `OutcomeIsFinal` |

`Incidents_proofs`.  `IInv`: between its checks and its commit a handler's
reading of the rows is still true (`GoodJob`), two handlers there do not meet in
an operation id, a locked incident or a link index (`Apart`), every event is of
a known command and moves the version as its kind does (`GoodEvent`), and the
two properties themselves.  The three commits are instances of one form
(`CommitOf`), and the history is kept incident by incident (`HistoryOf`).

| Theorem | States |
| --- | --- |
| `TypeCorrect`, `HistoryComplete`, `LinksSound`, `RepliesTrue` | `TypeOK`, `HistoryTellsState`, `LinksHaveEvents`, `RepliesAreTrue` |

`Authority_proofs`.  A lemma per operator says what it does to the rows of one
account (`AssignRowFacts`, `ActivateRowFacts`, ...): its type, that the commands
without the administrator check disable no role, and that a change of a row
without the flag makes no role primary.  `IInv` says of the tables, and of the
tables as every transaction past its change sees them, that they are coherent
(`Coherent`), that somebody administrates or would if the candidate route enabled
them (`Administrates`), and, once checked, that Admin and Maintainer are apart
(`Exclusive`).  These are stated so that the routes outside the lock cannot
disturb them (`OutsideStep`); the commit then only makes a view the table.

| Theorem | States |
| --- | --- |
| `Inductive` | `IInv` always |
| `TypeCorrect`, `AdminsStay`, `RolesApart`, `CacheCorrect` | `TypeOK`, `AdminsRemain`, `RolesExclusive`, `CacheFollowsPrimary` |

Only model-checked: the liveness properties `AttemptsEnd`, `EditsSettle`,
`WaitingIsServed`, `EveryDeliveryAnswered`, `EmailsSettle` and
`EpisodesReported`, because fairness is out of the prover's reach.  Every
invariant, action property and refinement that a passing run checks is proved.

## 6. Where the code and its documents disagree

With a run that shows it:

1. `LostEdit`: the snapshots around a disruption wipe edits whose save failed;
   the automatic retry then has nothing, or the old answer, to save
   (`TakeExamPage.tsx:433`; standard-supported-capabilities.md:196).

Stated in a module and false, without a run of their own.  Added as an INVARIANT
to the configuration named, each gives a counterexample at once:

- `CanceledHasNoActive` (`Grants`): a start that read the exam before a cancel inserts its
  attempt after it (`attemptCommands.ts:239`; ADR-005:291, "The
  unresolved-attempts guard prevents cancel while attempts are active").
- `LatestIsLastAttempt` (`Retakes` with `ScoreStrategy = "latest"`): `latest` is the attempt graded last, not taken last
  (`grading.ts:46`; SPEC.md:351).
- `GradingNeverBlocked` (`Retakes` with `latest` or `first`): the last grade of
  an attempt can ask for `completed -> started` and abort each time
  (`grading.ts:323`).  Under `highest`, as in `Retakes`, it holds.  It also fails
  when an extension comes in between: a grader whose read of the closing time is
  old completes the enrollment, the exam is extended, and the grade of another
  submitted attempt finds no reason to complete it (`gradingQueue.ts:341`).
  Without an extension the closing time a grader has read is the one in force.
- `SavedShowsServerAnswer` (`SaveOneTab`): after a lost reply the retry is refused as stale and
  the page writes the old answer over a newer edit, then reports it saved
  (`TakeExamPage.tsx:818`; the comment at 388-389).
- `NoMembershipWhileActive` (`Admission`): a poll that found no active attempt inserts its
  membership after the candidate's own start has committed
  (`attempts.candidate.ts:574-576`: "re-joining must not insert a fresh
  membership").
- `ConflictIsReal` (`Incidents`): a repeated severity change is answered as a conflict with
  itself, because its event stores more than the payload it is compared with
  (`incidentCommands.ts:1281`; ADR-014:703-705, 836-837).
- `SomeAdmin` (`Authority`): the candidate route disables an account outside the lock and its
  post-condition, and so the last administrator, if that account has a candidate
  profile (`candidate.ts:468`; adminInvariant.ts:23-28).  In the same way it
  enables an account that was given Admin and Maintainer while disabled
  (userRoleAssignmentRepo.ts:646-650 says this cannot happen).
- `ExactlyOnePrimary` (`Authority`): a secondary role for an account without a primary one
  leaves it with an active role and refused everywhere
  (`userRoleAssignmentRepo.ts:213`; its header, 59-60).
- `IndexIsBackstop` (`Authority`): a replaced primary row keeps its flag, so deactivating or
  removing it promotes a second primary, which the index refuses
  (`userRoleAssignmentRepo.ts:370`; pg.ts:1354-1357).

Seen while modelling:

- A join that commits late with an earlier time moves the anchor of the schedule
  and the ordinals of those behind it, so that more candidates can be inside
  than the batches released (`examAdmissionRepo.ts`, `earliestJoinedAt`).
- A start whose CAS loses to the candidate's own poll goes on with the row it
  read, and is refused although admitted (`admissionCommands.ts:341`).
- An episode whose operation id was taken by a command of the staff never gets its
  incident: every cycle ends with the same conflict, counted and reported
  (`systemIncidentDelivery.ts:10-14` and test C5 say so; the comment at 132, "the
  arbiter makes every retry converge", does not hold there).  `EpisodesReported`
  has this case as its second alternative.
- A message can end `dead` although the provider took it (a lost answer on the
  last try), and be claimed more often than `max_attempts` after abandoned
  claims, which are counted but not checked (`emailOutboxRepo.ts:301`).
- An exam whose closing time passes is closed with attempts unfinished
  (`examCommands.ts:511`; ADR-005:433-434).
- `lastActivityAt` is set to the time of the request, so a delayed request moves
  it back (`attemptRepo.ts:387`; data-authority.md:48 calls it monotonic).
- An auto-submission carries the time of the scan, not of the deadline
  (`deadlineScanner.ts:260`; domain-model.md:281-285).
- A second tab that reuses a key with the same answer gets a replayed
  acknowledgement, not a conflict (`answerProtocol.ts:209`; ADR-012:737).
- The indicator says saved when an older save succeeds while a newer edit waits
  for its timer (`TakeExamPage.tsx:796`; standard-supported-capabilities.md:197).

## 7. Not modelled

Most lines of the repository carry no state machine: pages, components and
translations of the web client, route registries and permission tables, schemas,
listings, reports and the recovery queue (queries only), parsing and formatting
of imports and exports, seeds, scripts and deployment.  A model of them would
restate single assignments.

Left out although they write: authoring and publication of exams, whose results
are the constants of `ExamRuntime`; creating and withdrawing enrollments;
candidate profiles, courses and the question bank (single-row edits); assignments
of proctors, graders and teachers, which decide who may act (the recovery around
a proctor assignment has the shape of the one in `Incidents`); authentication
and sessions; notifications, audit, client events, which are appended and never
decide; rate limits, which refuse a request before any handler runs; migrations
and pooling.  Answer content, normalization and automatic scoring are data to
the models: any score, any answer.

`PROJECT.json` gives the reason for each component.

## 8. Plan

1. `GradingWorkset`: entries, aggregation and revision per question, below
   `GradeQuestion` of `ExamRuntime`.
2. Grants that name an incident: the adjustment, the event and the link in one
   transaction, joining `CommandReceipts` and `Incidents`.
3. A contract for the incidents (a log of operations per incident, as
   `HistoryTellsState` has it) and one for the outbox.
4. `Credentials`: the auth epoch, sessions and password reset tokens of one
   account (login against a password change, a deactivation decided by a read
   before the lock in `user.ts:288`, single use of a token); then invitations.
