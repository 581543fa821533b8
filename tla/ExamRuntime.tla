----------------------------- MODULE ExamRuntime -----------------------------
(***************************************************************************)
(* The candidate-attempt runtime of the exam platform: one enrollment of   *)
(* one candidate in one exam, the attempts made under it, the exam row     *)
(* they share, the candidate's requests, the proctor's and the             *)
(* administrator's commands, the manual graders, and the two background    *)
(* scanners (heartbeat and deadline).                                      *)
(*                                                                         *)
(* Every command of the engine runs in one database transaction that locks *)
(* Enrollment, then Attempt, then reads Exam under a lock, at REPEATABLE   *)
(* READ with a retry on serialization failure (packages/db/src/types.ts),  *)
(* so it is one action here.  What is NOT protected by those locks is a    *)
(* step of its own: the time a request captured before it waited for its   *)
(* locks (RequestTimes), the exam row a start reads without a lock         *)
(* (starting), the exam row a grader reads before its transaction          *)
(* (grading), and the candidate lists of the scanners (hb, ds).            *)
(***************************************************************************)
EXTENDS Integers, FiniteSets

CONSTANTS
  None,                 \* the SQL NULL
  Tabs,                 \* concurrent start requests of the candidate
  Graders,              \* people who grade, concurrently
  \* --- the exam's policy, fixed once it is published
  OpenAt, CloseAt, Duration, LatestStartOffset, MinSubmitAfterStart,
  RetakePolicy, MaxAttempts, ScoreStrategy, ResultPublicationMode,
  InterruptionPolicy, PerIncidentCap, PerAttemptCap, PassingScore,
  ManualQuestions,      \* how many questions of the exam a person grades
  \* --- the deployment
  HeartbeatTimeout,
  \* --- the values inputs are taken from
  Scores, GrantSizes, ExtendSizes,
  StaffCommands,        \* the staff commands that occur in an instance
  \* --- bounds of the model
  MaxTime, MaxDelay, MaxCloseAt, AttemptBound, SaveBound, EpisodeBound,
  MaxCrashes

Time    == Nat
OptTime == Nat \cup {None}
AttemptNos == 1 .. AttemptBound

ASSUME NoneAssumption ==
  None \notin Int /\ None \notin BOOLEAN /\ None \notin {"manual", "deadline"}

\* validateTimingModeMatrix: a timed exam closes, only a timed one compensates.
ASSUME TimingAssumption ==
  /\ OpenAt \in Nat
  /\ CloseAt \in OptTime
  /\ Duration \in OptTime /\ Duration # 0
  /\ LatestStartOffset \in OptTime
  /\ MinSubmitAfterStart \in OptTime
  /\ CloseAt # None => OpenAt < CloseAt
  /\ Duration # None => CloseAt # None
  /\ InterruptionPolicy # "strict" => Duration # None

ASSUME PolicyAssumption ==
  /\ RetakePolicy \in {"unlimited", "max_attempts", "pass_then_stop"}
  /\ MaxAttempts \in Nat \ {0}
  /\ ScoreStrategy \in {"highest", "latest", "first"}
  /\ ResultPublicationMode \in {"immediate", "after_grading", "manual"}
  /\ InterruptionPolicy \in {"strict", "bounded_grace", "operator_incident"}
  /\ PerIncidentCap \in Nat \ {0}
  /\ PerAttemptCap \in Nat \ {0}
  /\ PerIncidentCap <= PerAttemptCap
  /\ PassingScore \in Nat
  /\ ManualQuestions \in Nat

AllStaffCommands == {"grant", "force_submit", "extend", "close", "cancel",
                     "archive", "publish_results"}

ASSUME InputAssumption ==
  /\ StaffCommands \subseteq AllStaffCommands
  /\ HeartbeatTimeout \in Nat \ {0}
  /\ Scores \subseteq Nat
  /\ GrantSizes \subseteq Nat \ {0}
  /\ ExtendSizes \subseteq Nat \ {0}

ASSUME BoundAssumption ==
  /\ MaxTime \in Nat /\ MaxDelay \in Nat /\ MaxCloseAt \in Nat
  /\ AttemptBound \in Nat /\ SaveBound \in Nat /\ EpisodeBound \in Nat
  /\ MaxCrashes \in Nat

VARIABLES
  now,       \* the server clock
  exam,      \* the exams row
  enr,       \* the exam_enrollments row
  att,       \* the exam_attempts rows of the enrollment, by attemptNo
  starting,  \* per tab: the start request that has read the exam row, or None
  grading,   \* per grader: the request that has read the exam row, or None
  hb, ds,    \* heartbeat scanner, deadline scanner
  crashes    \* process restarts so far

vars == <<now, exam, enr, att, starting, grading, hb, ds, crashes>>

-----------------------------------------------------------------------------
(***************************************************************************)
(* Rows.                                                                   *)
(***************************************************************************)

Active     == {"in_progress", "disrupted"}
Terminal   == {"submitted", "graded"}
Unresolved == Active \cup {"submitted"}

AttemptRow ==
  [status : {"none"} \cup Active \cup Terminal,
   startedAt : OptTime, deadlineAt : OptTime, lastActivityAt : OptTime,
   interruptedAt : OptTime,          \* mirror of the open episode's detection
   currentInterruptionId : OptTime,  \* the open episode, or None
   episodes : Nat,                   \* interruption episodes created
   outcomes : SUBSET Nat,            \* episodes with an outcome event
   grace : Nat, granted : Nat,       \* time adjustments, by source
   answers : Nat,                    \* accepted saves
   submittedAnswers : OptTime,       \* the answers frozen at submission
   submittedAt : OptTime,
   submissionReason : {None, "manual", "deadline"},
   gradingStatus : {None, "auto_graded", "pending_manual", "fully_graded"},
   pendingEntries : Nat,             \* manual grading entries still pending
   score : OptTime, gradedAt : OptTime]

NoAttempt ==
  [status |-> "none", startedAt |-> None, deadlineAt |-> None,
   lastActivityAt |-> None, interruptedAt |-> None,
   currentInterruptionId |-> None, episodes |-> 0, outcomes |-> {},
   grace |-> 0, granted |-> 0, answers |-> 0, submittedAnswers |-> None,
   submittedAt |-> None, submissionReason |-> None, gradingStatus |-> None,
   pendingEntries |-> 0, score |-> None, gradedAt |-> None]

ExamRow == [status : {"published", "open", "closed", "canceled", "archived"},
            closeAt : OptTime, resultsPublished : BOOLEAN]

EnrollmentRow ==
  [status : {"assigned", "started", "completed", "blocked"},
   attemptCount : Nat, finalAttempt : OptTime, finalScore : OptTime,
   finalPassed : BOOLEAN \cup {None}]

\* What the start route has read of the exam row when it asks for its locks.
StartRead == [at : Time, closeAt : OptTime, resultsPublished : BOOLEAN]
GradeRead == [at : Time, closeAt : OptTime]

\* A scan: the time it captured when it began and the rows it still visits.
Scan == [tick : OptTime, todo : SUBSET Nat]
IdleScan == [tick |-> None, todo |-> {}]

\* Every column, episode, request in flight and scan keeps its type.
TypeOK ==
  /\ now \in Time
  /\ exam \in ExamRow
  /\ enr \in EnrollmentRow
  /\ att \in [AttemptNos -> AttemptRow]
  /\ starting \in [Tabs -> StartRead \cup {None}]
  /\ grading \in [Graders -> GradeRead \cup {None}]
  /\ hb \in Scan
  /\ ds \in Scan
  /\ crashes \in Nat

Init ==
  /\ now = 0
  /\ exam = [status |-> "published", closeAt |-> CloseAt,
             resultsPublished |-> FALSE]
  /\ enr = [status |-> "assigned", attemptCount |-> 0, finalAttempt |-> None,
            finalScore |-> None, finalPassed |-> None]
  /\ att = [n \in AttemptNos |-> NoAttempt]
  /\ starting = [tab \in Tabs |-> None]
  /\ grading = [g \in Graders |-> None]
  /\ hb = IdleScan
  /\ ds = IdleScan
  /\ crashes = 0

-----------------------------------------------------------------------------
(***************************************************************************)
(* Time.                                                                   *)
(***************************************************************************)

Min2(a, b) == IF a <= b THEN a ELSE b
Max0(a)    == IF a >= 0 THEN a ELSE 0

\* A request captures the clock when it arrives and runs its transaction up
\* to MaxDelay later.
RequestTimes == {t \in 0 .. now : now - t <= MaxDelay}

\* A request that names an attempt arrives after the attempt was handed out.
AttemptTimes(n) == {t \in RequestTimes : att[n].startedAt # None
                                         /\ t >= att[n].startedAt}

EffectiveDeadline(closeAt, deadlineAt) ==
  IF closeAt = None THEN None
  ELSE IF deadlineAt = None THEN closeAt
  ELSE Min2(deadlineAt, closeAt)

Expired(closeAt, r, t) ==
  /\ EffectiveDeadline(closeAt, r.deadlineAt) # None
  /\ t >= EffectiveDeadline(closeAt, r.deadlineAt)

Tick ==
  /\ now < MaxTime
  /\ now' = now + 1
  /\ UNCHANGED <<exam, enr, att, starting, grading, hb, ds, crashes>>

-----------------------------------------------------------------------------
(***************************************************************************)
(* What the engine writes to an attempt row.                               *)
(***************************************************************************)

NewAttempt(t) ==
  [NoAttempt EXCEPT !.status = "in_progress",
                    !.startedAt = t,
                    !.deadlineAt = IF Duration = None THEN None ELSE t + Duration,
                    !.lastActivityAt = t]

\* An accepted new answer; disrupted attempts accept answers too.
Saved(r, t) == [r EXCEPT !.answers = @ + 1, !.lastActivityAt = t]

\* markDisrupted: a new episode with its detected event, and the pointer to it.
Disrupted(r, tick) ==
  [r EXCEPT !.status = "disrupted",
            !.episodes = @ + 1,
            !.currentInterruptionId = r.episodes + 1,
            !.interruptedAt = tick]

\* restoreAttemptState and the restored event.
Restored(r, t) ==
  [r EXCEPT !.status = "in_progress",
            !.lastActivityAt = t,
            !.outcomes = @ \cup {r.currentInterruptionId},
            !.currentInterruptionId = None,
            !.interruptedAt = None]

\* Fault: the interruption is settled although there is none.
SubmittedAlwaysSettling(r, at, reason) ==
  [r EXCEPT !.status = "submitted", !.submittedAt = at,
            !.submissionReason = reason, !.submittedAnswers = r.answers,
            !.gradingStatus = IF ManualQuestions > 0 THEN "pending_manual"
                                                     ELSE "auto_graded",
            !.pendingEntries = ManualQuestions,
            !.outcomes = @ \cup {r.currentInterruptionId},
            !.currentInterruptionId = None, !.interruptedAt = None]

\* Fault: submitting a disrupted attempt forgets the open episode.
SubmittedLeavingEpisodeOpen(r, at, reason) ==
  [r EXCEPT !.status = "submitted", !.submittedAt = at,
            !.submissionReason = reason, !.submittedAnswers = r.answers,
            !.gradingStatus = IF ManualQuestions > 0 THEN "pending_manual"
                                                     ELSE "auto_graded",
            !.pendingEntries = ManualQuestions]

\* submitAttempt: the terminalized event of an open episode, the freeze of
\* the answers, the grading entries of the frozen questions.
Submitted(r, at, reason) ==
  [r EXCEPT !.status = "submitted",
            !.submittedAt = at,
            !.submissionReason = reason,
            !.submittedAnswers = r.answers,
            !.gradingStatus = IF ManualQuestions > 0 THEN "pending_manual"
                                                     ELSE "auto_graded",
            !.pendingEntries = ManualQuestions,
            !.outcomes = IF r.status = "disrupted"
                           THEN @ \cup {r.currentInterruptionId} ELSE @,
            !.currentInterruptionId = None,
            !.interruptedAt = None]

\* The attempt half of finalizeTerminalGrading.
Graded(r, score, t) ==
  [r EXCEPT !.status = "graded",
            !.score = score,
            !.gradedAt = t,
            !.pendingEntries = 0,
            !.gradingStatus = IF @ = "pending_manual" THEN "fully_graded" ELSE @]

\* Fault: the cap over all the episodes of the attempt is not applied.
CompensationPerIncidentOnly(closeAt, r, t) ==
  IF InterruptionPolicy # "bounded_grace" THEN 0
  ELSE Min2(Min2(Max0(t - r.interruptedAt), PerIncidentCap),
            Max0(closeAt - r.deadlineAt))

\* evaluateInterruptionTimePolicy: time given back for the open episode.
Compensation(closeAt, r, t) ==
  IF InterruptionPolicy # "bounded_grace" THEN 0
  ELSE Min2(Min2(Max0(t - r.interruptedAt), PerIncidentCap),
            Min2(Max0(PerAttemptCap - r.grace), Max0(closeAt - r.deadlineAt)))

Compensated(closeAt, r, t) ==
  LET added == Compensation(closeAt, r, t)
  IN  IF added > 0
        THEN [r EXCEPT !.deadlineAt = @ + added, !.grace = @ + added]
        ELSE r

Granted(r, added) ==
  [r EXCEPT !.deadlineAt = @ + added, !.granted = @ + added]

-----------------------------------------------------------------------------
(***************************************************************************)
(* The enrollment half of finalizeTerminalGrading.                         *)
(***************************************************************************)

EnrollmentTransitions ==
  [assigned  |-> {"started", "blocked"},
   started   |-> {"completed", "blocked"},
   blocked   |-> {"started"},
   completed |-> {}]

CanTransition(from, to) == from = to \/ to \in EnrollmentTransitions[from]

Passed(score) == score >= PassingScore

\* Fault: a tie or a lower score replaces the best one.
SelectWithoutComparing(e, score) ==
  e.finalAttempt = None \/ ScoreStrategy \in {"latest", "highest"}

ShouldSelectAttempt(e, score) ==
  \/ e.finalAttempt = None
  \/ ScoreStrategy = "latest"
  \/ ScoreStrategy = "highest" /\ score > e.finalScore

\* Fault: only the score just computed counts, not the result on record.
CompleteOnCurrentScoreOnly(e, closeAt, score, t) ==
  \/ RetakePolicy = "max_attempts" /\ e.attemptCount >= MaxAttempts
  \/ RetakePolicy = "pass_then_stop" /\ Passed(score)
  \/ closeAt # None /\ t >= closeAt

ShouldEnrollmentComplete(e, closeAt, score, t) ==
  \/ RetakePolicy = "max_attempts" /\ e.attemptCount >= MaxAttempts
  \/ RetakePolicy = "pass_then_stop" /\ (Passed(score) \/ e.finalPassed = TRUE)
  \/ closeAt # None /\ t >= closeAt

TargetStatus(e, closeAt, score, t) ==
  IF ShouldEnrollmentComplete(e, closeAt, score, t) THEN "completed" ELSE "started"

\* assertEnrollmentTransition: when it throws, the whole transaction aborts.
CanFinalize(e, closeAt, score, t) ==
  CanTransition(e.status, TargetStatus(e, closeAt, score, t))

\* Fault: the score is projected whether or not the attempt is selected.
FinalizedWithEveryScore(e, n, closeAt, score, t) ==
  [e EXCEPT !.status = TargetStatus(e, closeAt, score, t),
            !.finalScore = score,
            !.finalPassed = Passed(score),
            !.finalAttempt = IF ShouldSelectAttempt(e, score) THEN n ELSE @]

Finalized(e, n, closeAt, score, t) ==
  LET moved == [e EXCEPT !.status = TargetStatus(e, closeAt, score, t)]
  IN  IF ShouldSelectAttempt(e, score)
        THEN [moved EXCEPT !.finalScore = score,
                           !.finalPassed = Passed(score),
                           !.finalAttempt = n]
        ELSE moved

\* resolveActiveInterruptionOnTerminalization and restore both throw unless
\* the row points at an episode that has no outcome event yet.
EpisodeOpen(r) ==
  /\ r.interruptedAt # None
  /\ r.currentInterruptionId \in (1 .. r.episodes) \ r.outcomes

\* submitAttempt followed, when no person has to grade, by finalizeGrading in
\* the same transaction.  r is the row as the transaction has it.
SubmitAndGrade(n, r, at, reason, t) ==
  /\ r.status = "disrupted" => EpisodeOpen(r)
  /\ \/ /\ ManualQuestions > 0
        /\ att' = [att EXCEPT ![n] = Submitted(r, at, reason)]
        /\ UNCHANGED enr
     \/ /\ ManualQuestions = 0
        /\ \E score \in Scores :
             /\ CanFinalize(enr, exam.closeAt, score, t)
             /\ att' = [att EXCEPT ![n] =
                          Graded(Submitted(r, at, reason), score, t)]
             /\ enr' = Finalized(enr, n, exam.closeAt, score, t)

\* ensureAttemptDeadlineReconciled on an expired attempt: the submission is
\* stamped with the effective deadline, the grading with the request's time.
ReconcileExpired(n, r, t) ==
  /\ r.status \in Active
  /\ Expired(exam.closeAt, r, t)
  /\ SubmitAndGrade(n, r, EffectiveDeadline(exam.closeAt, r.deadlineAt),
                    "deadline", t)

\* Fault: the deadline is enforced but not the status read under the lock.
LiveByDeadlineOnly(n, t) ==
  att[n].status # "none" /\ ~ Expired(exam.closeAt, att[n], t)

Live(n, t) == att[n].status \in Active /\ ~ Expired(exam.closeAt, att[n], t)

-----------------------------------------------------------------------------
(***************************************************************************)
(* The candidate.                                                          *)
(***************************************************************************)

\* GET take: locks the attempt and enforces its deadline.
Take(n) ==
  /\ \E t \in AttemptTimes(n) : ReconcileExpired(n, att[n], t)
  /\ UNCHANGED <<now, exam, starting, grading, hb, ds, crashes>>

\* Save: enforces the deadline, then the answer protocol decides.
SaveAnswer(n) ==
  /\ \E t \in AttemptTimes(n) :
       \/ ReconcileExpired(n, att[n], t)
       \/ /\ Live(n, t)
          /\ att[n].answers < SaveBound
          /\ att' = [att EXCEPT ![n] = Saved(@, t)]
          /\ UNCHANGED enr
  /\ UNCHANGED <<now, exam, starting, grading, hb, ds, crashes>>

\* Submit: enforces the deadline, then submits unless it is too early.
SubmitAttempt(n) ==
  /\ \E t \in AttemptTimes(n) :
       \/ ReconcileExpired(n, att[n], t)
       \/ /\ Live(n, t)
          /\ MinSubmitAfterStart # None =>
               t >= att[n].startedAt + MinSubmitAfterStart
          /\ SubmitAndGrade(n, att[n], t, "manual", t)
  /\ UNCHANGED <<now, exam, starting, grading, hb, ds, crashes>>

\* Heartbeat: one UPDATE ... WHERE status = 'in_progress', no locks before it.
Heartbeat(n) ==
  /\ att[n].status = "in_progress"
  /\ \E t \in AttemptTimes(n) :
       att' = [att EXCEPT ![n].lastActivityAt = t]
  /\ UNCHANGED <<now, exam, enr, starting, grading, hb, ds, crashes>>

\* restoreInterruptedAttempt: compensate, then enforce the deadline, and only
\* then go back to in_progress.
RestoreInterrupted(n, t) ==
  LET r == Compensated(exam.closeAt, att[n], t) IN
  /\ att[n].status = "disrupted"
  /\ EpisodeOpen(att[n])
  /\ \/ ReconcileExpired(n, r, t)
     \/ /\ ~ Expired(exam.closeAt, r, t)
        /\ att' = [att EXCEPT ![n] = Restored(r, t)]
        /\ UNCHANGED enr

RestoreAttempt(n) ==
  /\ \E t \in AttemptTimes(n) : RestoreInterrupted(n, t)
  /\ UNCHANGED <<now, exam, starting, grading, hb, ds, crashes>>

\* reconcileExamForRead, in a transaction of its own.
ReconciledExam(x, t) ==
  LET opened == IF x.status = "published" /\ t >= OpenAt
                  THEN [x EXCEPT !.status = "open"] ELSE x
  IN  IF opened.status = "open" /\ opened.closeAt # None /\ t >= opened.closeAt
        THEN [opened EXCEPT !.status = "closed"] ELSE opened

\* Start, first part: reconcile the exam row, then read it without a lock and
\* check its window against the time captured on arrival.
StartBegin(tab) ==
  /\ starting[tab] = None
  /\ \E t \in RequestTimes :
       LET x == ReconciledExam(exam, t) IN
       /\ x.status \in {"published", "open"}
       /\ t >= OpenAt
       /\ x.closeAt # None => t < x.closeAt
       /\ exam' = x
       /\ starting' = [starting EXCEPT ![tab] =
                         [at |-> t, closeAt |-> x.closeAt,
                          resultsPublished |-> x.resultsPublished]]
  /\ UNCHANGED <<now, enr, att, grading, hb, ds, crashes>>

\* resolveCandidateResultVisibility, own view.
ResultVisible(r, published) ==
  /\ r.status = "graded"
  /\ ResultPublicationMode = "after_grading" => r.gradingStatus = "fully_graded"
  /\ ResultPublicationMode = "manual" => published

\* isCandidateRetakeDeferred
RetakeDeferred(published) ==
  /\ enr.finalAttempt # None
  /\ ~ ResultVisible(att[enr.finalAttempt], published)

\* Fault: the closing time is left out of the minimum-submit check.
CanCreateIgnoringClose(s) ==
  /\ RetakePolicy = "max_attempts" => enr.attemptCount < MaxAttempts
  /\ LatestStartOffset # None => s.at <= OpenAt + LatestStartOffset
  /\ MinSubmitAfterStart # None /\ Duration # None => MinSubmitAfterStart < Duration
  /\ CanTransition(enr.status, "started")
  /\ enr.attemptCount < AttemptBound

\* Fault: the enrollment and its result were checked before the lock only.
CanCreateUnchecked(s) ==
  /\ LatestStartOffset # None => s.at <= OpenAt + LatestStartOffset
  /\ enr.attemptCount < AttemptBound

\* Every guard between the enrollment lock and the INSERT of the attempt.
CanCreateAttempt(s) ==
  /\ RetakePolicy = "max_attempts" => enr.attemptCount < MaxAttempts
  /\ RetakePolicy = "pass_then_stop" =>
       ~ RetakeDeferred(s.resultsPublished) /\ enr.finalPassed # TRUE
  /\ LatestStartOffset # None => s.at <= OpenAt + LatestStartOffset
  /\ LET deadline == EffectiveDeadline(s.closeAt, NewAttempt(s.at).deadlineAt)
     IN  MinSubmitAfterStart # None /\ deadline # None =>
           s.at + MinSubmitAfterStart < deadline
  /\ CanTransition(enr.status, "started")
  /\ enr.attemptCount < AttemptBound

\* Fault: the enrollment's active attempt is looked up before the lock only.
StartCommitWithoutLookup(tab) ==
  LET s == starting[tab] IN
  /\ s # None
  /\ CanCreateAttempt(s)
  /\ starting' = [starting EXCEPT ![tab] = None]
  /\ att' = [att EXCEPT ![enr.attemptCount + 1] = NewAttempt(s.at)]
  /\ enr' = [enr EXCEPT !.status = "started", !.attemptCount = @ + 1]
  /\ UNCHANGED <<now, exam, grading, hb, ds, crashes>>

\* Start, second part: under the enrollment lock.  An attempt in progress is
\* returned, a disrupted one is restored, otherwise a new one is created.
StartCommit(tab) ==
  LET s == starting[tab] IN
  /\ s # None
  /\ starting' = [starting EXCEPT ![tab] = None]
  /\ \/ /\ \E n \in AttemptNos : att[n].status = "in_progress"
        /\ UNCHANGED <<enr, att>>
     \/ \E n \in AttemptNos : RestoreInterrupted(n, s.at)
     \/ /\ \A n \in AttemptNos : att[n].status \notin Active
        /\ CanCreateAttempt(s)
        /\ att' = [att EXCEPT ![enr.attemptCount + 1] = NewAttempt(s.at)]
        /\ enr' = [enr EXCEPT !.status = "started", !.attemptCount = @ + 1]
     \/ /\ \A n \in AttemptNos : att[n].status \notin Active
        /\ ~ CanCreateAttempt(s)
        /\ UNCHANGED <<enr, att>>
  /\ UNCHANGED <<now, exam, grading, hb, ds, crashes>>

-----------------------------------------------------------------------------
(***************************************************************************)
(* The proctor and the graders.                                            *)
(***************************************************************************)

\* grantAttemptTime: only under operator_incident, only inside the window.
GrantTime(n) ==
  /\ "grant" \in StaffCommands
  /\ InterruptionPolicy = "operator_incident"
  /\ \E t \in AttemptTimes(n) :
       \/ ReconcileExpired(n, att[n], t)
       \/ \E added \in GrantSizes :
            /\ Live(n, t)
            /\ att[n].deadlineAt # None
            /\ exam.closeAt # None
            /\ att[n].deadlineAt + added <= exam.closeAt
            /\ att' = [att EXCEPT ![n] = Granted(@, added)]
            /\ UNCHANGED enr
  /\ UNCHANGED <<now, exam, starting, grading, hb, ds, crashes>>

\* Fault: force-submit acts on the status it read before its transaction.
ForceSubmitOnStaleStatus(n) ==
  /\ "force_submit" \in StaffCommands
  /\ att[n].status # "none"
  /\ \E t \in AttemptTimes(n) : SubmitAndGrade(n, att[n], t, "manual", t)
  /\ UNCHANGED <<now, exam, starting, grading, hb, ds, crashes>>

\* Force-submit does not look at the deadline.
ForceSubmit(n) ==
  /\ "force_submit" \in StaffCommands
  /\ att[n].status \in Active
  /\ \E t \in AttemptTimes(n) : SubmitAndGrade(n, att[n], t, "manual", t)
  /\ UNCHANGED <<now, exam, starting, grading, hb, ds, crashes>>

\* A grading request for an attempt the queue shows: it captures its time and
\* reads the exam row before its transaction begins.
GradeBegin(g) ==
  /\ grading[g] = None
  /\ \E n \in AttemptNos : att[n].gradingStatus = "pending_manual"
  /\ \E t \in RequestTimes :
       grading' = [grading EXCEPT ![g] = [at |-> t, closeAt |-> exam.closeAt]]
  /\ UNCHANGED <<now, exam, enr, att, starting, hb, ds, crashes>>

\* Fault: the last entry is completed without closing the attempt.
GradeQuestionOffByOne(g, n) ==
  /\ grading[g] # None
  /\ att[n].status = "submitted"
  /\ att[n].pendingEntries > 0
  /\ att' = [att EXCEPT ![n].pendingEntries = @ - 1]
  /\ grading' = [grading EXCEPT ![g] = None]
  /\ UNCHANGED <<now, exam, enr, starting, hb, ds, crashes>>

\* gradeQuestion: complete one pending manual entry; the last one closes the
\* attempt and projects its score on the enrollment.
GradeQuestion(g, n) ==
  /\ grading[g] # None
  /\ att[n].status = "submitted"
  /\ att[n].gradingStatus = "pending_manual"
  /\ \/ /\ att[n].pendingEntries > 1
        /\ att' = [att EXCEPT ![n].pendingEntries = @ - 1]
        /\ UNCHANGED enr
     \/ /\ att[n].pendingEntries = 1
        /\ \E score \in Scores :
             /\ CanFinalize(enr, grading[g].closeAt, score, grading[g].at)
             /\ att' = [att EXCEPT ![n] = Graded(@, score, grading[g].at)]
             /\ enr' = Finalized(enr, n, grading[g].closeAt, score, grading[g].at)
  /\ grading' = [grading EXCEPT ![g] = None]
  /\ UNCHANGED <<now, exam, starting, hb, ds, crashes>>

\* Any refusal of gradeQuestion: the transaction aborts.
GradeRejected(g) ==
  /\ grading[g] # None
  /\ grading' = [grading EXCEPT ![g] = None]
  /\ UNCHANGED <<now, exam, enr, att, starting, hb, ds, crashes>>

-----------------------------------------------------------------------------
(***************************************************************************)
(* The administrator.  executeAdminExamTransition locks the exam row and   *)
(* reconciles it with the request's time first.                            *)
(***************************************************************************)

HasUnresolved == \E n \in AttemptNos : att[n].status \in Unresolved

AdminExam(t) == ReconciledExam(exam, t)

ExtendExam ==
  /\ "extend" \in StaffCommands
  /\ \E t \in RequestTimes, minutes \in ExtendSizes :
       /\ AdminExam(t).status = "open"
       /\ AdminExam(t).closeAt # None
       /\ AdminExam(t).closeAt + minutes <= MaxCloseAt
       /\ exam' = [AdminExam(t) EXCEPT !.closeAt = @ + minutes]
  /\ UNCHANGED <<now, enr, att, starting, grading, hb, ds, crashes>>

CloseExam ==
  /\ "close" \in StaffCommands
  /\ ~ HasUnresolved
  /\ \E t \in RequestTimes :
       /\ AdminExam(t).status \in {"open", "closed"}
       /\ exam' = [AdminExam(t) EXCEPT !.status = "closed"]
  /\ UNCHANGED <<now, enr, att, starting, grading, hb, ds, crashes>>

CancelExam ==
  /\ "cancel" \in StaffCommands
  /\ ~ HasUnresolved
  /\ \E t \in RequestTimes :
       /\ AdminExam(t).status \in {"published", "open"}
       /\ exam' = [AdminExam(t) EXCEPT !.status = "canceled"]
  /\ UNCHANGED <<now, enr, att, starting, grading, hb, ds, crashes>>

ArchiveExam ==
  /\ "archive" \in StaffCommands
  /\ \E t \in RequestTimes :
       /\ AdminExam(t).status \in {"published", "closed", "canceled"}
       /\ exam' = [AdminExam(t) EXCEPT !.status = "archived"]
  /\ UNCHANGED <<now, enr, att, starting, grading, hb, ds, crashes>>

PublishResults ==
  /\ "publish_results" \in StaffCommands
  /\ exam.status \in {"published", "open", "closed"}
  /\ exam' = [exam EXCEPT !.resultsPublished = TRUE]
  /\ UNCHANGED <<now, enr, att, starting, grading, hb, ds, crashes>>

\* Any page that shows the exam reconciles it with the clock on the way.
ReconcileExam ==
  /\ \E t \in RequestTimes : exam' = ReconciledExam(exam, t)
  /\ UNCHANGED <<now, enr, att, starting, grading, hb, ds, crashes>>

-----------------------------------------------------------------------------
(***************************************************************************)
(* The scanners.  A scan captures the clock, lists rows without locks, and *)
(* then visits them one transaction at a time, deciding again under the    *)
(* lock with the time it captured.                                         *)
(***************************************************************************)

AfterVisit(scan, n) ==
  IF scan.todo = {n} THEN IdleScan ELSE [scan EXCEPT !.todo = @ \ {n}]

Stale(r, tick) ==
  r.status = "in_progress" /\ tick - r.lastActivityAt >= HeartbeatTimeout

HeartbeatScan ==
  /\ hb = IdleScan
  /\ \E t \in RequestTimes :
       LET stale == {n \in AttemptNos : /\ Stale(att[n], t)
                                        /\ att[n].episodes < EpisodeBound}
       IN  /\ stale # {}
           /\ hb' = [tick |-> t, todo |-> stale]
  /\ UNCHANGED <<now, exam, enr, att, starting, grading, ds, crashes>>

MarkDisrupted(n) ==
  /\ n \in hb.todo
  /\ hb' = AfterVisit(hb, n)
  /\ \/ /\ Stale(att[n], hb.tick)
        /\ att' = [att EXCEPT ![n] = Disrupted(@, hb.tick)]
     \/ /\ ~ Stale(att[n], hb.tick)
        /\ UNCHANGED att
  /\ UNCHANGED <<now, exam, enr, starting, grading, ds, crashes>>

\* Fault: a disrupted attempt is not a candidate for the deadline scan.
DueInProgressOnly(r, tick) ==
  /\ r.status = "in_progress"
  /\ \/ exam.closeAt # None /\ exam.closeAt <= tick
     \/ r.deadlineAt # None /\ r.deadlineAt <= tick

\* listDeadlineCandidates
Due(r, tick) ==
  /\ r.status \in Active
  /\ \/ exam.closeAt # None /\ exam.closeAt <= tick
     \/ r.deadlineAt # None /\ r.deadlineAt <= tick

DeadlineScanAt(t) ==
  LET due == {n \in AttemptNos : Due(att[n], t)} IN
  /\ ds = IdleScan
  /\ due # {}
  /\ ds' = [tick |-> t, todo |-> due]
  /\ UNCHANGED <<now, exam, enr, att, starting, grading, hb, crashes>>

DeadlineScan == \E t \in RequestTimes : DeadlineScanAt(t)

\* Fault: the scanner trusts its list and does not decide again under the lock.
AutoSubmitWithoutRecheck(n) ==
  /\ n \in ds.todo
  /\ ds' = AfterVisit(ds, n)
  /\ \/ /\ att[n].status \in Active
        /\ SubmitAndGrade(n, att[n], ds.tick, "deadline", ds.tick)
     \/ /\ att[n].status \notin Active
        /\ UNCHANGED <<enr, att>>
  /\ UNCHANGED <<now, exam, starting, grading, hb, crashes>>

\* autoSubmitAndGrade: the submission is stamped with the scan's time.
AutoSubmit(n) ==
  /\ n \in ds.todo
  /\ ds' = AfterVisit(ds, n)
  /\ \/ /\ att[n].status \in Active
        /\ Expired(exam.closeAt, att[n], ds.tick)
        /\ SubmitAndGrade(n, att[n], ds.tick, "deadline", ds.tick)
     \/ /\ ~ (att[n].status \in Active /\ Expired(exam.closeAt, att[n], ds.tick))
        /\ UNCHANGED <<enr, att>>
  /\ UNCHANGED <<now, exam, starting, grading, hb, crashes>>

\* The API process restarts: open transactions abort, scans are forgotten.
Crash ==
  /\ crashes < MaxCrashes
  /\ crashes' = crashes + 1
  /\ starting' = [tab \in Tabs |-> None]
  /\ grading' = [g \in Graders |-> None]
  /\ hb' = IdleScan
  /\ ds' = IdleScan
  /\ UNCHANGED <<now, exam, enr, att>>

-----------------------------------------------------------------------------
Next ==
  \/ Tick \/ Crash
  \/ \E tab \in Tabs : StartBegin(tab) \/ StartCommit(tab)
  \/ \E n \in AttemptNos :
       \/ Take(n) \/ SaveAnswer(n) \/ SubmitAttempt(n)
       \/ Heartbeat(n) \/ RestoreAttempt(n)
       \/ GrantTime(n) \/ ForceSubmit(n)
       \/ MarkDisrupted(n) \/ AutoSubmit(n)
  \/ \E g \in Graders :
       \/ GradeBegin(g) \/ GradeRejected(g)
       \/ \E n \in AttemptNos : GradeQuestion(g, n)
  \/ ExtendExam \/ CloseExam \/ CancelExam \/ ArchiveExam
  \/ PublishResults \/ ReconcileExam
  \/ HeartbeatScan \/ DeadlineScan

Spec == Init /\ [][Next]_vars

\* Time passes, and setInterval keeps the deadline scanner going.  Nothing is
\* assumed of the candidate, the staff or the heartbeat scanner.
Fairness ==
  /\ WF_vars(Tick)
  /\ WF_vars(DeadlineScan)
  /\ \A n \in AttemptNos : WF_vars(AutoSubmit(n))

FairSpec == Spec /\ Fairness

-----------------------------------------------------------------------------
(***************************************************************************)
(* What the candidate is promised: the contract, and the mapping to it.    *)
(***************************************************************************)

StageOf(r) ==
  CASE r.status = "none"      -> "unused"
    [] r.status \in Active    -> "open"
    [] r.status = "submitted" -> "handed_in"
    [] r.status = "graded"    -> "marked"

Stages == [n \in AttemptNos |-> StageOf(att[n])]
Work   == [n \in AttemptNos |-> att[n].answers]
Papers == [n \in AttemptNos |-> att[n].submittedAnswers]
Marks  == [n \in AttemptNos |-> att[n].score]

Contract == INSTANCE AttemptContract WITH
  stage <- Stages, work <- Work, paper <- Papers, mark <- Marks,
  final <- enr.finalAttempt, over <- enr.status = "completed"

\* Starts in several tabs, the proctor, the graders and the scanners, working
\* on what they read earlier and at any time, do to an enrollment only what
\* the contract allows: nothing is lost, handed in or marked twice, opened
\* against the retake policy, or marked without its effect on the result.
ImplementsAttemptContract == Contract!CSpec

-----------------------------------------------------------------------------
(***************************************************************************)
(* Safety.                                                                 *)
(***************************************************************************)

\* At most one attempt of an enrollment is being taken at any time, however
\* many tabs start at once and whatever the scanners do in between
\* (startOrRestoreAttempt decides under the enrollment lock).
OneActiveAttempt ==
  \A m, n \in AttemptNos :
    att[m].status \in Active /\ att[n].status \in Active => m = n

EpisodesConsistent(r) ==
  /\ r.status = "disrupted" <=> r.currentInterruptionId # None
  /\ r.status = "disrupted" <=> r.interruptedAt # None
  /\ r.status = "disrupted" =>
       r.episodes > 0 /\ r.currentInterruptionId = r.episodes
  /\ r.outcomes = IF r.status = "disrupted" THEN 1 .. (r.episodes - 1)
                                            ELSE 1 .. r.episodes

\* The interruption ledger of an attempt is consistent: the row points at an
\* episode exactly while it is disrupted, that episode is the newest and the
\* only one without an outcome event.  Restore, submit, force-submit and both
\* scanners all write this ledger (restoreInterruption.ts, markDisrupted).
InterruptionEpisodes == \A n \in AttemptNos : EpisodesConsistent(att[n])

DeadlineAccounted(r, closeAt) ==
  r.deadlineAt # None =>
    /\ r.deadlineAt = r.startedAt + Duration + r.grace + r.granted
    /\ r.grace <= PerAttemptCap
    /\ r.grace > 0 => InterruptionPolicy = "bounded_grace"
    /\ r.granted > 0 => InterruptionPolicy = "operator_incident"
    /\ r.grace + r.granted > 0 => r.deadlineAt <= closeAt

\* The deadline of an attempt is its duration plus exactly the adjustments on
\* record; automatic grace stays under the aggregate cap over all the episodes
\* of the attempt; and no adjustment reaches past the closing time, although
\* grants, restores and extensions run concurrently (interruptionPolicy.ts,
\* operatorGrant.ts).
DeadlineAccounting ==
  \A n \in AttemptNos : DeadlineAccounted(att[n], exam.closeAt)

AnswersFrozen(r) ==
  r.submittedAnswers = IF r.status \in Terminal THEN r.answers ELSE None

\* What is graded is what the candidate had saved when the attempt ended: no
\* answer is accepted after the freeze, and nothing is frozen before the end.
FrozenAnswers == \A n \in AttemptNos : AnswersFrozen(att[n])

SubmissionKept(r, s) ==
  r.status \in Terminal =>
    /\ s.status \in Terminal
    /\ s.submittedAt = r.submittedAt
    /\ s.submissionReason = r.submissionReason
    /\ s.submittedAnswers = r.submittedAnswers
    /\ s.deadlineAt = r.deadlineAt

\* A submission happens once: candidate submit, force-submit, lazy
\* reconciliation and the deadline scanner race for the same attempt, and the
\* facts the first one wrote (time, reason, answers, deadline) are never
\* rewritten; a graded attempt does not change at all.
TerminalIsFinal ==
  [][\A n \in AttemptNos :
       /\ SubmissionKept(att[n], att'[n])
       /\ att[n].status = "graded" => att'[n] = att[n]]_vars

\* A submitted attempt that is not graded yet is waiting for a person, with a
\* pending entry left: no attempt is stranded between the two statuses.
SubmittedAwaitsManual ==
  \A n \in AttemptNos :
    att[n].status = "submitted" =>
      att[n].gradingStatus = "pending_manual" /\ att[n].pendingEntries \in 1 .. ManualQuestions

\* The result shown for the enrollment is the result of one of its graded
\* attempts, and there is one as soon as any attempt is graded.
FinalResultIsGraded ==
  /\ enr.finalAttempt = None <=> \A n \in AttemptNos : att[n].status # "graded"
  /\ \A n \in AttemptNos : enr.finalAttempt = n =>
       /\ att[n].status = "graded"
       /\ enr.finalScore = att[n].score
       /\ enr.finalPassed = Passed(att[n].score)

\* Under scoreStrategy highest the final score is the best of the graded
\* attempts, in whatever order the graders finish them.
HighestIsMax ==
  ScoreStrategy = "highest" =>
    \A n \in AttemptNos : att[n].status = "graded" => enr.finalScore >= att[n].score

\* A completed enrollment is closed for good: it stays completed and no
\* attempt is added to it, even by a start that had passed its first checks.
CompletedEnrollmentIsFinal ==
  [][enr.status = "completed" =>
       enr'.status = "completed" /\ enr'.attemptCount = enr.attemptCount]_vars

\* The attempt counter matches the rows and respects maxAttempts when several
\* tabs start at once.
AttemptLimit ==
  /\ enr.attemptCount = Cardinality({n \in AttemptNos : att[n].status # "none"})
  /\ RetakePolicy = "max_attempts" => enr.attemptCount <= MaxAttempts

\* Under pass_then_stop no attempt is opened once any attempt of the
\* enrollment is graded with a passing score, whichever attempt is the final
\* one and in whatever order they were graded.
PassStopsRetakes ==
  [][RetakePolicy = "pass_then_stop" /\ enr'.attemptCount > enr.attemptCount =>
       \A n \in AttemptNos : att[n].status = "graded" => ~ Passed(att[n].score)]_vars

\* A submission is recorded as caused by the deadline only when the deadline
\* in force at that moment, extensions and adjustments included, has passed.
NeverAutoSubmittedEarly ==
  [][\A n \in AttemptNos :
       att[n].submissionReason = None /\ att'[n].submissionReason = "deadline" =>
         Expired(exam.closeAt, att'[n], now)]_vars

\* An attempt is only handed out when the candidate will be allowed to submit
\* it before it expires, and extensions and adjustments keep it so.
SubmissionPossible ==
  \A n \in AttemptNos :
    LET deadline == EffectiveDeadline(exam.closeAt, att[n].deadlineAt) IN
    att[n].status \in Active /\ MinSubmitAfterStart # None /\ deadline # None =>
      att[n].startedAt + MinSubmitAfterStart < deadline

\* The last pending entry of an attempt can always be completed by a request
\* made now: no other attempt's result leaves the enrollment in a status that
\* makes finalizeTerminalGrading throw.
GradingNeverBlocked ==
  \A n \in AttemptNos :
    att[n].status = "submitted" =>
      \A score \in Scores : CanFinalize(enr, exam.closeAt, score, now)

(***************************************************************************)
(* Liveness.                                                               *)
(***************************************************************************)

\* Every attempt handed out in an exam that closes ends: the deadline scanner
\* submits it even if the candidate never comes back, through restarts,
\* disruptions, grants and extensions.
AttemptsEnd ==
  \A n \in AttemptNos : att[n].status \in Active ~> att[n].status \in Terminal

-----------------------------------------------------------------------------
(***************************************************************************)
(* What the documentation says of the runtime and the code does not do.    *)
(***************************************************************************)

\* ADR-005: "The unresolved-attempts guard prevents cancel while attempts are
\* active."
CanceledHasNoActive ==
  exam.status = "canceled" => \A n \in AttemptNos : att[n].status \notin Active

\* SPEC.md: scoreStrategy latest takes the most recent attempt.
LatestIsLastAttempt ==
  ScoreStrategy = "latest" =>
    \A n \in AttemptNos : att[n].status = "graded" => enr.finalAttempt >= n
=============================================================================
