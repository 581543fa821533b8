------------------------- MODULE ExamRuntime_proofs -------------------------
(***************************************************************************)
(* Proofs about ExamRuntime, for every policy, every number of tabs,       *)
(* graders and attempts, and every clock.                                  *)
(*                                                                         *)
(* The inductive invariant IInv adds to the stated invariants what makes   *)
(* them inductive: every attempt handed out has its timestamps, a scan     *)
(* with rows left to visit has its time, and the rows in use are the       *)
(* first attemptCount ones (CoreInv, EnvInv); what was read outside the    *)
(* locks lies in the past and behind the exam row (ReadsInv); a passing    *)
(* attempt has completed the enrollment, and what completed it still holds *)
(* (ResultInv).  Every step changes at most one attempt row, in one of     *)
(* three ways (StepForms), and the invariants are proved from those forms  *)
(* instead of action by action, as is that every step is one of            *)
(* AttemptContract or a stutter (NextMapped).                              *)
(***************************************************************************)
EXTENDS ExamRuntime, FiniteSetTheorems, TLAPS

\* An attempt that was handed out has the timestamps the engine relies on.
Timed(r) ==
  r.status # "none" =>
    /\ r.startedAt \in Nat
    /\ r.lastActivityAt \in Nat
    /\ Duration = None => r.deadlineAt = None
    /\ Duration # None => r.deadlineAt \in Nat

RowInv(r, closeAt) ==
  /\ r \in AttemptRow
  /\ Timed(r)
  /\ EpisodesConsistent(r)
  /\ DeadlineAccounted(r, closeAt)
  /\ AnswersFrozen(r)

Attempts == \A n \in AttemptNos : RowInv(att[n], exam.closeAt)

\* The closing time of an exam never appears or disappears.
ClosingKnown == exam.closeAt = None <=> CloseAt = None

ScansTimed ==
  /\ hb.tick = None => hb.todo = {}
  /\ ds.tick = None => ds.todo = {}

RowsCounted ==
  \A n \in AttemptNos : att[n].status = "none" <=> n > enr.attemptCount

\* A time that is absent stays absent, and one that is there never moves back.
NoLater(c, d) == c = d \/ (c \in Nat /\ d \in Nat /\ c <= d)

\* What no write after the INSERT takes away from the candidate.
Carries(r, s) ==
  /\ s.startedAt = r.startedAt
  /\ NoLater(r.deadlineAt, s.deadlineAt)
  /\ s.submissionReason = r.submissionReason

\* What only a save and a grading write.
Untouched(r, s) == s.answers = r.answers /\ s.score = r.score

\* Answers are added one at a time, to an attempt that is being taken, and a
\* score comes with the grade.
Proceeds(r, s) ==
  /\ \/ s.answers = r.answers
     \/ r.status \in Active /\ s.status \in Active /\ s.answers = r.answers + 1
  /\ s.status # "graded" => s.score = r.score

Submittable(r, closeAt) ==
  LET deadline == EffectiveDeadline(closeAt, r.deadlineAt) IN
  r.status \in Active /\ MinSubmitAfterStart # None /\ deadline # None =>
    r.startedAt + MinSubmitAfterStart < deadline

AwaitsManual(r) ==
  r.status = "submitted" =>
    r.gradingStatus = "pending_manual" /\ r.pendingEntries \in 1 .. ManualQuestions

-----------------------------------------------------------------------------
(***************************************************************************)
(* What the engine writes keeps a row consistent.                          *)
(***************************************************************************)

\* An unused row is consistent.
LEMMA NoAttemptRow ==
  ASSUME NEW c
  PROVE  RowInv(NoAttempt, c) /\ NoAttempt.status = "none"
<1>1. NoAttempt \in AttemptRow
  BY DEF NoAttempt, AttemptRow, OptTime
<1>2. EpisodesConsistent(NoAttempt)
  <2>1. 1 .. 0 = {}
    OBVIOUS
  <2> QED
    BY <2>1 DEF NoAttempt, EpisodesConsistent
<1>3. DeadlineAccounted(NoAttempt, c)
  BY DEF NoAttempt, DeadlineAccounted
<1>4. AnswersFrozen(NoAttempt) /\ Timed(NoAttempt)
  BY DEF NoAttempt, AnswersFrozen, Timed, Terminal
<1> QED
  BY <1>1, <1>2, <1>3, <1>4 DEF RowInv, NoAttempt

\* A new attempt (startOrRestoreAttempt) is consistent.
LEMMA NewAttemptRow ==
  ASSUME NEW t \in Nat, NEW c
  PROVE  /\ RowInv(NewAttempt(t), c)
         /\ NewAttempt(t).status = "in_progress" /\ NewAttempt(t).startedAt = t
         /\ NewAttempt(t).submissionReason = None
<1>1. RowInv(NoAttempt, c)
  BY NoAttemptRow
<1>2. /\ NoAttempt \in AttemptRow
      /\ NoAttempt.episodes = 0 /\ NoAttempt.outcomes = {}
      /\ NoAttempt.grace = 0 /\ NoAttempt.granted = 0
      /\ NoAttempt.currentInterruptionId = None /\ NoAttempt.interruptedAt = None
      /\ NoAttempt.submittedAnswers = None
  BY <1>1 DEF NoAttempt, RowInv
<1>3. 1 .. 0 = {}
  OBVIOUS
<1>4. NewAttempt(t) \in AttemptRow /\ NewAttempt(t).status = "in_progress"
  <2> DEFINE deadline == IF Duration = None THEN None ELSE t + Duration
  <2>1. deadline \in OptTime /\ t \in OptTime
    BY TimingAssumption DEF OptTime
  <2>2. "in_progress" \in {"none"} \cup Active \cup Terminal
    BY DEF Active
  <2> HIDE DEF deadline
  <2>3. [NoAttempt EXCEPT !.status = "in_progress", !.startedAt = t,
                          !.deadlineAt = deadline, !.lastActivityAt = t]
          \in AttemptRow
    BY <1>2, <2>1, <2>2 DEF AttemptRow
  <2>4. NewAttempt(t).status = "in_progress"
    BY <1>2 DEF NewAttempt, AttemptRow
  <2> QED
    BY <2>3, <2>4 DEF NewAttempt, deadline
<1>5. Timed(NewAttempt(t))
  BY <1>2, TimingAssumption, NoneAssumption DEF NewAttempt, Timed, OptTime, AttemptRow
<1>6. EpisodesConsistent(NewAttempt(t))
  BY <1>2, <1>3 DEF NewAttempt, EpisodesConsistent, AttemptRow
<1>7. DeadlineAccounted(NewAttempt(t), c)
  BY <1>2, TimingAssumption, PolicyAssumption
     DEF NewAttempt, DeadlineAccounted, OptTime, AttemptRow
<1>8. AnswersFrozen(NewAttempt(t))
  BY <1>2 DEF NewAttempt, AnswersFrozen, Terminal, AttemptRow
<1>9. NewAttempt(t).startedAt = t /\ NewAttempt(t).submissionReason = None
  <2>1. NoAttempt.submissionReason = None
    BY DEF NoAttempt
  <2> QED
    BY <1>2, <2>1 DEF NewAttempt, AttemptRow
<1> QED
  BY <1>4, <1>5, <1>6, <1>7, <1>8, <1>9 DEF RowInv

\* What a write that leaves the times and the interruption ledger alone must
\* still show.
LEMMA LedgerUntouched ==
  ASSUME NEW r, NEW s \in AttemptRow, NEW c, RowInv(r, c),
         r.status # "none", s.lastActivityAt \in Nat,
         s.status = "disrupted" <=> r.status = "disrupted",
         s.startedAt = r.startedAt, s.deadlineAt = r.deadlineAt,
         s.interruptedAt = r.interruptedAt,
         s.currentInterruptionId = r.currentInterruptionId,
         s.episodes = r.episodes, s.outcomes = r.outcomes,
         s.grace = r.grace, s.granted = r.granted, AnswersFrozen(s)
  PROVE  RowInv(s, c)
<1>1. Timed(s)
  BY DEF RowInv, Timed
<1>2. EpisodesConsistent(s)
  BY DEF RowInv, EpisodesConsistent
<1>3. DeadlineAccounted(s, c)
  BY DEF RowInv, DeadlineAccounted
<1> QED
  BY <1>1, <1>2, <1>3 DEF RowInv

\* A saved answer keeps a live row consistent.
LEMMA SavedRow ==
  ASSUME NEW r, NEW t \in Nat, NEW c, RowInv(r, c), r.status \in Active
  PROVE  /\ RowInv(Saved(r, t), c) /\ Saved(r, t).status = r.status
         /\ Carries(r, Saved(r, t)) /\ Proceeds(r, Saved(r, t))
<1> DEFINE s == Saved(r, t)
<1>1. r \in AttemptRow
  BY DEF RowInv
<1>2. s \in AttemptRow
  <2>1. r.answers + 1 \in Nat /\ t \in OptTime
    BY <1>1 DEF AttemptRow, OptTime
  <2> QED
    BY <1>1, <2>1 DEF Saved, AttemptRow
<1>3. /\ s.status = r.status /\ s.startedAt = r.startedAt
      /\ s.deadlineAt = r.deadlineAt /\ s.lastActivityAt = t
      /\ s.interruptedAt = r.interruptedAt
      /\ s.currentInterruptionId = r.currentInterruptionId
      /\ s.episodes = r.episodes /\ s.outcomes = r.outcomes
      /\ s.grace = r.grace /\ s.granted = r.granted
      /\ s.submittedAnswers = r.submittedAnswers
      /\ s.submissionReason = r.submissionReason
      /\ s.answers = r.answers + 1 /\ s.score = r.score
  BY <1>1 DEF Saved, AttemptRow
<1> HIDE DEF s
<1>4. AnswersFrozen(s) /\ r.status # "none"
  BY <1>3 DEF RowInv, AnswersFrozen, Active, Terminal
<1>5. RowInv(s, c)
  BY <1>2, <1>3, <1>4, LedgerUntouched
<1> QED
  BY <1>3, <1>5 DEF s, Carries, NoLater, Proceeds

\* A heartbeat only moves lastActivityAt.
LEMMA HeartbeatRow ==
  ASSUME NEW r, NEW t \in Nat, NEW c, RowInv(r, c), r.status \in Active
  PROVE  LET s == [r EXCEPT !.lastActivityAt = t]
         IN  RowInv(s, c) /\ s.status = r.status /\ Carries(r, s) /\ Untouched(r, s)
<1> DEFINE s == [r EXCEPT !.lastActivityAt = t]
<1>1. r \in AttemptRow
  BY DEF RowInv
<1>2. s \in AttemptRow
  <2>1. t \in OptTime
    BY DEF OptTime
  <2> QED
    BY <1>1, <2>1 DEF AttemptRow
<1>3. /\ s.status = r.status /\ s.startedAt = r.startedAt
      /\ s.deadlineAt = r.deadlineAt /\ s.lastActivityAt = t
      /\ s.interruptedAt = r.interruptedAt
      /\ s.currentInterruptionId = r.currentInterruptionId
      /\ s.episodes = r.episodes /\ s.outcomes = r.outcomes
      /\ s.grace = r.grace /\ s.granted = r.granted
      /\ s.answers = r.answers /\ s.submittedAnswers = r.submittedAnswers
      /\ s.submissionReason = r.submissionReason /\ s.score = r.score
  BY <1>1 DEF AttemptRow
<1> HIDE DEF s
<1>4. AnswersFrozen(s) /\ r.status # "none"
  BY <1>3 DEF RowInv, AnswersFrozen, Active
<1>5. RowInv(s, c)
  BY <1>2, <1>3, <1>4, LedgerUntouched
<1> QED
  BY <1>3, <1>5 DEF s, Carries, NoLater, Untouched

\* Completing a manual entry that is not the last one (gradeQuestion).
LEMMA EntryRow ==
  ASSUME NEW r, NEW c, RowInv(r, c), r.status = "submitted", r.pendingEntries > 1
  PROVE  LET s == [r EXCEPT !.pendingEntries = @ - 1]
         IN  /\ RowInv(s, c) /\ s.status = "submitted" /\ SubmissionKept(r, s)
             /\ Carries(r, s) /\ Untouched(r, s) /\ (AwaitsManual(r) => AwaitsManual(s))
<1> DEFINE s == [r EXCEPT !.pendingEntries = @ - 1]
<1>1. r \in AttemptRow
  BY DEF RowInv
<1>2. s \in AttemptRow
  <2>1. r.pendingEntries - 1 \in Nat
    BY <1>1 DEF AttemptRow
  <2> QED
    BY <1>1, <2>1 DEF AttemptRow
<1>3. /\ s.status = r.status /\ s.startedAt = r.startedAt
      /\ s.deadlineAt = r.deadlineAt /\ s.lastActivityAt = r.lastActivityAt
      /\ s.interruptedAt = r.interruptedAt
      /\ s.currentInterruptionId = r.currentInterruptionId
      /\ s.episodes = r.episodes /\ s.outcomes = r.outcomes
      /\ s.grace = r.grace /\ s.granted = r.granted
      /\ s.answers = r.answers /\ s.submittedAnswers = r.submittedAnswers
      /\ s.submittedAt = r.submittedAt
      /\ s.submissionReason = r.submissionReason /\ s.score = r.score
      /\ s.gradingStatus = r.gradingStatus
      /\ s.pendingEntries = r.pendingEntries - 1
  BY <1>1 DEF AttemptRow
<1> HIDE DEF s
<1>4. AnswersFrozen(s) /\ s.lastActivityAt \in Nat
  BY <1>3 DEF RowInv, AnswersFrozen, Timed
<1>5. RowInv(s, c)
  BY <1>2, <1>3, <1>4, LedgerUntouched
<1>6. Carries(r, s) /\ Untouched(r, s) /\ SubmissionKept(r, s)
  BY <1>3 DEF Carries, NoLater, Untouched, SubmissionKept
<1>7. AwaitsManual(r) => AwaitsManual(s)
  BY <1>1, <1>3, PolicyAssumption DEF AwaitsManual, AttemptRow
<1> QED
  BY <1>3, <1>5, <1>6, <1>7 DEF s

\* Grading a submitted row keeps the submission (finalizeTerminalGrading).
LEMMA GradedRow ==
  ASSUME NEW r, NEW score \in Nat, NEW t \in OptTime, NEW c,
         RowInv(r, c), r.status = "submitted"
  PROVE  /\ RowInv(Graded(r, score, t), c)
         /\ Graded(r, score, t).status = "graded"
         /\ Graded(r, score, t).score = score
         /\ SubmissionKept(r, Graded(r, score, t))
         /\ Carries(r, Graded(r, score, t))
         /\ Graded(r, score, t).answers = r.answers
<1> DEFINE s == Graded(r, score, t)
<1>1. r \in AttemptRow
  BY DEF RowInv
<1>2. s \in AttemptRow
  <2> DEFINE g == IF r.gradingStatus = "pending_manual" THEN "fully_graded"
                                                        ELSE r.gradingStatus
  <2>1. /\ score \in OptTime /\ 0 \in Nat
        /\ "graded" \in {"none"} \cup Active \cup Terminal
        /\ g \in {None, "auto_graded", "pending_manual", "fully_graded"}
    BY <1>1 DEF AttemptRow, OptTime, Terminal
  <2> HIDE DEF g
  <2>2. [r EXCEPT !.status = "graded", !.score = score, !.gradedAt = t,
                  !.pendingEntries = 0, !.gradingStatus = g] \in AttemptRow
    BY <1>1, <2>1 DEF AttemptRow
  <2> QED
    BY <1>1, <2>2 DEF Graded, g, AttemptRow
<1>3. /\ s.status = "graded" /\ s.startedAt = r.startedAt
      /\ s.deadlineAt = r.deadlineAt /\ s.lastActivityAt = r.lastActivityAt
      /\ s.interruptedAt = r.interruptedAt
      /\ s.currentInterruptionId = r.currentInterruptionId
      /\ s.episodes = r.episodes /\ s.outcomes = r.outcomes
      /\ s.grace = r.grace /\ s.granted = r.granted
      /\ s.answers = r.answers /\ s.submittedAnswers = r.submittedAnswers
      /\ s.submittedAt = r.submittedAt /\ s.score = score
      /\ s.submissionReason = r.submissionReason
  BY <1>1 DEF Graded, AttemptRow
<1> HIDE DEF s
<1>4. AnswersFrozen(s) /\ s.lastActivityAt \in Nat
  BY <1>3 DEF RowInv, AnswersFrozen, Timed, Terminal
<1>5. RowInv(s, c)
  BY <1>2, <1>3, <1>4, LedgerUntouched
<1> QED
  BY <1>3, <1>5 DEF s, SubmissionKept, Terminal, Carries, NoLater

\* markDisrupted opens the next episode.
LEMMA DisruptedRow ==
  ASSUME NEW r, NEW tick \in Nat, NEW c, RowInv(r, c), r.status = "in_progress"
  PROVE  /\ RowInv(Disrupted(r, tick), c)
         /\ Disrupted(r, tick).status = "disrupted"
         /\ Carries(r, Disrupted(r, tick)) /\ Untouched(r, Disrupted(r, tick))
<1> DEFINE s == Disrupted(r, tick)
<1>1. r \in AttemptRow
  BY DEF RowInv
<1>2. s \in AttemptRow
  <2>1. /\ r.episodes + 1 \in Nat /\ r.episodes + 1 \in OptTime /\ tick \in OptTime
        /\ "disrupted" \in {"none"} \cup Active \cup Terminal
    BY <1>1 DEF AttemptRow, OptTime, Active
  <2> QED
    BY <1>1, <2>1 DEF Disrupted, AttemptRow
<1>3. /\ s.status = "disrupted" /\ s.startedAt = r.startedAt
      /\ s.deadlineAt = r.deadlineAt /\ s.lastActivityAt = r.lastActivityAt
      /\ s.interruptedAt = tick /\ s.currentInterruptionId = r.episodes + 1
      /\ s.episodes = r.episodes + 1 /\ s.outcomes = r.outcomes
      /\ s.grace = r.grace /\ s.granted = r.granted
      /\ s.submittedAnswers = r.submittedAnswers
      /\ s.submissionReason = r.submissionReason
      /\ s.answers = r.answers /\ s.score = r.score
  BY <1>1 DEF Disrupted, AttemptRow
<1>4. r.episodes \in Nat /\ (r.episodes + 1) - 1 = r.episodes
  BY <1>1 DEF AttemptRow
<1> HIDE DEF s
<1>5. Timed(s)
  BY <1>3 DEF RowInv, Timed
<1>6. EpisodesConsistent(s)
  BY <1>3, <1>4, NoneAssumption DEF RowInv, EpisodesConsistent
<1>7. DeadlineAccounted(s, c)
  BY <1>3 DEF RowInv, DeadlineAccounted
<1>8. AnswersFrozen(s)
  BY <1>3 DEF RowInv, AnswersFrozen, Terminal
<1>9. Carries(r, s) /\ Untouched(r, s)
  BY <1>3 DEF Carries, NoLater, Untouched
<1> QED
  BY <1>2, <1>3, <1>5, <1>6, <1>7, <1>8, <1>9 DEF RowInv, s

\* Settling the open episode completes the outcomes.
LEMMA SettledEpisode ==
  ASSUME NEW r, NEW c, RowInv(r, c), r.status = "disrupted"
  PROVE  /\ r.currentInterruptionId \in Nat
         /\ r.outcomes \cup {r.currentInterruptionId} = 1 .. r.episodes
         /\ r.episodes \in Nat
<1>1. r.episodes \in Nat
  BY DEF RowInv, AttemptRow
<1>2. r.currentInterruptionId = r.episodes /\ r.episodes # None
  BY <1>1, NoneAssumption DEF RowInv, EpisodesConsistent
<1>3. r.outcomes = 1 .. (r.episodes - 1)
  BY DEF RowInv, EpisodesConsistent
<1>4. r.episodes > 0
  BY DEF RowInv, EpisodesConsistent
<1> QED
  BY <1>1, <1>2, <1>3, <1>4

\* restoreInterruptedAttempt closes the episode and goes back to in_progress.
LEMMA RestoredRow ==
  ASSUME NEW r, NEW t \in Nat, NEW c, RowInv(r, c), r.status = "disrupted"
  PROVE  /\ RowInv(Restored(r, t), c) /\ Restored(r, t).status = "in_progress"
         /\ Carries(r, Restored(r, t)) /\ Untouched(r, Restored(r, t))
<1> DEFINE s == Restored(r, t)
<1>1. r \in AttemptRow
  BY DEF RowInv
<1>2. /\ r.currentInterruptionId \in Nat
      /\ r.outcomes \cup {r.currentInterruptionId} = 1 .. r.episodes
  BY SettledEpisode
<1>3. s \in AttemptRow
  <2>1. /\ r.outcomes \cup {r.currentInterruptionId} \in SUBSET Nat
        /\ t \in OptTime /\ None \in OptTime
        /\ "in_progress" \in {"none"} \cup Active \cup Terminal
    BY <1>1, <1>2 DEF AttemptRow, OptTime, Active
  <2> QED
    BY <1>1, <2>1 DEF Restored, AttemptRow
<1>4. /\ s.status = "in_progress" /\ s.startedAt = r.startedAt
      /\ s.deadlineAt = r.deadlineAt /\ s.lastActivityAt = t
      /\ s.interruptedAt = None /\ s.currentInterruptionId = None
      /\ s.episodes = r.episodes
      /\ s.outcomes = r.outcomes \cup {r.currentInterruptionId}
      /\ s.grace = r.grace /\ s.granted = r.granted
      /\ s.submittedAnswers = r.submittedAnswers
      /\ s.submissionReason = r.submissionReason
      /\ s.answers = r.answers /\ s.score = r.score
  BY <1>1 DEF Restored, AttemptRow
<1> HIDE DEF s
<1>5. Timed(s)
  BY <1>4 DEF RowInv, Timed
<1>6. EpisodesConsistent(s)
  BY <1>2, <1>4 DEF EpisodesConsistent
<1>7. DeadlineAccounted(s, c)
  BY <1>4 DEF RowInv, DeadlineAccounted
<1>8. AnswersFrozen(s)
  BY <1>4 DEF RowInv, AnswersFrozen, Terminal
<1>9. Carries(r, s) /\ Untouched(r, s)
  BY <1>4 DEF Carries, NoLater, Untouched
<1> QED
  BY <1>3, <1>4, <1>5, <1>6, <1>7, <1>8, <1>9 DEF RowInv, s

\* submitAttempt freezes the answers and settles the interruption.
LEMMA SubmittedRow ==
  ASSUME NEW r, NEW at \in OptTime, NEW reason \in {"manual", "deadline"},
         NEW c, RowInv(r, c), r.status \in Active
  PROVE  LET s == Submitted(r, at, reason) IN
         /\ RowInv(s, c)
         /\ s.status = "submitted" /\ s.submissionReason = reason
         /\ s.startedAt = r.startedAt /\ s.deadlineAt = r.deadlineAt
         /\ Untouched(r, s)
         /\ ManualQuestions > 0 => AwaitsManual(s)
<1> DEFINE s == Submitted(r, at, reason)
           settled == IF r.status = "disrupted"
                        THEN r.outcomes \cup {r.currentInterruptionId}
                        ELSE r.outcomes
           g == IF ManualQuestions > 0 THEN "pending_manual" ELSE "auto_graded"
<1>1. r \in AttemptRow
  BY DEF RowInv
<1>2. settled = 1 .. r.episodes
  <2>1. CASE r.status = "disrupted"
    BY <2>1, SettledEpisode
  <2>2. CASE r.status # "disrupted"
    BY <2>2 DEF RowInv, EpisodesConsistent
  <2> QED
    BY <2>1, <2>2
<1>3. /\ settled \in SUBSET Nat
      /\ r.answers \in OptTime /\ None \in OptTime
      /\ ManualQuestions \in Nat
      /\ g \in {None, "auto_graded", "pending_manual", "fully_graded"}
      /\ reason \in {None, "manual", "deadline"}
      /\ "submitted" \in {"none"} \cup Active \cup Terminal
  BY <1>1, <1>2, PolicyAssumption, SMTT(20) DEF AttemptRow, OptTime, Terminal
<1>4. s = [r EXCEPT !.status = "submitted", !.submittedAt = at,
                    !.submissionReason = reason, !.submittedAnswers = r.answers,
                    !.gradingStatus = g, !.pendingEntries = ManualQuestions,
                    !.outcomes = settled, !.currentInterruptionId = None,
                    !.interruptedAt = None]
  BY <1>1 DEF Submitted, AttemptRow
<1> HIDE DEF s, settled, g
<1>5. s \in AttemptRow
  BY <1>1, <1>3, <1>4 DEF AttemptRow
<1>6. /\ s.status = "submitted" /\ s.startedAt = r.startedAt
      /\ s.deadlineAt = r.deadlineAt /\ s.lastActivityAt = r.lastActivityAt
      /\ s.interruptedAt = None /\ s.currentInterruptionId = None
      /\ s.episodes = r.episodes /\ s.outcomes = settled
      /\ s.grace = r.grace /\ s.granted = r.granted
      /\ s.answers = r.answers /\ s.submittedAnswers = r.answers
      /\ s.submissionReason = reason /\ s.score = r.score
      /\ s.gradingStatus = g /\ s.pendingEntries = ManualQuestions
  BY <1>1, <1>4 DEF AttemptRow
<1>7. Timed(s)
  BY <1>6 DEF RowInv, Timed, Active
<1>8. EpisodesConsistent(s)
  BY <1>2, <1>6 DEF EpisodesConsistent
<1>9. DeadlineAccounted(s, c)
  BY <1>6 DEF RowInv, DeadlineAccounted
<1>10. AnswersFrozen(s)
  BY <1>6 DEF AnswersFrozen, Terminal
<1>11. ManualQuestions > 0 => AwaitsManual(s)
  BY <1>3, <1>6 DEF AwaitsManual, g
<1> QED
  BY <1>5, <1>6, <1>7, <1>8, <1>9, <1>10, <1>11 DEF RowInv, s, Untouched

\* An operator grant inside the window keeps the accounts (grantAttemptTime).
LEMMA GrantedRow ==
  ASSUME NEW r, NEW added \in Nat, NEW c \in Nat, RowInv(r, c),
         r.status \in Active, r.deadlineAt # None,
         InterruptionPolicy = "operator_incident",
         r.deadlineAt + added <= c
  PROVE  /\ RowInv(Granted(r, added), c) /\ Granted(r, added).status = r.status
         /\ Carries(r, Granted(r, added)) /\ Untouched(r, Granted(r, added))
<1> DEFINE s == Granted(r, added)
<1>1. r \in AttemptRow /\ r.deadlineAt \in Nat /\ r.startedAt \in Nat
  BY DEF RowInv, Timed, Active
<1>2. s \in AttemptRow
  <2>1. r.deadlineAt + added \in OptTime /\ r.granted + added \in Nat
    BY <1>1 DEF AttemptRow, OptTime
  <2> QED
    BY <1>1, <2>1 DEF Granted, AttemptRow
<1>3. /\ s.status = r.status /\ s.startedAt = r.startedAt
      /\ s.deadlineAt = r.deadlineAt + added
      /\ s.lastActivityAt = r.lastActivityAt
      /\ s.interruptedAt = r.interruptedAt
      /\ s.currentInterruptionId = r.currentInterruptionId
      /\ s.episodes = r.episodes /\ s.outcomes = r.outcomes
      /\ s.grace = r.grace /\ s.granted = r.granted + added
      /\ s.answers = r.answers /\ s.submittedAnswers = r.submittedAnswers
      /\ s.submissionReason = r.submissionReason /\ s.score = r.score
  BY <1>1 DEF Granted, AttemptRow
<1>4. r.grace \in Nat /\ r.granted \in Nat /\ Duration \in Nat
  BY <1>1, NoneAssumption, TimingAssumption DEF AttemptRow, OptTime
<1> HIDE DEF s
<1>5. Timed(s)
  BY <1>1, <1>3, <1>4, NoneAssumption DEF RowInv, Timed
<1>6. EpisodesConsistent(s)
  BY <1>3 DEF RowInv, EpisodesConsistent
<1>7. DeadlineAccounted(s, c)
  BY <1>1, <1>3, <1>4 DEF RowInv, DeadlineAccounted
<1>8. AnswersFrozen(s)
  BY <1>3 DEF RowInv, AnswersFrozen
<1>9. Carries(r, s) /\ Untouched(r, s)
  BY <1>1, <1>3 DEF Carries, NoLater, Untouched
<1> QED
  BY <1>2, <1>3, <1>5, <1>6, <1>7, <1>8, <1>9 DEF RowInv, s

\* Automatic grace stays inside both caps and inside the window
\* (evaluateInterruptionTimePolicy).
LEMMA CompensationBounded ==
  ASSUME NEW r \in AttemptRow, NEW t \in Nat, NEW c \in Nat,
         InterruptionPolicy = "bounded_grace",
         r.interruptedAt \in Nat, r.deadlineAt \in Nat
  PROVE  LET added == Compensation(c, r, t) IN
         /\ added \in Nat
         /\ added > 0 => /\ r.grace + added <= PerAttemptCap
                         /\ r.deadlineAt + added <= c
<1> r.grace \in Nat /\ PerAttemptCap \in Nat /\ PerIncidentCap \in Nat
  BY PolicyAssumption DEF AttemptRow
<1> QED
  BY DEF Compensation, Min2, Max0

\* Compensating the open episode keeps the row consistent, whatever the
\* request's time is.
LEMMA CompensatedRow ==
  ASSUME NEW r, NEW t \in Nat, NEW c \in OptTime, c = None <=> CloseAt = None,
         RowInv(r, c), r.status = "disrupted"
  PROVE  /\ RowInv(Compensated(c, r, t), c)
         /\ Compensated(c, r, t).status = "disrupted"
         /\ Carries(r, Compensated(c, r, t)) /\ Untouched(r, Compensated(c, r, t))
<1> DEFINE added == Compensation(c, r, t)
           s == [r EXCEPT !.deadlineAt = @ + added, !.grace = @ + added]
<1>1. CASE InterruptionPolicy # "bounded_grace"
  BY <1>1 DEF Compensated, Compensation, Carries, NoLater, Untouched
<1>2. CASE InterruptionPolicy = "bounded_grace"
  <2>1. /\ r \in AttemptRow /\ r.deadlineAt \in Nat /\ r.startedAt \in Nat
        /\ Duration \in Nat /\ c \in Nat /\ r.grace \in Nat /\ r.granted \in Nat
    BY <1>2, TimingAssumption DEF RowInv, Timed, OptTime, AttemptRow
  <2>2. r.interruptedAt \in Nat
    BY <2>1 DEF RowInv, EpisodesConsistent, AttemptRow, OptTime
  <2>3. added \in Nat /\ (added > 0 => /\ r.grace + added <= PerAttemptCap
                                       /\ r.deadlineAt + added <= c)
    BY <1>2, <2>1, <2>2, CompensationBounded
  <2> HIDE DEF added
  <2>4. CASE added > 0
    <3>1. s \in AttemptRow
      <4>1. r.deadlineAt + added \in OptTime /\ r.grace + added \in Nat
        BY <2>1, <2>3 DEF OptTime
      <4> QED
        BY <2>1, <4>1 DEF AttemptRow
    <3>2. /\ s.status = r.status /\ s.startedAt = r.startedAt
          /\ s.deadlineAt = r.deadlineAt + added
          /\ s.lastActivityAt = r.lastActivityAt
          /\ s.interruptedAt = r.interruptedAt
          /\ s.currentInterruptionId = r.currentInterruptionId
          /\ s.episodes = r.episodes /\ s.outcomes = r.outcomes
          /\ s.grace = r.grace + added /\ s.granted = r.granted
          /\ s.answers = r.answers /\ s.submittedAnswers = r.submittedAnswers
          /\ s.submissionReason = r.submissionReason /\ s.score = r.score
      BY <2>1 DEF AttemptRow
    <3> HIDE DEF s
    <3>3. Timed(s)
      BY <2>1, <2>3, <3>2, NoneAssumption DEF RowInv, Timed
    <3>4. EpisodesConsistent(s)
      BY <3>2 DEF RowInv, EpisodesConsistent
    <3>5. r.granted = 0
      BY <1>2, <2>1, NoneAssumption DEF RowInv, DeadlineAccounted
    <3>6. DeadlineAccounted(s, c)
      BY <1>2, <2>1, <2>3, <2>4, <3>2, <3>5, NoneAssumption
         DEF RowInv, DeadlineAccounted
    <3>7. AnswersFrozen(s)
      BY <3>2 DEF RowInv, AnswersFrozen
    <3>8. Carries(r, s) /\ Untouched(r, s)
      BY <2>1, <2>3, <3>2 DEF Carries, NoLater, Untouched
    <3> QED
      BY <2>4, <3>1, <3>2, <3>3, <3>4, <3>6, <3>7, <3>8
         DEF RowInv, Compensated, s, added
  <2>5. CASE ~ (added > 0)
    BY <2>5 DEF Compensated, added, Carries, NoLater, Untouched
  <2> QED
    BY <2>4, <2>5
<1> QED
  BY <1>1, <1>2

\* Extending the exam keeps every row consistent.
LEMMA LaterClosing ==
  ASSUME NEW r, NEW c, NEW d, RowInv(r, c), NoLater(c, d)
  PROVE  RowInv(r, d)
<1>1. r.deadlineAt # None => r.deadlineAt \in Nat
  BY DEF RowInv, AttemptRow, OptTime
<1> QED
  BY <1>1 DEF RowInv, DeadlineAccounted, NoLater

\* An attempt that expired at some time is expired from then on.
LEMMA ExpiredLater ==
  ASSUME NEW r, NEW s, NEW c \in OptTime, NEW t \in Nat, NEW u \in Nat, t <= u,
         r.deadlineAt \in OptTime, s.deadlineAt = r.deadlineAt, Expired(c, r, t)
  PROVE  Expired(c, s, u)
<1> DEFINE e == EffectiveDeadline(c, r.deadlineAt)
<1>1. e # None => e \in Nat
  BY DEF EffectiveDeadline, Min2, OptTime
<1>2. e # None /\ t >= e
  BY DEF Expired
<1>3. u >= e
  BY <1>1, <1>2
<1> QED
  BY <1>2, <1>3 DEF Expired

\* An attempt that can be submitted in time still can when its deadline or the
\* closing time moves later.
LEMMA SubmittableLater ==
  ASSUME NEW r, NEW s, NEW c \in OptTime, NEW d, RowInv(r, c), Carries(r, s),
         NoLater(c, d), s.status \in Active => r.status \in Active,
         Submittable(r, c)
  PROVE  Submittable(s, d)
<1> SUFFICES ASSUME s.status \in Active, MinSubmitAfterStart # None,
                    EffectiveDeadline(d, s.deadlineAt) # None
             PROVE  s.startedAt + MinSubmitAfterStart < EffectiveDeadline(d, s.deadlineAt)
  BY DEF Submittable
<1>1. /\ r.status \in Active /\ s.startedAt = r.startedAt
      /\ r.startedAt \in Nat /\ MinSubmitAfterStart \in Nat
      /\ r.deadlineAt = None \/ r.deadlineAt \in Nat
      /\ c = None \/ c \in Nat
  BY TimingAssumption DEF RowInv, Timed, Carries, OptTime, Active, AttemptRow
<1>2. NoLater(r.deadlineAt, s.deadlineAt) /\ None \notin Nat
  BY NoneAssumption DEF Carries
<1>3. EffectiveDeadline(c, r.deadlineAt) # None
  BY <1>1, <1>2 DEF EffectiveDeadline, Min2, NoLater
<1>4. r.startedAt + MinSubmitAfterStart < EffectiveDeadline(c, r.deadlineAt)
  BY <1>1, <1>3 DEF Submittable
<1> QED
  BY <1>1, <1>2, <1>3, <1>4 DEF EffectiveDeadline, Min2, NoLater

-----------------------------------------------------------------------------
(***************************************************************************)
(* The inductive invariant and the forms a step can take.                  *)
(***************************************************************************)

CountBounded ==
  /\ enr.attemptCount <= AttemptBound
  /\ RetakePolicy = "max_attempts" => enr.attemptCount <= MaxAttempts

\* The final attempt is one of the rows, and graded rows have a score.
ResultsKnown ==
  /\ enr.finalAttempt \in AttemptNos \cup {None}
  /\ \A n \in AttemptNos : att[n].status = "graded" => att[n].score \in Nat

CoreInv ==
  /\ exam \in ExamRow /\ ClosingKnown
  /\ enr \in EnrollmentRow /\ CountBounded
  /\ att \in [AttemptNos -> AttemptRow]
  /\ Attempts /\ RowsCounted /\ OneActiveAttempt
  /\ ResultsKnown /\ FinalResultIsGraded /\ HighestIsMax

EnvInv ==
  /\ now \in Nat
  /\ starting \in [Tabs -> StartRead \cup {None}]
  /\ grading \in [Graders -> GradeRead \cup {None}]
  /\ hb \in Scan /\ ds \in Scan /\ ScansTimed
  /\ crashes \in Nat

\* No administrator can move the closing time of this exam.
NeverExtended == CloseAt = None \/ "extend" \notin StaffCommands

\* The reasons for which an enrollment completes cannot go away: the closing
\* time stays, and under pass_then_stop the result on record never gets worse.
SteadyPolicy ==
  /\ NeverExtended
  /\ RetakePolicy = "pass_then_stop" => ScoreStrategy = "highest"

\* Every time captured outside the locks lies in the past.
TimesPast ==
  /\ \A tab \in Tabs : starting[tab] # None => starting[tab].at <= now
  /\ \A g \in Graders : grading[g] # None => grading[g].at <= now
  /\ ds.tick # None => ds.tick <= now

\* The closing time a start has read is not later than the one in force.
ReadsBehind ==
  \A tab \in Tabs : starting[tab] # None => NoLater(starting[tab].closeAt, exam.closeAt)

\* Without extensions everybody has read the same closing time.
ClosingFixed ==
  NeverExtended =>
    /\ exam.closeAt = CloseAt
    /\ \A g \in Graders : grading[g] # None => grading[g].closeAt = CloseAt

ReadsInv == TimesPast /\ ReadsBehind /\ ClosingFixed

\* Under pass_then_stop a passing attempt has completed the enrollment, also
\* when it is not the final one.
PassCompletes ==
  RetakePolicy = "pass_then_stop" =>
    \A n \in AttemptNos :
      att[n].status = "graded" /\ Passed(att[n].score) => enr.status = "completed"

\* What completed the enrollment still holds.
CompletedForGood ==
  SteadyPolicy /\ enr.status = "completed" =>
    \/ RetakePolicy = "max_attempts" /\ enr.attemptCount >= MaxAttempts
    \/ RetakePolicy = "pass_then_stop" /\ enr.finalPassed = TRUE
    \/ CloseAt # None /\ now >= CloseAt

EnrollmentUsed ==
  /\ enr.status # "blocked"
  /\ enr.status = "assigned" <=> enr.attemptCount = 0
  /\ enr.finalAttempt = None => enr.finalPassed = None

ResultInv ==
  /\ SubmittedAwaitsManual /\ SubmissionPossible
  /\ PassCompletes /\ CompletedForGood /\ EnrollmentUsed

IInv == CoreInv /\ EnvInv /\ ReadsInv /\ ResultInv

\* A step that leaves the enrollment and its attempts alone; at most the exam
\* changes, and its closing time only moves later.
IdleStep ==
  /\ UNCHANGED <<enr, att>>
  /\ exam' \in ExamRow
  /\ NoLater(exam.closeAt, exam'.closeAt)
  /\ NeverExtended => exam'.closeAt = exam.closeAt

\* What every rewrite of a row keeps: the start, the time left, the reason of
\* the submission, the entries a person still has to grade, and the answers.
Rewrites(r, s) ==
  /\ s.startedAt = r.startedAt
  /\ NoLater(r.deadlineAt, s.deadlineAt)
  /\ s.submissionReason = "deadline" =>
       r.submissionReason = "deadline" \/ Expired(exam.closeAt, s, now)
  /\ AwaitsManual(r) => AwaitsManual(s)
  /\ Proceeds(r, s)

\* A step that rewrites one attempt that is in use and does not grade it.
RowStep ==
  \E n \in AttemptNos : \E s :
    /\ att[n].status \notin {"none", "graded"}
    /\ RowInv(s, exam.closeAt)
    /\ s.status \notin {"none", "graded"}
    /\ s.status \in Active => att[n].status \in Active
    /\ SubmissionKept(att[n], s) /\ Rewrites(att[n], s)
    /\ att' = [att EXCEPT ![n] = s]
    /\ UNCHANGED <<enr, exam>>

\* A step that grades one attempt and projects its score on the enrollment.
Grades(n, s, c, t, score) ==
  /\ att[n].status \notin {"none", "graded"}
  /\ RowInv(s, exam.closeAt)
  /\ s.status = "graded" /\ s.score = score /\ score \in Scores
  /\ SubmissionKept(att[n], s) /\ Rewrites(att[n], s)
  /\ att' = [att EXCEPT ![n] = s]
  /\ t \in Nat /\ t <= now /\ (NeverExtended => c = CloseAt)
  /\ CanFinalize(enr, c, score, t)
  /\ enr' = Finalized(enr, n, c, score, t)
  /\ exam' = exam

GradeStep ==
  \E n \in AttemptNos : \E s, c, t : \E score \in Nat : Grades(n, s, c, t, score)

\* A step that opens the next attempt.
CreateStep ==
  \E t \in Nat :
    /\ \A n \in AttemptNos : att[n].status \notin Active
    /\ enr.attemptCount < AttemptBound
    /\ RetakePolicy = "max_attempts" => enr.attemptCount < MaxAttempts
    /\ CanTransition(enr.status, "started")
    /\ Submittable(NewAttempt(t), exam.closeAt)
    /\ att' = [att EXCEPT ![enr.attemptCount + 1] = NewAttempt(t)]
    /\ enr' = [enr EXCEPT !.status = "started", !.attemptCount = @ + 1]
    /\ exam' = exam

StepForms == IdleStep \/ RowStep \/ GradeStep \/ CreateStep

-----------------------------------------------------------------------------
\* Submitting an active row, and grading it at once when nobody has to, is a
\* RowStep or a GradeStep.
LEMMA SubmitForms ==
  ASSUME IInv, NEW n \in AttemptNos, NEW r, NEW at \in OptTime,
         NEW reason \in {"manual", "deadline"}, NEW t \in Nat, t <= now,
         att[n].status \in Active, RowInv(r, exam.closeAt), r.status \in Active,
         Carries(att[n], r), Untouched(att[n], r),
         reason = "deadline" => Expired(exam.closeAt, r, t),
         SubmitAndGrade(n, r, at, reason, t), exam' = exam
  PROVE  StepForms
<1> DEFINE s == Submitted(r, at, reason)
<1>1. /\ RowInv(s, exam.closeAt)
      /\ s.status = "submitted" /\ s.submissionReason = reason
      /\ s.startedAt = r.startedAt /\ s.deadlineAt = r.deadlineAt
      /\ ManualQuestions > 0 => AwaitsManual(s)
      /\ Untouched(r, s)
  BY SubmittedRow
<1>2. /\ att[n].status \notin {"none", "graded"}
      /\ \A x : SubmissionKept(att[n], x)
  BY DEF Active, Terminal, SubmissionKept
<1> HIDE DEF s
<1>3. /\ now \in Nat /\ exam.closeAt \in OptTime /\ r.deadlineAt \in OptTime
      /\ NeverExtended => exam.closeAt = CloseAt
  BY DEF IInv, CoreInv, EnvInv, ReadsInv, ClosingFixed, ExamRow, RowInv, AttemptRow
<1>4. ASSUME NEW x, x.startedAt = s.startedAt, x.deadlineAt = s.deadlineAt,
             x.submissionReason = s.submissionReason, AwaitsManual(x),
             x.answers = s.answers, x.status # "graded" => x.score = s.score
      PROVE  Rewrites(att[n], x)
  <2>1. reason = "deadline" => Expired(exam.closeAt, x, now)
    BY <1>1, <1>3, <1>4, ExpiredLater
  <2> QED
    BY <1>1, <1>4, <2>1 DEF Rewrites, Carries, Untouched, Proceeds
<1>5. CASE ManualQuestions > 0 /\ att' = [att EXCEPT ![n] = s] /\ UNCHANGED enr
  <2>1. Rewrites(att[n], s)
    BY <1>1, <1>5, <1>4
  <2> QED
    BY <1>1, <1>2, <1>5, <2>1 DEF StepForms, RowStep, Active
<1>6. CASE \E score \in Scores :
             /\ CanFinalize(enr, exam.closeAt, score, t)
             /\ att' = [att EXCEPT ![n] = Graded(s, score, t)]
             /\ enr' = Finalized(enr, n, exam.closeAt, score, t)
  <2>1. PICK score \in Scores :
             /\ CanFinalize(enr, exam.closeAt, score, t)
             /\ att' = [att EXCEPT ![n] = Graded(s, score, t)]
             /\ enr' = Finalized(enr, n, exam.closeAt, score, t)
    BY <1>6
  <2>2. score \in Nat
    BY InputAssumption
  <2>3. /\ RowInv(Graded(s, score, t), exam.closeAt)
        /\ Graded(s, score, t).status = "graded"
        /\ Graded(s, score, t).score = score
        /\ SubmissionKept(s, Graded(s, score, t)) /\ Carries(s, Graded(s, score, t))
        /\ Graded(s, score, t).answers = s.answers
    BY <1>1, <2>2, GradedRow DEF OptTime
  <2>4. Rewrites(att[n], Graded(s, score, t))
    BY <1>1, <1>4, <2>3 DEF Carries, SubmissionKept, Terminal, AwaitsManual
  <2>5. GradeStep
    BY <1>2, <1>3, <2>1, <2>2, <2>3, <2>4 DEF GradeStep, Grades
  <2> QED
    BY <2>5 DEF StepForms
<1> QED
  BY <1>5, <1>6 DEF SubmitAndGrade, s

\* The clock a request captured is a number, and lies in the past.
LEMMA RequestTimeNat ==
  ASSUME EnvInv, NEW t \in RequestTimes
  PROVE  t \in Nat /\ t <= now
BY DEF EnvInv, RequestTimes

\* The time a request on an attempt captured is a time.
LEMMA AttemptTimeNat ==
  ASSUME EnvInv, NEW n, NEW t \in AttemptTimes(n)
  PROVE  t \in Nat /\ t <= now
BY DEF EnvInv, RequestTimes, AttemptTimes

\* Lazy reconciliation of an expired attempt.
LEMMA ReconcileForms ==
  ASSUME IInv, NEW n \in AttemptNos, NEW r, NEW t \in Nat, t <= now,
         att[n].status \in Active, RowInv(r, exam.closeAt), Carries(att[n], r),
         Untouched(att[n], r),
         ReconcileExpired(n, r, t), exam' = exam
  PROVE  StepForms
<1> DEFINE at == EffectiveDeadline(exam.closeAt, r.deadlineAt)
<1>1. at \in OptTime
  BY DEF IInv, CoreInv, ExamRow, RowInv, AttemptRow, EffectiveDeadline, Min2, OptTime
<1>2. /\ r.status \in Active /\ Expired(exam.closeAt, r, t)
      /\ SubmitAndGrade(n, r, at, "deadline", t)
  BY DEF ReconcileExpired
<1> HIDE DEF at
<1> QED
  BY <1>1, <1>2, SubmitForms

\* A write that keeps an active row active.
LEMMA ActiveWrite ==
  ASSUME NEW n \in AttemptNos, NEW s, att[n].status \in Active,
         RowInv(s, exam.closeAt), s.status \in Active, Carries(att[n], s),
         Proceeds(att[n], s),
         att' = [att EXCEPT ![n] = s], UNCHANGED <<enr, exam>>
  PROVE  StepForms
<1>1. /\ att[n].status \notin {"none", "graded"} /\ s.status \notin {"none", "graded"}
      /\ SubmissionKept(att[n], s) /\ Rewrites(att[n], s)
  BY DEF Active, Terminal, SubmissionKept, Rewrites, Carries, AwaitsManual
<1> QED
  BY <1>1 DEF StepForms, RowStep

\* Restoring a disrupted attempt, directly or through a start.
LEMMA RestoreForms ==
  ASSUME IInv, NEW n \in AttemptNos, NEW t \in Nat, t <= now,
         RestoreInterrupted(n, t), exam' = exam
  PROVE  StepForms
<1> DEFINE r == Compensated(exam.closeAt, att[n], t)
<1>1. /\ att[n].status = "disrupted" /\ att[n].status \in Active
      /\ RowInv(att[n], exam.closeAt)
      /\ exam.closeAt \in OptTime /\ (exam.closeAt = None <=> CloseAt = None)
  BY DEF RestoreInterrupted, IInv, CoreInv, Attempts, ExamRow, ClosingKnown, Active
<1>2. /\ RowInv(r, exam.closeAt) /\ r.status = "disrupted" /\ Carries(att[n], r)
      /\ Untouched(att[n], r)
  BY <1>1, CompensatedRow
<1> HIDE DEF r
<1>3. CASE ReconcileExpired(n, r, t)
  BY <1>1, <1>2, <1>3, ReconcileForms
<1>4. CASE att' = [att EXCEPT ![n] = Restored(r, t)] /\ UNCHANGED enr
  <2>1. /\ RowInv(Restored(r, t), exam.closeAt) /\ Restored(r, t).status \in Active
        /\ Carries(r, Restored(r, t)) /\ Untouched(r, Restored(r, t))
    BY <1>2, RestoredRow DEF Active
  <2>2. Carries(att[n], Restored(r, t)) /\ Proceeds(att[n], Restored(r, t))
    BY <1>2, <2>1 DEF Carries, NoLater, Untouched, Proceeds
  <2> QED
    BY <1>1, <1>4, <2>1, <2>2, ActiveWrite
<1> QED
  BY <1>3, <1>4 DEF RestoreInterrupted, r

\* Reconciling the exam with the clock changes its status only.
LEMMA ReconciledExamRow ==
  ASSUME NEW x \in ExamRow, NEW t
  PROVE  /\ ReconciledExam(x, t) \in ExamRow
         /\ ReconciledExam(x, t).closeAt = x.closeAt
BY DEF ReconciledExam, ExamRow

\* A transaction that has not touched the row carries everything.
LEMMA CarriesSelf == \A r : Carries(r, r) /\ Untouched(r, r)
BY DEF Carries, NoLater, Untouched

\* A write that leaves answers and score alone.
LEMMA UntouchedProceeds == \A r, s : Untouched(r, s) => Proceeds(r, s)
BY DEF Untouched, Proceeds

\* The candidate's and the proctor's commands on one attempt.
LEMMA AttemptForms ==
  ASSUME IInv, NEW n \in AttemptNos,
         \/ Take(n) \/ SaveAnswer(n) \/ SubmitAttempt(n) \/ Heartbeat(n)
         \/ RestoreAttempt(n) \/ GrantTime(n) \/ ForceSubmit(n)
         \/ MarkDisrupted(n) \/ AutoSubmit(n)
  PROVE  StepForms
<1> DEFINE r == att[n]
<1>1. /\ RowInv(r, exam.closeAt) /\ exam.closeAt \in OptTime
      /\ CoreInv /\ EnvInv
  BY DEF IInv, CoreInv, Attempts, ExamRow
<1>2. ASSUME NEW t \in AttemptTimes(n), ReconcileExpired(n, r, t), exam' = exam
      PROVE  StepForms
  BY <1>1, <1>2, ReconcileForms, AttemptTimeNat, CarriesSelf DEF ReconcileExpired
<1>3. \A t \in AttemptTimes(n) : t \in Nat /\ t <= now /\ t \in OptTime
  BY <1>1, AttemptTimeNat DEF OptTime
<1>4. CASE Take(n)
  BY <1>2, <1>4 DEF Take
<1>5. CASE SaveAnswer(n)
  <2>1. PICK t \in AttemptTimes(n) :
          \/ ReconcileExpired(n, r, t)
          \/ Live(n, t) /\ att' = [att EXCEPT ![n] = Saved(@, t)] /\ UNCHANGED enr
    BY <1>5 DEF SaveAnswer
  <2>2. exam' = exam
    BY <1>5 DEF SaveAnswer
  <2>3. CASE ReconcileExpired(n, r, t)
    BY <1>2, <2>2, <2>3
  <2>4. CASE Live(n, t) /\ att' = [att EXCEPT ![n] = Saved(@, t)] /\ UNCHANGED enr
    <3>1. r.status \in Active /\ att' = [att EXCEPT ![n] = Saved(r, t)]
      BY <2>4, <1>1 DEF Live, CoreInv
    <3>2. /\ RowInv(Saved(r, t), exam.closeAt) /\ Saved(r, t).status \in Active
          /\ Carries(r, Saved(r, t)) /\ Proceeds(r, Saved(r, t))
      BY <1>1, <1>3, <3>1, SavedRow
    <3> QED
      BY <2>2, <2>4, <3>1, <3>2, ActiveWrite
  <2> QED
    BY <2>1, <2>3, <2>4
<1>6. CASE SubmitAttempt(n)
  <2>1. PICK t \in AttemptTimes(n) :
          \/ ReconcileExpired(n, r, t)
          \/ Live(n, t) /\ SubmitAndGrade(n, r, t, "manual", t)
    BY <1>6 DEF SubmitAttempt
  <2>2. exam' = exam
    BY <1>6 DEF SubmitAttempt
  <2> QED
    BY <1>1, <1>2, <1>3, <2>1, <2>2, SubmitForms, CarriesSelf DEF Live
<1>7. CASE Heartbeat(n)
  <2>1. PICK t \in AttemptTimes(n) : att' = [att EXCEPT ![n].lastActivityAt = t]
    BY <1>7 DEF Heartbeat
  <2>2. r.status \in Active /\ UNCHANGED <<enr, exam>>
    BY <1>7 DEF Heartbeat, Active
  <2> DEFINE s == [r EXCEPT !.lastActivityAt = t]
  <2>3. /\ RowInv(s, exam.closeAt) /\ s.status \in Active /\ Carries(r, s)
        /\ Proceeds(r, s)
    BY <1>1, <1>3, <2>2, HeartbeatRow, UntouchedProceeds
  <2>4. att' = [att EXCEPT ![n] = s]
    BY <1>1, <2>1 DEF CoreInv
  <2> HIDE DEF s
  <2> QED
    BY <2>2, <2>3, <2>4, ActiveWrite
<1>8. CASE RestoreAttempt(n)
  BY <1>3, <1>8, RestoreForms DEF RestoreAttempt
<1>9. CASE GrantTime(n)
  <2>1. PICK t \in AttemptTimes(n) :
          \/ ReconcileExpired(n, r, t)
          \/ \E added \in GrantSizes :
               /\ Live(n, t) /\ r.deadlineAt # None /\ exam.closeAt # None
               /\ r.deadlineAt + added <= exam.closeAt
               /\ att' = [att EXCEPT ![n] = Granted(@, added)] /\ UNCHANGED enr
    BY <1>9 DEF GrantTime
  <2>2. exam' = exam /\ InterruptionPolicy = "operator_incident"
    BY <1>9 DEF GrantTime
  <2>3. CASE ReconcileExpired(n, r, t)
    BY <1>2, <2>2, <2>3
  <2>4. ASSUME NEW added \in GrantSizes, Live(n, t), r.deadlineAt # None,
               exam.closeAt # None, r.deadlineAt + added <= exam.closeAt,
               att' = [att EXCEPT ![n] = Granted(@, added)], UNCHANGED enr
        PROVE  StepForms
    <3>1. /\ r.status \in Active /\ att' = [att EXCEPT ![n] = Granted(r, added)]
          /\ added \in Nat /\ exam.closeAt \in Nat
      BY <2>4, <1>1, InputAssumption DEF Live, CoreInv, OptTime
    <3>2. /\ RowInv(Granted(r, added), exam.closeAt) /\ Granted(r, added).status \in Active
          /\ Carries(r, Granted(r, added)) /\ Proceeds(r, Granted(r, added))
      BY <1>1, <2>2, <2>4, <3>1, GrantedRow, UntouchedProceeds
    <3> QED
      BY <2>2, <2>4, <3>1, <3>2, ActiveWrite
  <2> QED
    BY <2>1, <2>3, <2>4
<1>10. CASE ForceSubmit(n)
  BY <1>1, <1>3, <1>10, SubmitForms, CarriesSelf DEF ForceSubmit
<1>11. CASE MarkDisrupted(n)
  <2>1. n \in hb.todo /\ UNCHANGED <<enr, exam>>
    BY <1>11 DEF MarkDisrupted
  <2>2. hb.tick \in Nat
    BY <1>1, <2>1 DEF EnvInv, ScansTimed, Scan, OptTime
  <2>3. CASE Stale(r, hb.tick) /\ att' = [att EXCEPT ![n] = Disrupted(@, hb.tick)]
    <3>1. /\ r.status = "in_progress" /\ r.status \in Active
          /\ att' = [att EXCEPT ![n] = Disrupted(r, hb.tick)]
      BY <1>1, <2>3 DEF Stale, Active, CoreInv
    <3>2. /\ RowInv(Disrupted(r, hb.tick), exam.closeAt)
          /\ Disrupted(r, hb.tick).status \in Active
          /\ Carries(r, Disrupted(r, hb.tick)) /\ Proceeds(r, Disrupted(r, hb.tick))
      BY <1>1, <2>2, <3>1, DisruptedRow, UntouchedProceeds DEF Active
    <3> QED
      BY <2>1, <3>1, <3>2, ActiveWrite
  <2>4. CASE UNCHANGED att
    BY <1>1, <2>1, <2>4 DEF StepForms, IdleStep, CoreInv, NoLater
  <2> QED
    BY <1>11, <2>3, <2>4 DEF MarkDisrupted
<1>12. CASE AutoSubmit(n)
  <2>1. exam' = exam /\ n \in ds.todo
    BY <1>12 DEF AutoSubmit
  <2>2. ds.tick \in Nat /\ ds.tick \in OptTime /\ ds.tick <= now
    BY <1>1, <2>1, NoneAssumption
       DEF EnvInv, ScansTimed, Scan, OptTime, IInv, ReadsInv, TimesPast
  <2>3. CASE /\ r.status \in Active /\ Expired(exam.closeAt, r, ds.tick)
             /\ SubmitAndGrade(n, r, ds.tick, "deadline", ds.tick)
    BY <1>1, <2>1, <2>3, <2>2, SubmitForms, CarriesSelf
  <2>4. CASE UNCHANGED <<enr, att>>
    BY <1>1, <2>1, <2>4 DEF StepForms, IdleStep, CoreInv, NoLater
  <2> QED
    BY <1>12, <2>3, <2>4 DEF AutoSubmit
<1> QED
  BY <1>4, <1>5, <1>6, <1>7, <1>8, <1>9, <1>10, <1>11, <1>12

\* The start request, both parts.
LEMMA StartForms ==
  ASSUME IInv, NEW tab \in Tabs, StartBegin(tab) \/ StartCommit(tab)
  PROVE  StepForms
<1>1. CASE StartBegin(tab)
  <2>1. PICK t \in RequestTimes : exam' = ReconciledExam(exam, t)
    BY <1>1 DEF StartBegin
  <2>2. exam' \in ExamRow /\ exam'.closeAt = exam.closeAt
    BY <2>1, ReconciledExamRow DEF IInv, CoreInv
  <2> QED
    BY <1>1, <2>2 DEF StepForms, IdleStep, StartBegin, NoLater
<1>2. CASE StartCommit(tab)
  <2> DEFINE s == starting[tab]
  <2>1. /\ s.at \in Nat /\ s.closeAt \in OptTime /\ exam' = exam
        /\ s.at <= now /\ NoLater(s.closeAt, exam.closeAt)
    BY <1>2 DEF StartCommit, IInv, EnvInv, StartRead, Time, ReadsInv, TimesPast,
                ReadsBehind
  <2>2. CASE UNCHANGED <<enr, att>>
    BY <2>1, <2>2 DEF StepForms, IdleStep, IInv, CoreInv, NoLater
  <2>3. CASE \E n \in AttemptNos : RestoreInterrupted(n, s.at)
    BY <2>1, <2>3, RestoreForms
  <2>4. CASE /\ \A n \in AttemptNos : att[n].status \notin Active
             /\ CanCreateAttempt(s)
             /\ att' = [att EXCEPT ![enr.attemptCount + 1] = NewAttempt(s.at)]
             /\ enr' = [enr EXCEPT !.status = "started", !.attemptCount = @ + 1]
    <3>1. /\ enr.attemptCount < AttemptBound
          /\ RetakePolicy = "max_attempts" => enr.attemptCount < MaxAttempts
          /\ CanTransition(enr.status, "started")
      BY <2>4 DEF CanCreateAttempt
    <3>2. RowInv(NewAttempt(s.at), s.closeAt) /\ NewAttempt(s.at).startedAt = s.at
      BY <2>1, NewAttemptRow
    <3>3. Submittable(NewAttempt(s.at), s.closeAt)
      BY <2>4, <3>2 DEF CanCreateAttempt, Submittable
    <3>4. Submittable(NewAttempt(s.at), exam.closeAt)
      BY <2>1, <3>2, <3>3, SubmittableLater, CarriesSelf
    <3>5. CreateStep
      BY <2>1, <2>4, <3>1, <3>4 DEF CreateStep
    <3> QED
      BY <3>5 DEF StepForms
  <2> QED
    BY <1>2, <2>2, <2>3, <2>4 DEF StartCommit
<1> QED
  BY <1>1, <1>2

\* The graders.
LEMMA GraderForms ==
  ASSUME IInv, NEW g \in Graders,
         \/ GradeBegin(g) \/ GradeRejected(g)
         \/ \E n \in AttemptNos : GradeQuestion(g, n)
  PROVE  StepForms
<1>1. CASE GradeBegin(g) \/ GradeRejected(g)
  BY <1>1 DEF GradeBegin, GradeRejected, StepForms, IdleStep, IInv, CoreInv, NoLater
<1>2. ASSUME NEW n \in AttemptNos, GradeQuestion(g, n)
      PROVE  StepForms
  <2> DEFINE r == att[n]
             q == grading[g]
  <2>1. /\ r.status = "submitted" /\ RowInv(r, exam.closeAt) /\ exam' = exam
        /\ r.status \notin {"none", "graded"} /\ r.status \notin Active
        /\ att \in [AttemptNos -> AttemptRow]
    BY <1>2 DEF GradeQuestion, IInv, CoreInv, Attempts, Active
  <2>2. /\ q.at \in Nat /\ q.at \in OptTime /\ q.at <= now
        /\ NeverExtended => q.closeAt = CloseAt
    BY <1>2 DEF GradeQuestion, IInv, EnvInv, GradeRead, Time, OptTime, ReadsInv,
                TimesPast, ClosingFixed
  <2>3. CASE /\ r.pendingEntries > 1
             /\ att' = [att EXCEPT ![n].pendingEntries = @ - 1]
             /\ UNCHANGED enr
    <3> DEFINE s == [r EXCEPT !.pendingEntries = @ - 1]
    <3>1. /\ RowInv(s, exam.closeAt) /\ s.status = "submitted" /\ SubmissionKept(r, s)
          /\ Carries(r, s) /\ Proceeds(r, s) /\ (AwaitsManual(r) => AwaitsManual(s))
      BY <2>1, <2>3, EntryRow, UntouchedProceeds
    <3>2. att' = [att EXCEPT ![n] = s]
      BY <2>1, <2>3
    <3> HIDE DEF s
    <3>3. Rewrites(r, s)
      BY <3>1 DEF Rewrites, Carries
    <3>4. RowStep
      BY <2>1, <2>3, <3>1, <3>2, <3>3 DEF RowStep, Active
    <3> QED
      BY <3>4 DEF StepForms
  <2>4. CASE \E score \in Scores :
               /\ CanFinalize(enr, q.closeAt, score, q.at)
               /\ att' = [att EXCEPT ![n] = Graded(@, score, q.at)]
               /\ enr' = Finalized(enr, n, q.closeAt, score, q.at)
    <3>1. PICK score \in Scores :
               /\ CanFinalize(enr, q.closeAt, score, q.at)
               /\ att' = [att EXCEPT ![n] = Graded(@, score, q.at)]
               /\ enr' = Finalized(enr, n, q.closeAt, score, q.at)
      BY <2>4
    <3> DEFINE s == Graded(r, score, q.at)
    <3>2. score \in Nat /\ att' = [att EXCEPT ![n] = s]
      BY <2>1, <3>1, InputAssumption
    <3>3. /\ RowInv(s, exam.closeAt) /\ s.status = "graded" /\ s.score = score
          /\ SubmissionKept(r, s) /\ Carries(r, s) /\ s.answers = r.answers
      BY <2>1, <2>2, <3>2, GradedRow
    <3> HIDE DEF s
    <3>4. Rewrites(r, s)
      BY <3>3 DEF Rewrites, Carries, AwaitsManual, Proceeds
    <3>5. GradeStep
      BY <2>1, <2>2, <3>1, <3>2, <3>3, <3>4 DEF GradeStep, Grades
    <3> QED
      BY <3>5 DEF StepForms
  <2> QED
    BY <1>2, <2>3, <2>4 DEF GradeQuestion
<1> QED
  BY <1>1, <1>2

\* The administrator's commands change the exam only.
LEMMA AdminForms ==
  ASSUME IInv,
         \/ ExtendExam \/ CloseExam \/ CancelExam \/ ArchiveExam
         \/ PublishResults \/ ReconcileExam
  PROVE  StepForms
<1>1. exam \in ExamRow
  BY DEF IInv, CoreInv
<1>2. \A t : /\ AdminExam(t) \in ExamRow /\ AdminExam(t).closeAt = exam.closeAt
             /\ ReconciledExam(exam, t) \in ExamRow
             /\ ReconciledExam(exam, t).closeAt = exam.closeAt
  BY <1>1, ReconciledExamRow DEF AdminExam
<1>3. CASE ExtendExam
  <2>1. PICK t \in RequestTimes, minutes \in ExtendSizes :
          /\ AdminExam(t).closeAt # None
          /\ exam' = [AdminExam(t) EXCEPT !.closeAt = @ + minutes]
    BY <1>3 DEF ExtendExam
  <2>2. minutes \in Nat /\ exam.closeAt \in Nat
    BY <1>1, <1>2, <2>1, InputAssumption DEF ExamRow, OptTime
  <2>3. exam.closeAt + minutes \in OptTime
    BY <2>2 DEF OptTime
  <2>4. exam' \in ExamRow /\ exam'.closeAt = exam.closeAt + minutes
    BY <1>2, <2>1, <2>3 DEF ExamRow
  <2>5. NoLater(exam.closeAt, exam'.closeAt) /\ ~ NeverExtended
    BY <1>3, <2>2, <2>4, NoneAssumption
       DEF NoLater, NeverExtended, ExtendExam, IInv, CoreInv, ClosingKnown
  <2> QED
    BY <1>3, <2>4, <2>5 DEF StepForms, IdleStep, ExtendExam
<1>4. CASE CloseExam \/ CancelExam \/ ArchiveExam
  <2>1. PICK t : \/ exam' = [AdminExam(t) EXCEPT !.status = "closed"]
                 \/ exam' = [AdminExam(t) EXCEPT !.status = "canceled"]
                 \/ exam' = [AdminExam(t) EXCEPT !.status = "archived"]
    BY <1>4 DEF CloseExam, CancelExam, ArchiveExam
  <2>2. exam' \in ExamRow /\ exam'.closeAt = exam.closeAt
    BY <1>2, <2>1 DEF ExamRow
  <2> QED
    BY <1>4, <2>2 DEF StepForms, IdleStep, CloseExam, CancelExam, ArchiveExam, NoLater
<1>5. CASE PublishResults
  <2>1. exam' \in ExamRow /\ exam'.closeAt = exam.closeAt
    BY <1>1, <1>5 DEF PublishResults, ExamRow
  <2> QED
    BY <1>5, <2>1 DEF StepForms, IdleStep, PublishResults, NoLater
<1>6. CASE ReconcileExam
  BY <1>2, <1>6 DEF ReconcileExam, StepForms, IdleStep, NoLater
<1> QED
  BY <1>3, <1>4, <1>5, <1>6

\* Every step has one of the four forms.
LEMMA NextForms ==
  ASSUME IInv, [Next]_vars
  PROVE  StepForms
<1>1. exam \in ExamRow
  BY DEF IInv, CoreInv
<1>2. CASE Tick \/ Crash \/ HeartbeatScan \/ DeadlineScan \/ UNCHANGED vars
  BY <1>1, <1>2 DEF Tick, Crash, HeartbeatScan, DeadlineScan, DeadlineScanAt,
                    vars, StepForms, IdleStep, NoLater
<1> QED
  BY <1>2, AttemptForms, StartForms, GraderForms, AdminForms DEF Next

-----------------------------------------------------------------------------
(***************************************************************************)
(* The forms keep the invariant.                                           *)
(***************************************************************************)

\* Rewriting one attempt in use keeps the rows consistent, their number, and
\* the uniqueness of the active one.
LEMMA RowWritten ==
  ASSUME CoreInv, NEW n \in AttemptNos, NEW s,
         att[n].status # "none", RowInv(s, exam.closeAt), s.status # "none",
         s.status \in Active => att[n].status \in Active,
         att' = [att EXCEPT ![n] = s], exam' = exam,
         enr'.attemptCount = enr.attemptCount
  PROVE  /\ exam' \in ExamRow /\ ClosingKnown'
         /\ att' \in [AttemptNos -> AttemptRow]
         /\ Attempts' /\ RowsCounted' /\ OneActiveAttempt' /\ CountBounded'
<1>1. s \in AttemptRow /\ att \in [AttemptNos -> AttemptRow]
  BY DEF RowInv, CoreInv
<1>2. att' \in [AttemptNos -> AttemptRow] /\ att'[n] = s
      /\ \A m \in AttemptNos \ {n} : att'[m] = att[m]
  BY <1>1
<1>3. Attempts'
  BY <1>2 DEF Attempts, CoreInv
<1>4. RowsCounted'
  BY <1>2 DEF RowsCounted, CoreInv
<1>5. OneActiveAttempt'
  BY <1>2 DEF OneActiveAttempt, CoreInv
<1> QED
  BY <1>2, <1>3, <1>4, <1>5 DEF CoreInv, ClosingKnown, CountBounded

\* A step that touches no attempt and leaves the enrollment alone (clock, admin,
\* scan lists, refused requests) keeps the core invariant.
LEMMA IdleKeeps == CoreInv /\ IdleStep => CoreInv'
<1> SUFFICES ASSUME CoreInv, IdleStep PROVE CoreInv'
  OBVIOUS
<1>1. ClosingKnown'
  BY NoneAssumption DEF CoreInv, IdleStep, ClosingKnown, NoLater
<1>2. Attempts'
  BY LaterClosing DEF CoreInv, IdleStep, Attempts
<1>3. UNCHANGED <<enr, att>> /\ exam' \in ExamRow
  BY DEF IdleStep
<1> QED
  BY <1>1, <1>2, <1>3 DEF CoreInv, CountBounded, RowsCounted, OneActiveAttempt,
     ResultsKnown, FinalResultIsGraded, HighestIsMax

\* A step that rewrites one attempt row without grading it (save, disrupt,
\* restore, grant, submit for manual grading) keeps the core invariant.
LEMMA RowKeeps == CoreInv /\ RowStep => CoreInv'
<1> SUFFICES ASSUME CoreInv, RowStep PROVE CoreInv'
  OBVIOUS
<1>1. PICK n \in AttemptNos : \E s :
        /\ att[n].status \notin {"none", "graded"}
        /\ RowInv(s, exam.closeAt)
        /\ s.status \notin {"none", "graded"}
        /\ s.status \in Active => att[n].status \in Active
        /\ att' = [att EXCEPT ![n] = s]
        /\ UNCHANGED <<enr, exam>>
  BY DEF RowStep
<1>2. PICK s :
        /\ att[n].status \notin {"none", "graded"}
        /\ RowInv(s, exam.closeAt)
        /\ s.status \notin {"none", "graded"}
        /\ s.status \in Active => att[n].status \in Active
        /\ att' = [att EXCEPT ![n] = s]
        /\ UNCHANGED <<enr, exam>>
  BY <1>1
<1>3. /\ exam' \in ExamRow /\ ClosingKnown'
      /\ att' \in [AttemptNos -> AttemptRow]
      /\ Attempts' /\ RowsCounted' /\ OneActiveAttempt' /\ CountBounded'
  BY <1>2, RowWritten
<1>4. /\ \A m \in AttemptNos \ {n} : att'[m] = att[m]
      /\ att'[n].status # "graded" /\ att[n].status # "graded"
  BY <1>2 DEF CoreInv
<1>5. ResultsKnown' /\ FinalResultIsGraded' /\ HighestIsMax'
  BY <1>2, <1>4 DEF CoreInv, ResultsKnown, FinalResultIsGraded, HighestIsMax
<1> QED
  BY <1>2, <1>3, <1>5 DEF CoreInv

\* The enrollment projection of a graded attempt.
LEMMA FinalizedRow ==
  ASSUME NEW e \in EnrollmentRow, NEW n \in AttemptNos, NEW c, NEW t,
         NEW score \in Nat
  PROVE  LET f == Finalized(e, n, c, score, t) IN
         /\ f \in EnrollmentRow
         /\ f.attemptCount = e.attemptCount
         /\ f.status = TargetStatus(e, c, score, t)
         /\ ShouldSelectAttempt(e, score) =>
              /\ f.finalAttempt = n /\ f.finalScore = score
              /\ f.finalPassed = Passed(score)
         /\ ~ ShouldSelectAttempt(e, score) =>
              /\ f.finalAttempt = e.finalAttempt /\ f.finalScore = e.finalScore
              /\ f.finalPassed = e.finalPassed
<1>1. TargetStatus(e, c, score, t) \in {"assigned", "started", "completed", "blocked"}
  BY DEF TargetStatus
<1>2. n \in OptTime /\ score \in OptTime
  BY BoundAssumption DEF OptTime, AttemptNos
<1>3. Passed(score) \in BOOLEAN \cup {None}
  BY DEF Passed
<1> QED
  BY <1>1, <1>2, <1>3 DEF Finalized, EnrollmentRow

\* A step that grades one attempt and projects its score on the enrollment
\* (finalizeTerminalGrading) keeps the core invariant.
LEMMA GradeKeeps == CoreInv /\ GradeStep => CoreInv'
<1> SUFFICES ASSUME CoreInv, GradeStep PROVE CoreInv'
  OBVIOUS
<1>1. PICK n \in AttemptNos : \E s, c, t : \E score \in Nat : Grades(n, s, c, t, score)
  BY DEF GradeStep
<1>2. PICK s, c, t : \E score \in Nat : Grades(n, s, c, t, score)
  BY <1>1
<1>3. PICK score \in Nat : Grades(n, s, c, t, score)
  BY <1>2
<1>4. enr \in EnrollmentRow
  BY DEF CoreInv
<1>5. /\ enr' \in EnrollmentRow
      /\ enr'.attemptCount = enr.attemptCount
      /\ ShouldSelectAttempt(enr, score) =>
           /\ enr'.finalAttempt = n /\ enr'.finalScore = score
           /\ enr'.finalPassed = Passed(score)
      /\ ~ ShouldSelectAttempt(enr, score) =>
           /\ enr'.finalAttempt = enr.finalAttempt /\ enr'.finalScore = enr.finalScore
           /\ enr'.finalPassed = enr.finalPassed
  BY <1>3, <1>4, FinalizedRow DEF Grades
<1>6. /\ exam' \in ExamRow /\ ClosingKnown'
      /\ att' \in [AttemptNos -> AttemptRow]
      /\ Attempts' /\ RowsCounted' /\ OneActiveAttempt' /\ CountBounded'
  BY <1>3, <1>5, RowWritten DEF Active, Grades
<1>7. /\ \A m \in AttemptNos \ {n} : att'[m] = att[m]
      /\ att'[n].status = "graded" /\ att[n].status # "graded"
      /\ att'[n].score = score
  BY <1>3 DEF CoreInv, Grades
<1>8. None \notin AttemptNos
  BY NoneAssumption DEF AttemptNos
<1>9. ResultsKnown'
  BY <1>5, <1>7 DEF CoreInv, ResultsKnown
<1>10. ~ ShouldSelectAttempt(enr, score) =>
        enr.finalAttempt \in AttemptNos \ {n}
  BY <1>7 DEF CoreInv, ResultsKnown, FinalResultIsGraded, ShouldSelectAttempt
<1>11. FinalResultIsGraded'
  <2>1. CASE ShouldSelectAttempt(enr, score)
    BY <1>5, <1>7, <1>8, <2>1 DEF FinalResultIsGraded, Passed
  <2>2. CASE ~ ShouldSelectAttempt(enr, score)
    BY <1>5, <1>7, <1>8, <1>10, <2>2 DEF FinalResultIsGraded, CoreInv, Passed
  <2> QED
    BY <2>1, <2>2
<1>12. HighestIsMax'
  <2> SUFFICES ASSUME ScoreStrategy = "highest", NEW m \in AttemptNos,
                      att'[m].status = "graded"
               PROVE  enr'.finalScore >= att'[m].score
    BY DEF HighestIsMax
  <2>1. m # n => /\ att[m].status = "graded" /\ att'[m].score = att[m].score
                 /\ att[m].score \in Nat /\ enr.finalScore >= att[m].score
                 /\ enr.finalAttempt # None
    BY <1>7 DEF CoreInv, ResultsKnown, HighestIsMax, FinalResultIsGraded
  <2>2. enr.finalAttempt # None => enr.finalScore \in Nat
    BY DEF CoreInv, ResultsKnown, FinalResultIsGraded
  <2>3. CASE ShouldSelectAttempt(enr, score)
    BY <1>5, <1>7, <2>1, <2>2, <2>3 DEF ShouldSelectAttempt
  <2>4. CASE ~ ShouldSelectAttempt(enr, score)
    BY <1>5, <1>7, <2>1, <2>2, <2>4 DEF ShouldSelectAttempt
  <2> QED
    BY <2>3, <2>4
<1> QED
  BY <1>5, <1>6, <1>9, <1>11, <1>12 DEF CoreInv

\* The step that inserts the next attempt (StartCommit) keeps the core invariant.
LEMMA CreateKeeps == CoreInv /\ CreateStep => CoreInv'
<1> SUFFICES ASSUME CoreInv, CreateStep PROVE CoreInv'
  OBVIOUS
<1> DEFINE k == enr.attemptCount + 1
<1>1. PICK t \in Nat :
        /\ \A n \in AttemptNos : att[n].status \notin Active
        /\ enr.attemptCount < AttemptBound
        /\ RetakePolicy = "max_attempts" => enr.attemptCount < MaxAttempts
        /\ att' = [att EXCEPT ![k] = NewAttempt(t)]
        /\ enr' = [enr EXCEPT !.status = "started", !.attemptCount = @ + 1]
        /\ exam' = exam
  BY DEF CreateStep
<1>2. enr.attemptCount \in Nat /\ k \in AttemptNos /\ k \in Nat
  BY <1>1, BoundAssumption DEF CoreInv, EnrollmentRow, AttemptNos
<1>3. RowInv(NewAttempt(t), exam.closeAt) /\ NewAttempt(t).status = "in_progress"
  BY NewAttemptRow
<1>4. /\ enr' \in EnrollmentRow /\ enr'.attemptCount = k
      /\ enr'.finalAttempt = enr.finalAttempt /\ enr'.finalScore = enr.finalScore
      /\ enr'.finalPassed = enr.finalPassed
  BY <1>1, <1>2 DEF CoreInv, EnrollmentRow
<1>5. /\ att' \in [AttemptNos -> AttemptRow] /\ att'[k] = NewAttempt(t)
      /\ \A m \in AttemptNos \ {k} : att'[m] = att[m]
  BY <1>1, <1>2, <1>3 DEF CoreInv, RowInv
<1>6. Attempts'
  BY <1>1, <1>3, <1>5 DEF Attempts, CoreInv
<1>7. \A m \in AttemptNos : m \in Nat
  BY DEF AttemptNos
<1>8. RowsCounted'
  BY <1>2, <1>3, <1>4, <1>5, <1>7 DEF RowsCounted, CoreInv
<1>9. OneActiveAttempt'
  BY <1>1, <1>5 DEF OneActiveAttempt
<1>10. CountBounded'
  BY <1>1, <1>2, <1>4, BoundAssumption, PolicyAssumption DEF CountBounded
<1>11. att[k].status # "graded" /\ att'[k].status # "graded"
  BY <1>2, <1>3, <1>5 DEF CoreInv, RowsCounted
<1>12. ResultsKnown' /\ FinalResultIsGraded' /\ HighestIsMax'
  BY <1>4, <1>5, <1>11 DEF CoreInv, ResultsKnown, FinalResultIsGraded, HighestIsMax
<1> QED
  BY <1>1, <1>4, <1>5, <1>6, <1>8, <1>9, <1>10, <1>12 DEF CoreInv, ClosingKnown

\* The processes around the database: requests and scans keep their types.
LEMMA EnvKeeps == IInv /\ [Next]_vars => EnvInv'
<1> SUFFICES ASSUME IInv, [Next]_vars PROVE EnvInv'
  OBVIOUS
<1> USE DEF IInv, EnvInv, ScansTimed
<1>1. AttemptNos \subseteq Nat /\ IdleScan \in Scan
      /\ IdleScan.tick = None /\ IdleScan.todo = {}
  BY DEF AttemptNos, IdleScan, Scan, OptTime
<1>2. \A t \in RequestTimes : t \in Nat
  BY RequestTimeNat
<1>3. exam \in ExamRow
  BY DEF CoreInv
<1>4. CASE Tick
  BY <1>4 DEF Tick
<1>5. CASE Crash
  BY <1>1, <1>5 DEF Crash
<1>6. ASSUME NEW tab \in Tabs, StartBegin(tab)
      PROVE  EnvInv'
  <2>1. PICK t \in RequestTimes :
          starting' = [starting EXCEPT ![tab] =
             [at |-> t, closeAt |-> ReconciledExam(exam, t).closeAt,
              resultsPublished |-> ReconciledExam(exam, t).resultsPublished]]
    BY <1>6 DEF StartBegin
  <2>2. ReconciledExam(exam, t) \in ExamRow
    BY <1>3, ReconciledExamRow
  <2>3. starting' \in [Tabs -> StartRead \cup {None}]
    BY <1>2, <2>1, <2>2 DEF StartRead, ExamRow, Time
  <2> QED
    BY <1>6, <2>3 DEF StartBegin
<1>7. ASSUME NEW tab \in Tabs, StartCommit(tab)
      PROVE  EnvInv'
  BY <1>7 DEF StartCommit
<1>8. ASSUME NEW n \in AttemptNos,
             \/ Take(n) \/ SaveAnswer(n) \/ SubmitAttempt(n) \/ Heartbeat(n)
             \/ RestoreAttempt(n) \/ GrantTime(n) \/ ForceSubmit(n)
      PROVE  EnvInv'
  BY <1>8 DEF Take, SaveAnswer, SubmitAttempt, Heartbeat, RestoreAttempt,
              GrantTime, ForceSubmit
<1>9. \A scan \in Scan : \A n : (scan.tick = None => scan.todo = {}) =>
        /\ AfterVisit(scan, n) \in Scan
        /\ AfterVisit(scan, n).tick = None => AfterVisit(scan, n).todo = {}
  BY <1>1 DEF AfterVisit, Scan
<1>10. ASSUME NEW n \in AttemptNos, MarkDisrupted(n) \/ AutoSubmit(n)
       PROVE  EnvInv'
  BY <1>9, <1>10 DEF MarkDisrupted, AutoSubmit
<1>11. ASSUME NEW g \in Graders, GradeBegin(g)
       PROVE  EnvInv'
  <2>1. PICK t \in RequestTimes :
          grading' = [grading EXCEPT ![g] = [at |-> t, closeAt |-> exam.closeAt]]
    BY <1>11 DEF GradeBegin
  <2>2. grading' \in [Graders -> GradeRead \cup {None}]
    BY <1>2, <1>3, <2>1 DEF GradeRead, ExamRow, Time
  <2> QED
    BY <1>11, <2>2 DEF GradeBegin
<1>12. ASSUME NEW g \in Graders,
              GradeRejected(g) \/ \E n \in AttemptNos : GradeQuestion(g, n)
       PROVE  EnvInv'
  BY <1>12 DEF GradeRejected, GradeQuestion
<1>13. CASE ExtendExam \/ CloseExam \/ CancelExam \/ ArchiveExam
            \/ PublishResults \/ ReconcileExam
  BY <1>13 DEF ExtendExam, CloseExam, CancelExam, ArchiveExam, PublishResults,
               ReconcileExam
<1>14. CASE HeartbeatScan
  <2>1. PICK t \in RequestTimes, todo \in SUBSET AttemptNos :
          hb' = [tick |-> t, todo |-> todo]
    BY <1>14 DEF HeartbeatScan
  <2>2. t \in OptTime /\ t # None /\ todo \in SUBSET Nat
    <3>1. t \in Nat
      BY <1>2
    <3>2. t \in OptTime /\ t # None
      BY <3>1, NoneAssumption DEF OptTime
    <3>3. todo \in SUBSET Nat
      BY <1>1, Zenon
    <3> QED
      BY <3>2, <3>3
  <2>3. hb' \in Scan /\ hb'.tick # None
    BY <2>1, <2>2 DEF Scan
  <2> QED
    BY <1>14, <2>3 DEF HeartbeatScan
<1>15. CASE DeadlineScan
  <2>1. PICK t \in RequestTimes, todo \in SUBSET AttemptNos :
          ds' = [tick |-> t, todo |-> todo]
    BY <1>15 DEF DeadlineScan, DeadlineScanAt
  <2>2. t \in OptTime /\ t # None /\ todo \in SUBSET Nat
    <3>1. t \in Nat
      BY <1>2
    <3>2. t \in OptTime /\ t # None
      BY <3>1, NoneAssumption DEF OptTime
    <3>3. todo \in SUBSET Nat
      BY <1>1, Zenon
    <3> QED
      BY <3>2, <3>3
  <2>3. ds' \in Scan /\ ds'.tick # None
    BY <2>1, <2>2 DEF Scan
  <2> QED
    BY <1>15, <2>3 DEF DeadlineScan, DeadlineScanAt
<1>16. CASE UNCHANGED vars
  BY <1>16 DEF vars
<1> QED
  BY <1>4, <1>5, <1>6, <1>7, <1>8, <1>10, <1>11, <1>12, <1>13, <1>14, <1>15,
     <1>16 DEF Next

\* What a step does to the clock and to what was read outside the locks.
ReadStep ==
  /\ now <= now'
  /\ \A tab \in Tabs :
       \/ starting'[tab] \in {None, starting[tab]}
       \/ starting'[tab].at <= now /\ starting'[tab].closeAt = exam.closeAt
  /\ \A g \in Graders :
       \/ grading'[g] \in {None, grading[g]}
       \/ grading'[g].at <= now /\ grading'[g].closeAt = exam.closeAt
  /\ ds'.tick \in {None, ds.tick} \/ ds'.tick <= now

\* The clock never goes back, and a request that reads the exam row or the
\* clock without a lock reads what is there.
LEMMA ReadForms ==
  ASSUME IInv, [Next]_vars
  PROVE  ReadStep
<1> USE DEF ReadStep
<1>1. /\ now \in Nat /\ ds \in Scan /\ IdleScan.tick = None
      /\ starting \in [Tabs -> StartRead \cup {None}]
      /\ grading \in [Graders -> GradeRead \cup {None}]
  BY DEF IInv, EnvInv, IdleScan
<1>2. \A t \in RequestTimes : t \in Nat /\ t <= now
  BY RequestTimeNat DEF IInv
<1>3. exam \in ExamRow
  BY DEF IInv, CoreInv
<1>4. CASE Tick \/ Crash
  BY <1>1, <1>4 DEF Tick, Crash
<1>5. ASSUME NEW tab \in Tabs, StartBegin(tab)
      PROVE  ReadStep
  <2>1. PICK t \in RequestTimes :
          starting' = [starting EXCEPT ![tab] =
             [at |-> t, closeAt |-> ReconciledExam(exam, t).closeAt,
              resultsPublished |-> ReconciledExam(exam, t).resultsPublished]]
    BY <1>5 DEF StartBegin
  <2>2. ReconciledExam(exam, t).closeAt = exam.closeAt
    BY <1>3, ReconciledExamRow
  <2> QED
    BY <1>1, <1>2, <1>5, <2>1, <2>2 DEF StartBegin
<1>6. ASSUME NEW tab \in Tabs, StartCommit(tab)
      PROVE  ReadStep
  BY <1>1, <1>6 DEF StartCommit
<1>7. ASSUME NEW n \in AttemptNos,
             \/ Take(n) \/ SaveAnswer(n) \/ SubmitAttempt(n) \/ Heartbeat(n)
             \/ RestoreAttempt(n) \/ GrantTime(n) \/ ForceSubmit(n)
             \/ MarkDisrupted(n)
      PROVE  ReadStep
  BY <1>1, <1>7 DEF Take, SaveAnswer, SubmitAttempt, Heartbeat, RestoreAttempt,
                    GrantTime, ForceSubmit, MarkDisrupted
<1>8. ASSUME NEW n \in AttemptNos, AutoSubmit(n)
      PROVE  ReadStep
  <2>1. ds'.tick \in {None, ds.tick}
    BY <1>1, <1>8 DEF AutoSubmit, AfterVisit, Scan
  <2> QED
    BY <1>1, <1>8, <2>1 DEF AutoSubmit
<1>9. ASSUME NEW g \in Graders, GradeBegin(g)
      PROVE  ReadStep
  BY <1>1, <1>2, <1>9 DEF GradeBegin
<1>10. ASSUME NEW g \in Graders,
              GradeRejected(g) \/ \E n \in AttemptNos : GradeQuestion(g, n)
       PROVE  ReadStep
  BY <1>1, <1>10 DEF GradeRejected, GradeQuestion
<1>11. CASE ExtendExam \/ CloseExam \/ CancelExam \/ ArchiveExam
            \/ PublishResults \/ ReconcileExam \/ HeartbeatScan
  BY <1>1, <1>11 DEF ExtendExam, CloseExam, CancelExam, ArchiveExam,
                     PublishResults, ReconcileExam, HeartbeatScan
<1>12. CASE DeadlineScan
  <2>1. PICK t \in RequestTimes : ds'.tick = t
    BY <1>12 DEF DeadlineScan, DeadlineScanAt
  <2> QED
    BY <1>1, <1>2, <1>12, <2>1 DEF DeadlineScan, DeadlineScanAt
<1>13. CASE UNCHANGED vars
  BY <1>1, <1>13 DEF vars
<1> QED
  BY <1>4, <1>5, <1>6, <1>7, <1>8, <1>9, <1>10, <1>11, <1>12, <1>13 DEF Next

\* Whatever a step does to the attempts, the closing time only moves later, and
\* not at all when nobody may extend the exam.
LEMMA ClosingMoves ==
  ASSUME StepForms
  PROVE  /\ NoLater(exam.closeAt, exam'.closeAt)
         /\ NeverExtended => exam'.closeAt = exam.closeAt
BY DEF StepForms, IdleStep, RowStep, GradeStep, Grades, CreateStep, NoLater

\* What was read outside the locks stays in the past and behind the exam row.
LEMMA ReadsKeeps ==
  ASSUME IInv, ReadStep, StepForms, now' \in Nat,
         starting' \in [Tabs -> StartRead \cup {None}],
         grading' \in [Graders -> GradeRead \cup {None}], ds' \in Scan
  PROVE  ReadsInv'
<1>1. /\ NoLater(exam.closeAt, exam'.closeAt) /\ now \in Nat /\ now <= now'
      /\ NeverExtended => exam'.closeAt = exam.closeAt
  BY ClosingMoves DEF IInv, EnvInv, ReadStep
<1>2. ASSUME NEW tab \in Tabs, starting'[tab] # None
      PROVE  /\ starting'[tab].at <= now'
             /\ NoLater(starting'[tab].closeAt, exam'.closeAt)
  <2>1. starting'[tab].at \in Nat
    BY <1>2 DEF StartRead, Time
  <2>2. starting'[tab].at <= now /\ NoLater(starting'[tab].closeAt, exam.closeAt)
    BY <1>2 DEF ReadStep, IInv, ReadsInv, TimesPast, ReadsBehind, NoLater
  <2> QED
    BY <1>1, <2>1, <2>2 DEF NoLater
<1>3. ASSUME NEW g \in Graders, grading'[g] # None
      PROVE  /\ grading'[g].at <= now'
             /\ NeverExtended => grading'[g].closeAt = CloseAt
  <2>1. grading'[g].at \in Nat
    BY <1>3 DEF GradeRead, Time
  <2>2. /\ grading'[g].at <= now
        /\ NeverExtended => grading'[g].closeAt = CloseAt
    BY <1>3 DEF ReadStep, IInv, ReadsInv, TimesPast, ClosingFixed
  <2> QED
    BY <1>1, <2>1, <2>2
<1>4. ds'.tick # None => ds'.tick <= now'
  <2>1. ds'.tick # None => ds'.tick \in Nat /\ ds'.tick <= now
    BY DEF ReadStep, IInv, ReadsInv, TimesPast, Scan, OptTime
  <2> QED
    BY <1>1, <2>1
<1>5. NeverExtended => exam'.closeAt = CloseAt
  BY <1>1 DEF IInv, ReadsInv, ClosingFixed
<1>6. TimesPast'
  BY <1>2, <1>3, <1>4 DEF TimesPast
<1>7. ReadsBehind'
  BY <1>2 DEF ReadsBehind
<1>8. ClosingFixed'
  BY <1>3, <1>5 DEF ClosingFixed, NeverExtended
<1> QED
  BY <1>6, <1>7, <1>8 DEF ReadsInv

\* The two row-wise parts of ResultInv.
LEMMA RowParts ==
  /\ SubmittedAwaitsManual <=> \A n \in AttemptNos : AwaitsManual(att[n])
  /\ SubmissionPossible <=> \A n \in AttemptNos : Submittable(att[n], exam.closeAt)
BY DEF SubmittedAwaitsManual, AwaitsManual, SubmissionPossible, Submittable

\* A completed enrollment only goes on to completed.
LEMMA CompletedStays ==
  \A to : CanTransition("completed", to) => to = "completed"
BY DEF CanTransition, EnrollmentTransitions

\* A step that leaves the enrollment and the graded attempts alone.
LEMMA EnrollmentUntouched ==
  ASSUME IInv, enr' = enr, now' \in Nat, now <= now',
         \A n \in AttemptNos : att'[n].status = "graded" => att'[n] = att[n]
  PROVE  PassCompletes' /\ CompletedForGood' /\ EnrollmentUsed'
<1>1. PassCompletes'
  BY DEF IInv, ResultInv, PassCompletes
<1>2. CompletedForGood'
  <2>1. CloseAt # None /\ now >= CloseAt => now' >= CloseAt
    BY TimingAssumption DEF IInv, EnvInv, OptTime
  <2> QED
    BY <2>1 DEF IInv, ResultInv, CompletedForGood, SteadyPolicy, NeverExtended
<1>3. EnrollmentUsed'
  BY DEF IInv, ResultInv, EnrollmentUsed
<1> QED
  BY <1>1, <1>2, <1>3

\* A rewrite of one row keeps the row-wise parts.
LEMMA RowPartsRewritten ==
  ASSUME IInv, NEW n \in AttemptNos, NEW s, Rewrites(att[n], s),
         s.status \in Active => att[n].status \in Active,
         att' = [att EXCEPT ![n] = s], exam' = exam
  PROVE  SubmittedAwaitsManual' /\ SubmissionPossible'
<1>1. /\ \A m \in AttemptNos : AwaitsManual(att[m])
      /\ \A m \in AttemptNos : Submittable(att[m], exam.closeAt)
  BY RowParts DEF IInv, ResultInv
<1>2. att'[n] = s /\ \A m \in AttemptNos \ {n} : att'[m] = att[m]
  BY DEF IInv, CoreInv
<1>3. AwaitsManual(s)
  BY <1>1 DEF Rewrites
<1>4. Submittable(s, exam.closeAt)
  <2>1. exam.closeAt \in OptTime /\ RowInv(att[n], exam.closeAt)
    BY DEF IInv, CoreInv, ExamRow, Attempts
  <2> DEFINE x == [startedAt |-> s.startedAt, deadlineAt |-> s.deadlineAt,
                   status |-> s.status,
                   submissionReason |-> att[n].submissionReason]
  <2>2. Carries(att[n], x)
    BY DEF Rewrites, Carries
  <2>3. Submittable(x, exam.closeAt)
    BY <1>1, <2>1, <2>2, SubmittableLater DEF NoLater
  <2> QED
    BY <2>3 DEF Submittable
<1>5. \A m \in AttemptNos : AwaitsManual(att'[m]) /\ Submittable(att'[m], exam.closeAt)
  BY <1>1, <1>2, <1>3, <1>4
<1> QED
  BY <1>5 DEF SubmittedAwaitsManual, AwaitsManual, SubmissionPossible, Submittable

\* The clock, the staff's commands on the exam, and refused requests.
LEMMA IdleResults ==
  ASSUME IInv, IdleStep, now' \in Nat, now <= now'
  PROVE  ResultInv'
<1>1. att' = att /\ enr' = enr
  BY DEF IdleStep
<1>2. PassCompletes' /\ CompletedForGood' /\ EnrollmentUsed'
  BY <1>1, EnrollmentUntouched
<1>3. SubmittedAwaitsManual'
  BY <1>1 DEF IInv, ResultInv, SubmittedAwaitsManual
<1>4. \A n \in AttemptNos : Submittable(att[n], exam'.closeAt)
  <2> TAKE n \in AttemptNos
  <2>1. /\ exam.closeAt \in OptTime /\ RowInv(att[n], exam.closeAt)
        /\ Submittable(att[n], exam.closeAt) /\ NoLater(exam.closeAt, exam'.closeAt)
    BY RowParts DEF IInv, CoreInv, ExamRow, Attempts, ResultInv, IdleStep
  <2> QED
    BY <2>1, SubmittableLater, CarriesSelf
<1>5. SubmissionPossible'
  BY <1>1, <1>4 DEF SubmissionPossible, Submittable
<1> QED
  BY <1>2, <1>3, <1>5 DEF ResultInv

\* Saves, interruptions, restores, grants, and submissions a person will grade.
LEMMA RowResults ==
  ASSUME IInv, RowStep, now' \in Nat, now <= now'
  PROVE  ResultInv'
<1>1. PICK n \in AttemptNos : \E s :
        /\ s.status \notin {"none", "graded"}
        /\ s.status \in Active => att[n].status \in Active
        /\ Rewrites(att[n], s)
        /\ att' = [att EXCEPT ![n] = s]
        /\ UNCHANGED <<enr, exam>>
  BY DEF RowStep
<1>2. PICK s :
        /\ s.status \notin {"none", "graded"}
        /\ s.status \in Active => att[n].status \in Active
        /\ Rewrites(att[n], s)
        /\ att' = [att EXCEPT ![n] = s]
        /\ UNCHANGED <<enr, exam>>
  BY <1>1
<1>3. \A m \in AttemptNos : att'[m].status = "graded" => att'[m] = att[m]
  BY <1>2 DEF IInv, CoreInv
<1> QED
  BY <1>2, <1>3, EnrollmentUntouched, RowPartsRewritten DEF ResultInv

\* Grading: the only step that completes an enrollment.
LEMMA GradeResults ==
  ASSUME IInv, GradeStep, now' \in Nat, now <= now'
  PROVE  ResultInv'
<1>1. PICK n \in AttemptNos : \E s, c, t : \E score \in Nat : Grades(n, s, c, t, score)
  BY DEF GradeStep
<1>2. PICK s, c, t : \E score \in Nat : Grades(n, s, c, t, score)
  BY <1>1
<1>3. PICK score \in Nat : Grades(n, s, c, t, score)
  BY <1>2
<1> DEFINE chosen == ShouldSelectAttempt(enr, score)
<1>4. enr \in EnrollmentRow /\ enr.attemptCount \in Nat
  BY DEF IInv, CoreInv, EnrollmentRow
<1>5. /\ enr'.attemptCount = enr.attemptCount
      /\ enr'.status = TargetStatus(enr, c, score, t)
      /\ CanTransition(enr.status, enr'.status)
      /\ chosen => enr'.finalAttempt = n /\ enr'.finalPassed = Passed(score)
      /\ ~ chosen => /\ enr'.finalAttempt = enr.finalAttempt
                     /\ enr'.finalPassed = enr.finalPassed
  BY <1>3, <1>4, FinalizedRow DEF Grades, CanFinalize
<1>6. /\ \A m \in AttemptNos \ {n} : att'[m] = att[m]
      /\ att'[n].status = "graded" /\ att'[n].score = score
  BY <1>3 DEF IInv, CoreInv, Grades
<1>7. SubmittedAwaitsManual' /\ SubmissionPossible'
  BY <1>3, RowPartsRewritten DEF Grades, Active
<1>8. PassCompletes'
  <2> SUFFICES ASSUME RetakePolicy = "pass_then_stop", NEW m \in AttemptNos,
                      att'[m].status = "graded", Passed(att'[m].score)
               PROVE  enr'.status = "completed"
    BY DEF PassCompletes
  <2>1. CASE m = n
    BY <1>5, <1>6, <2>1 DEF TargetStatus, ShouldEnrollmentComplete
  <2>2. CASE m # n
    <3>1. enr.status = "completed"
      BY <1>6, <2>2 DEF IInv, ResultInv, PassCompletes
    <3> QED
      BY <1>5, <3>1, CompletedStays
  <2> QED
    BY <2>1, <2>2
<1>9. CompletedForGood'
  <2> SUFFICES ASSUME SteadyPolicy, enr'.status = "completed"
               PROVE  \/ RetakePolicy = "max_attempts" /\ enr'.attemptCount >= MaxAttempts
                      \/ RetakePolicy = "pass_then_stop" /\ enr'.finalPassed = TRUE
                      \/ CloseAt # None /\ now' >= CloseAt
    BY DEF CompletedForGood, SteadyPolicy, NeverExtended
  <2>1. ShouldEnrollmentComplete(enr, c, score, t)
    BY <1>5 DEF TargetStatus
  <2>2. CASE RetakePolicy = "max_attempts" /\ enr.attemptCount >= MaxAttempts
    BY <1>5, <2>2
  <2>3. CASE RetakePolicy = "pass_then_stop" /\ (Passed(score) \/ enr.finalPassed = TRUE)
    <3>1. ScoreStrategy = "highest" /\ PassingScore \in Nat
      BY <2>3, PolicyAssumption DEF SteadyPolicy
    <3>2. enr.finalAttempt # None =>
            enr.finalScore \in Nat /\ enr.finalPassed = Passed(enr.finalScore)
      BY DEF IInv, CoreInv, ResultsKnown, FinalResultIsGraded
    <3>3. enr.finalAttempt = None => enr.finalPassed # TRUE
      BY NoneAssumption DEF IInv, ResultInv, EnrollmentUsed
    <3>4. \A x, y \in Nat : x <= y /\ Passed(x) => Passed(y)
      BY <3>1 DEF Passed
    <3>5. \A x : Passed(x) \in BOOLEAN
      BY DEF Passed
    <3>6. CASE chosen
      <4>1. enr.finalAttempt # None => enr.finalScore <= score
        BY <3>1, <3>2, <3>6 DEF ShouldSelectAttempt
      <4>2. Passed(score)
        <5>1. CASE enr.finalPassed = TRUE
          <6>1. enr.finalAttempt # None
            BY <3>3, <5>1
          <6>2. Passed(enr.finalScore)
            BY <3>2, <5>1, <6>1, Zenon
          <6> QED
            BY <3>2, <3>4, <4>1, <6>1, <6>2
        <5> QED
          BY <2>3, <5>1
      <4>3. enr'.finalPassed = TRUE
        BY <1>5, <3>6, <3>5, <4>2, Zenon
      <4> QED
        BY <2>3, <4>3
    <3>7. CASE ~ chosen
      <4>1. enr.finalAttempt # None /\ score <= enr.finalScore
        BY <3>1, <3>2, <3>7 DEF ShouldSelectAttempt
      <4>2. CASE Passed(score)
        <5>1. Passed(enr.finalScore)
          BY <3>2, <3>4, <4>1, <4>2
        <5> QED
          BY <1>5, <2>3, <3>2, <3>7, <3>5, <4>1, <5>1, Zenon
      <4>3. CASE enr.finalPassed = TRUE
        BY <1>5, <2>3, <3>7, <4>3
      <4> QED
        BY <2>3, <4>2, <4>3
    <3> QED
      BY <3>6, <3>7
  <2>4. CASE c # None /\ t >= c
    <3>1. c = CloseAt /\ t \in Nat /\ t <= now /\ now \in Nat
      BY <1>3 DEF Grades, SteadyPolicy, IInv, EnvInv
    <3>2. CloseAt \in Nat
      BY <2>4, <3>1, TimingAssumption DEF OptTime
    <3> QED
      BY <2>4, <3>1, <3>2
  <2> QED
    BY <2>1, <2>2, <2>3, <2>4 DEF ShouldEnrollmentComplete
<1>10. EnrollmentUsed'
  <2>1. n \in Nat /\ n > 0 /\ ~ (n > enr.attemptCount)
    BY <1>3 DEF Grades, IInv, CoreInv, RowsCounted, AttemptNos
  <2>2. enr.attemptCount # 0 /\ enr'.status \in {"started", "completed"}
    BY <1>4, <1>5, <2>1 DEF TargetStatus
  <2>3. enr'.finalAttempt = None => enr'.finalPassed = None
    BY <1>5, <2>1, NoneAssumption DEF IInv, ResultInv, EnrollmentUsed
  <2> QED
    BY <1>5, <2>2, <2>3 DEF EnrollmentUsed
<1> QED
  BY <1>7, <1>8, <1>9, <1>10 DEF ResultInv

\* Opening an attempt: never under a completed enrollment.
LEMMA CreateResults ==
  ASSUME IInv, CreateStep
  PROVE  ResultInv'
<1> DEFINE k == enr.attemptCount + 1
<1>1. PICK t \in Nat :
        /\ enr.attemptCount < AttemptBound
        /\ CanTransition(enr.status, "started")
        /\ Submittable(NewAttempt(t), exam.closeAt)
        /\ att' = [att EXCEPT ![k] = NewAttempt(t)]
        /\ enr' = [enr EXCEPT !.status = "started", !.attemptCount = @ + 1]
        /\ exam' = exam
  BY DEF CreateStep
<1>2. enr.attemptCount \in Nat /\ k \in AttemptNos /\ k # 0
  BY <1>1, BoundAssumption DEF IInv, CoreInv, EnrollmentRow, AttemptNos
<1>3. /\ enr'.status = "started" /\ enr'.attemptCount = k
      /\ enr'.finalAttempt = enr.finalAttempt /\ enr'.finalPassed = enr.finalPassed
  BY <1>1 DEF IInv, CoreInv, EnrollmentRow
<1>4. NewAttempt(t).status = "in_progress"
  BY NewAttemptRow
<1>5. att'[k] = NewAttempt(t) /\ \A m \in AttemptNos \ {k} : att'[m] = att[m]
  BY <1>1, <1>2 DEF IInv, CoreInv
<1>6. \A m \in AttemptNos : AwaitsManual(att'[m]) /\ Submittable(att'[m], exam.closeAt)
  <2>1. AwaitsManual(NewAttempt(t))
    BY <1>4 DEF AwaitsManual
  <2> QED
    BY <1>1, <1>5, <2>1, RowParts DEF IInv, ResultInv
<1>7. SubmittedAwaitsManual' /\ SubmissionPossible'
  BY <1>1, <1>6 DEF SubmittedAwaitsManual, AwaitsManual, SubmissionPossible, Submittable
<1>8. enr.status # "completed"
  BY <1>1, CompletedStays
<1>9. PassCompletes'
  BY <1>4, <1>5, <1>8 DEF PassCompletes, IInv, ResultInv
<1>10. CompletedForGood' /\ EnrollmentUsed'
  BY <1>2, <1>3 DEF CompletedForGood, EnrollmentUsed, IInv, ResultInv
<1> QED
  BY <1>7, <1>9, <1>10 DEF ResultInv

\* A freshly published exam with an assigned enrollment satisfies the invariant.
LEMMA InitInv == Init => IInv
<1> SUFFICES ASSUME Init PROVE IInv
  OBVIOUS
<1>1. exam \in ExamRow /\ exam.closeAt = CloseAt
  BY TimingAssumption DEF Init, ExamRow
<1>2. enr \in EnrollmentRow /\ enr.attemptCount = 0 /\ enr.finalAttempt = None
  BY DEF Init, EnrollmentRow, OptTime
<1>3. \A n \in AttemptNos : att[n] = NoAttempt
  BY DEF Init
<1>4. NoAttempt.status = "none" /\ NoAttempt \in AttemptRow /\ NoAttempt.status \notin Active
  BY NoAttemptRow DEF RowInv, Active
<1>5. att \in [AttemptNos -> AttemptRow]
  BY <1>4 DEF Init
<1>6. Attempts
  BY <1>3, NoAttemptRow DEF Attempts
<1>7. RowsCounted /\ CountBounded
  BY <1>2, <1>3, <1>4, BoundAssumption, PolicyAssumption
     DEF RowsCounted, CountBounded, AttemptNos
<1>8. OneActiveAttempt
  BY <1>3, <1>4 DEF OneActiveAttempt
<1>9. None \notin AttemptNos
  BY NoneAssumption DEF AttemptNos
<1>10. ResultsKnown /\ FinalResultIsGraded /\ HighestIsMax
  BY <1>2, <1>3, <1>4, <1>9 DEF ResultsKnown, FinalResultIsGraded, HighestIsMax
<1>11. EnvInv
  BY DEF Init, EnvInv, ScansTimed, IdleScan, Scan, OptTime
<1>12. ReadsInv
  BY <1>1 DEF Init, ReadsInv, TimesPast, ReadsBehind, ClosingFixed, IdleScan
<1>13. ResultInv
  <2>1. \A n \in AttemptNos : AwaitsManual(att[n]) /\ Submittable(att[n], exam.closeAt)
    BY <1>3, <1>4 DEF AwaitsManual, Submittable
  <2>2. PassCompletes /\ CompletedForGood /\ EnrollmentUsed
    BY <1>3, <1>4 DEF Init, PassCompletes, CompletedForGood, EnrollmentUsed
  <2> QED
    BY <2>1, <2>2, RowParts DEF ResultInv
<1> QED
  BY <1>1, <1>2, <1>5, <1>6, <1>7, <1>8, <1>10, <1>11, <1>12, <1>13
     DEF IInv, CoreInv, ClosingKnown

\* The inductive invariant holds in every reachable state.
THEOREM Invariance == Spec => []IInv
<1>1. ASSUME IInv, [Next]_vars PROVE IInv'
  <2>1. StepForms /\ ReadStep
    BY <1>1, NextForms, ReadForms
  <2>2. CoreInv'
    BY <1>1, <2>1, IdleKeeps, RowKeeps, GradeKeeps, CreateKeeps DEF IInv, StepForms
  <2>3. EnvInv'
    BY <1>1, EnvKeeps
  <2>4. ReadsInv'
    BY <1>1, <2>1, <2>3, ReadsKeeps DEF EnvInv
  <2>5. ResultInv'
    BY <1>1, <2>1, <2>3, IdleResults, RowResults, GradeResults, CreateResults
       DEF StepForms, ReadStep, EnvInv
  <2> QED
    BY <2>2, <2>3, <2>4, <2>5 DEF IInv
<1> QED
  BY InitInv, <1>1, PTL DEF Spec

-----------------------------------------------------------------------------
(***************************************************************************)
(* The results.                                                            *)
(***************************************************************************)

\* Type correctness: no command ever stores a value outside the columns'
\* domains, for instance an outcome event for an episode that is not there.
THEOREM TypeCorrect == Spec => []TypeOK
<1>1. IInv => TypeOK
  BY DEF IInv, CoreInv, EnvInv, TypeOK, Time
<1> QED
  BY Invariance, <1>1, PTL

\* The interruption ledger of every attempt is consistent.
THEOREM EpisodesCorrect == Spec => []InterruptionEpisodes
<1>1. IInv => InterruptionEpisodes
  BY DEF IInv, CoreInv, Attempts, RowInv, InterruptionEpisodes
<1> QED
  BY Invariance, <1>1, PTL

\* Deadlines are duration plus adjustments, under the caps and the window.
THEOREM DeadlinesCorrect == Spec => []DeadlineAccounting
<1>1. IInv => DeadlineAccounting
  BY DEF IInv, CoreInv, Attempts, RowInv, DeadlineAccounting
<1> QED
  BY Invariance, <1>1, PTL

\* What is frozen at submission is what was saved, and nothing is saved later.
THEOREM AnswersCorrect == Spec => []FrozenAnswers
<1>1. IInv => FrozenAnswers
  BY DEF IInv, CoreInv, Attempts, RowInv, FrozenAnswers
<1> QED
  BY Invariance, <1>1, PTL

\* At most one attempt of the enrollment is active.
THEOREM OneActive == Spec => []OneActiveAttempt
<1>1. IInv => OneActiveAttempt
  BY DEF IInv, CoreInv
<1> QED
  BY Invariance, <1>1, PTL

\* The enrollment shows the result of a graded attempt.
THEOREM ResultsCorrect == Spec => []FinalResultIsGraded
<1>1. IInv => FinalResultIsGraded
  BY DEF IInv, CoreInv
<1> QED
  BY Invariance, <1>1, PTL

\* Under scoreStrategy highest the enrollment shows the best score, in whatever
\* order finalizeTerminalGrading runs for its attempts.
THEOREM HighestCorrect == Spec => []HighestIsMax
<1>1. IInv => HighestIsMax
  BY DEF IInv, CoreInv
<1> QED
  BY Invariance, <1>1, PTL

\* A submission is made once and a graded attempt never changes.
THEOREM SubmissionsFinal == Spec => TerminalIsFinal
<1> DEFINE Kept == \A n \in AttemptNos :
                     /\ SubmissionKept(att[n], att'[n])
                     /\ att[n].status = "graded" => att'[n] = att[n]
<1>1. \A r : SubmissionKept(r, r)
  BY DEF SubmissionKept
<1>2. ASSUME IInv, StepForms PROVE Kept
  <2>1. att \in [AttemptNos -> AttemptRow] /\ RowsCounted
    BY <1>2 DEF IInv, CoreInv
  <2>2. ASSUME NEW n \in AttemptNos, NEW s, att' = [att EXCEPT ![n] = s],
               SubmissionKept(att[n], s), att[n].status # "graded"
        PROVE  Kept
    BY <1>1, <2>1, <2>2
  <2>3. CASE IdleStep
    BY <1>1, <2>3 DEF IdleStep
  <2>4. CASE RowStep
    BY <2>2, <2>4 DEF RowStep
  <2>5. CASE GradeStep
    BY <2>2, <2>5 DEF GradeStep, Grades
  <2>6. CASE CreateStep
    <3>1. PICK t \in Nat : /\ att' = [att EXCEPT ![enr.attemptCount + 1] = NewAttempt(t)]
                           /\ enr.attemptCount < AttemptBound
      BY <2>6 DEF CreateStep
    <3>2. enr.attemptCount + 1 \in AttemptNos /\ enr.attemptCount + 1 > enr.attemptCount
      BY <1>2, <3>1, BoundAssumption DEF IInv, CoreInv, EnrollmentRow, AttemptNos
    <3>3. att[enr.attemptCount + 1].status = "none"
      BY <2>1, <3>2 DEF RowsCounted
    <3>4. SubmissionKept(att[enr.attemptCount + 1], NewAttempt(t))
      BY <3>3 DEF SubmissionKept, Terminal
    <3> QED
      BY <2>2, <3>1, <3>2, <3>3, <3>4
  <2> QED
    BY <1>2, <2>3, <2>4, <2>5, <2>6 DEF StepForms
<1>3. IInv /\ [Next]_vars => [Kept]_vars
  BY <1>2, NextForms
<1> QED
  BY Invariance, <1>3, PTL DEF Spec, TerminalIsFinal

\* The attempt counter is the number of attempts, and stays within the limit.
THEOREM LimitCorrect == Spec => []AttemptLimit
<1>1. IInv => AttemptLimit
  <2> SUFFICES ASSUME IInv PROVE AttemptLimit
    OBVIOUS
  <2> DEFINE used == {n \in AttemptNos : att[n].status # "none"}
  <2>1. enr.attemptCount \in Nat /\ CountBounded /\ RowsCounted
    BY DEF IInv, CoreInv, EnrollmentRow
  <2>2. used = 1 .. enr.attemptCount
    BY <2>1, BoundAssumption DEF CountBounded, RowsCounted, AttemptNos
  <2>3. Cardinality(1 .. enr.attemptCount) = enr.attemptCount
    BY <2>1, FS_Interval
  <2> QED
    BY <2>1, <2>2, <2>3 DEF AttemptLimit, CountBounded
<1> QED
  BY Invariance, <1>1, PTL

\* A completed enrollment stays completed and gets no further attempt.
THEOREM CompletionFinal == Spec => CompletedEnrollmentIsFinal
<1> DEFINE Final == enr.status = "completed" =>
                      enr'.status = "completed" /\ enr'.attemptCount = enr.attemptCount
<1>1. \A to : CanTransition("completed", to) => to = "completed"
  BY DEF CanTransition, EnrollmentTransitions
<1>2. ASSUME IInv, StepForms PROVE Final
  <2>1. CASE IdleStep
    BY <2>1 DEF IdleStep
  <2>2. CASE RowStep
    BY <2>2 DEF RowStep
  <2>3. CASE GradeStep
    <3>1. PICK n \in AttemptNos : \E s, c, t : \E score \in Nat : Grades(n, s, c, t, score)
      BY <2>3 DEF GradeStep
    <3>2. PICK s, c, t : \E score \in Nat : Grades(n, s, c, t, score)
      BY <3>1
    <3>3. PICK score \in Nat : Grades(n, s, c, t, score)
      BY <3>2
    <3>4. /\ CanTransition(enr.status, TargetStatus(enr, c, score, t))
          /\ enr' = Finalized(enr, n, c, score, t) /\ enr \in EnrollmentRow
      BY <1>2, <3>3 DEF Grades, CanFinalize, IInv, CoreInv
    <3>5. /\ enr'.status = TargetStatus(enr, c, score, t)
          /\ enr'.attemptCount = enr.attemptCount
      BY <3>4, FinalizedRow
    <3> QED
      BY <1>1, <3>4, <3>5
  <2>4. CASE CreateStep
    BY <1>1, <2>4 DEF CreateStep
  <2> QED
    BY <1>2, <2>1, <2>2, <2>3, <2>4 DEF StepForms
<1>3. IInv /\ [Next]_vars => [Final]_vars
  BY <1>2, NextForms
<1> QED
  BY Invariance, <1>3, PTL DEF Spec, CompletedEnrollmentIsFinal

\* A submitted attempt that is not graded waits for a person, with at least one
\* entry left (submitAttempt creates them, gradeQuestion completes them).
THEOREM AwaitingCorrect == Spec => []SubmittedAwaitsManual
<1>1. IInv => SubmittedAwaitsManual
  BY DEF IInv, ResultInv
<1> QED
  BY Invariance, <1>1, PTL

\* A candidate who was handed an attempt may submit it before it expires,
\* although the start checked this against an exam row read without a lock.
THEOREM SubmissionAlwaysPossible == Spec => []SubmissionPossible
<1>1. IInv => SubmissionPossible
  BY DEF IInv, ResultInv
<1> QED
  BY Invariance, <1>1, PTL

\* A request to finish the grading of an attempt is never refused because of
\* another attempt's result, when the reasons for which an enrollment completes
\* cannot go away (finalizeTerminalGrading).  Without that premise it can be.
THEOREM GradingUnblocked == Spec => [](SteadyPolicy => GradingNeverBlocked)
<1>1. ASSUME IInv, SteadyPolicy PROVE GradingNeverBlocked
  <2> SUFFICES ASSUME NEW n \in AttemptNos, att[n].status = "submitted",
                      NEW score \in Scores
               PROVE  CanFinalize(enr, exam.closeAt, score, now)
    BY DEF GradingNeverBlocked
  <2>1. exam.closeAt = CloseAt /\ CompletedForGood /\ EnrollmentUsed
    BY <1>1 DEF IInv, ReadsInv, ResultInv, ClosingFixed, SteadyPolicy
  <2>2. enr.attemptCount \in Nat /\ ~ (n > enr.attemptCount) /\ n \in Nat /\ n > 0
    BY <1>1 DEF IInv, CoreInv, EnrollmentRow, RowsCounted, AttemptNos
  <2>3. enr.status \in {"started", "completed"}
    BY <1>1, <2>1, <2>2 DEF EnrollmentUsed, IInv, CoreInv, EnrollmentRow
  <2>4. CASE enr.status = "started"
    BY <2>4 DEF CanFinalize, CanTransition, EnrollmentTransitions, TargetStatus
  <2>5. CASE enr.status = "completed"
    <3>1. ShouldEnrollmentComplete(enr, exam.closeAt, score, now)
      BY <1>1, <2>1, <2>5 DEF CompletedForGood, ShouldEnrollmentComplete
    <3> QED
      BY <2>5, <3>1 DEF CanFinalize, CanTransition, TargetStatus
  <2> QED
    BY <2>3, <2>4, <2>5
<1>2. IInv => (SteadyPolicy => GradingNeverBlocked)
  BY <1>1
<1> QED
  BY Invariance, <1>2, PTL

\* Under pass_then_stop no attempt is opened after a passing one, whichever
\* attempt is final and in whatever order they were graded.
THEOREM PassStops == Spec => PassStopsRetakes
<1> DEFINE Stops == RetakePolicy = "pass_then_stop"
                      /\ enr'.attemptCount > enr.attemptCount =>
                    \A n \in AttemptNos :
                      att[n].status = "graded" => ~ Passed(att[n].score)
<1>1. ASSUME IInv, StepForms PROVE Stops
  <2>1. enr.attemptCount \in Nat /\ enr \in EnrollmentRow
    BY <1>1 DEF IInv, CoreInv, EnrollmentRow
  <2>2. CASE IdleStep \/ RowStep
    BY <2>1, <2>2 DEF IdleStep, RowStep
  <2>3. CASE GradeStep
    <3>1. PICK n \in AttemptNos : \E s, c, t : \E score \in Nat : Grades(n, s, c, t, score)
      BY <2>3 DEF GradeStep
    <3>2. enr'.attemptCount = enr.attemptCount
      BY <2>1, <3>1, FinalizedRow DEF Grades
    <3> QED
      BY <2>1, <3>2
  <2>4. CASE CreateStep
    <3>1. enr.status # "completed"
      BY <2>4, CompletedStays DEF CreateStep
    <3> QED
      BY <1>1, <3>1 DEF IInv, ResultInv, PassCompletes
  <2> QED
    BY <1>1, <2>2, <2>3, <2>4 DEF StepForms
<1>2. IInv /\ [Next]_vars => [Stops]_vars
  BY <1>1, NextForms
<1> QED
  BY Invariance, <1>2, PTL DEF Spec, PassStopsRetakes

\* An attempt is recorded as submitted by the deadline only when the deadline
\* in force has passed, although the scanner decides with a time and a list
\* captured earlier and grants and extensions run in between.
THEOREM NotSubmittedEarly == Spec => NeverAutoSubmittedEarly
<1> DEFINE Timely(n) == att[n].submissionReason = None
                          /\ att'[n].submissionReason = "deadline" =>
                        Expired(exam.closeAt, att'[n], now)
           OnTime == \A n \in AttemptNos : Timely(n)
<1>1. ASSUME IInv, StepForms PROVE OnTime
  <2>1. att \in [AttemptNos -> AttemptRow] /\ None # "deadline"
    BY <1>1, NoneAssumption DEF IInv, CoreInv
  <2>2. ASSUME NEW n \in AttemptNos, NEW s, att' = [att EXCEPT ![n] = s],
               Rewrites(att[n], s)
        PROVE  OnTime
    <3>1. att'[n] = s /\ \A m \in AttemptNos \ {n} : att'[m] = att[m]
      BY <2>1, <2>2
    <3>2. Timely(n)
      BY <2>1, <2>2, <3>1 DEF Rewrites
    <3>3. \A m \in AttemptNos \ {n} : Timely(m)
      BY <2>1, <3>1
    <3> QED
      BY <3>2, <3>3
  <2>3. CASE IdleStep
    BY <2>1, <2>3 DEF IdleStep
  <2>4. CASE RowStep
    BY <2>2, <2>4 DEF RowStep
  <2>5. CASE GradeStep
    BY <2>2, <2>5 DEF GradeStep, Grades
  <2>6. CASE CreateStep
    <3> DEFINE k == enr.attemptCount + 1
    <3>1. PICK t \in Nat : /\ att' = [att EXCEPT ![k] = NewAttempt(t)]
                           /\ enr.attemptCount < AttemptBound
      BY <2>6 DEF CreateStep
    <3>2. k \in AttemptNos
      BY <1>1, <3>1, BoundAssumption DEF IInv, CoreInv, EnrollmentRow, AttemptNos
    <3>3. NewAttempt(t).submissionReason = None
      BY NewAttemptRow
    <3> HIDE DEF k
    <3>4. \A m \in AttemptNos : att'[m].submissionReason \in {None, att[m].submissionReason}
      BY <2>1, <3>1, <3>2, <3>3
    <3> QED
      BY <2>1, <3>4
  <2> QED
    BY <1>1, <2>3, <2>4, <2>5, <2>6 DEF StepForms
<1>2. IInv /\ [Next]_vars => [OnTime]_vars
  BY <1>1, NextForms
<1> QED
  BY Invariance, <1>2, PTL DEF Spec, NeverAutoSubmittedEarly

-----------------------------------------------------------------------------
(***************************************************************************)
(* The runtime implements AttemptContract.                                 *)
(***************************************************************************)

\* A stage belongs to the status it was read from.
LEMMA StageStatus ==
  ASSUME NEW r \in AttemptRow
  PROVE  /\ StageOf(r) = "unused" <=> r.status = "none"
         /\ StageOf(r) = "open" <=> r.status \in Active
         /\ StageOf(r) = "handed_in" <=> r.status = "submitted"
         /\ StageOf(r) = "marked" <=> r.status = "graded"
<1>1. r.status \in {"none", "in_progress", "disrupted", "submitted", "graded"}
  BY DEF AttemptRow, Active, Terminal
<1> QED
  BY <1>1 DEF StageOf, Active

\* A row that is written changes the contract's view of that attempt only.
LEMMA ViewWritten ==
  ASSUME CoreInv, NEW n \in AttemptNos, NEW s, att' = [att EXCEPT ![n] = s]
  PROVE  /\ Stages' = [Stages EXCEPT ![n] = StageOf(s)]
         /\ Work' = [Work EXCEPT ![n] = s.answers]
         /\ Papers' = [Papers EXCEPT ![n] = s.submittedAnswers]
         /\ Marks' = [Marks EXCEPT ![n] = s.score]
<1>1. att'[n] = s /\ \A m \in AttemptNos \ {n} : att'[m] = att[m]
  BY DEF CoreInv
<1>2. \A m \in AttemptNos :
        /\ Stages[m] = StageOf(att[m]) /\ Work[m] = att[m].answers
        /\ Papers[m] = att[m].submittedAnswers /\ Marks[m] = att[m].score
  BY DEF Stages, Work, Papers, Marks
<1>3. \A m \in AttemptNos :
        /\ Work'[m] = att'[m].answers
        /\ Papers'[m] = att'[m].submittedAnswers /\ Marks'[m] = att'[m].score
  BY DEF Work, Papers, Marks
<1>4. \A m \in AttemptNos : Stages'[m] = StageOf(att'[m])
  BY DEF Stages, StageOf
<1>5. /\ Stages = [m \in AttemptNos |-> Stages[m]]
      /\ Work = [m \in AttemptNos |-> Work[m]]
      /\ Papers = [m \in AttemptNos |-> Papers[m]]
      /\ Marks = [m \in AttemptNos |-> Marks[m]]
  BY DEF Stages, Work, Papers, Marks
<1>6. /\ Stages' = [m \in AttemptNos |-> Stages'[m]]
      /\ Work' = [m \in AttemptNos |-> Work'[m]]
      /\ Papers' = [m \in AttemptNos |-> Papers'[m]]
      /\ Marks' = [m \in AttemptNos |-> Marks'[m]]
  BY DEF Stages, Work, Papers, Marks
<1>7. \A m \in AttemptNos \ {n} :
        /\ Stages'[m] = Stages[m] /\ Work'[m] = Work[m]
        /\ Papers'[m] = Papers[m] /\ Marks'[m] = Marks[m]
  BY <1>1, <1>2, <1>3, <1>4
<1>8. /\ Stages'[n] = StageOf(s) /\ Work'[n] = s.answers
      /\ Papers'[n] = s.submittedAnswers /\ Marks'[n] = s.score
  BY <1>1, <1>3, <1>4
<1> QED
  BY <1>5, <1>6, <1>7, <1>8

\* A view that is written with what it has is not changed.
LEMMA SameView ==
  ASSUME NEW n \in AttemptNos
  PROVE  /\ Stages[n] = StageOf(att[n]) /\ [Stages EXCEPT ![n] = StageOf(att[n])] = Stages
         /\ Work[n] = att[n].answers /\ [Work EXCEPT ![n] = att[n].answers] = Work
         /\ Papers[n] = att[n].submittedAnswers
         /\ [Papers EXCEPT ![n] = att[n].submittedAnswers] = Papers
         /\ Marks[n] = att[n].score /\ [Marks EXCEPT ![n] = att[n].score] = Marks
BY DEF Stages, Work, Papers, Marks

\* What the freeze of the answers says of a row, in the contract's words.
LEMMA PaperOf ==
  ASSUME NEW r, NEW c, RowInv(r, c)
  PROVE  /\ r.status \in Terminal => r.submittedAnswers = r.answers
         /\ r.status \notin Terminal => r.submittedAnswers = None
         /\ r \in AttemptRow
BY DEF RowInv, AnswersFrozen

\* A rewrite of a row in use is Write, HandIn or a stutter of the contract.
LEMMA RowMapped ==
  ASSUME IInv, RowStep
  PROVE  [Contract!CNext]_(Contract!cvars)
<1>1. PICK n \in AttemptNos : \E s :
        /\ att[n].status \notin {"none", "graded"}
        /\ RowInv(s, exam.closeAt)
        /\ s.status \notin {"none", "graded"}
        /\ s.status \in Active => att[n].status \in Active
        /\ Rewrites(att[n], s)
        /\ att' = [att EXCEPT ![n] = s]
        /\ UNCHANGED <<enr, exam>>
  BY DEF RowStep
<1>2. PICK s :
        /\ att[n].status \notin {"none", "graded"}
        /\ RowInv(s, exam.closeAt)
        /\ s.status \notin {"none", "graded"}
        /\ s.status \in Active => att[n].status \in Active
        /\ Rewrites(att[n], s)
        /\ att' = [att EXCEPT ![n] = s]
        /\ UNCHANGED <<enr, exam>>
  BY <1>1
<1> DEFINE r == att[n]
<1>3. CoreInv /\ RowInv(r, exam.closeAt) /\ Proceeds(r, s) /\ s.score = r.score
  BY <1>2 DEF IInv, CoreInv, Attempts, Rewrites, Proceeds
<1>4. r \in AttemptRow /\ s \in AttemptRow
  BY <1>2, <1>3, PaperOf
<1>5. /\ r.status \in Active \/ r.status = "submitted"
      /\ s.status \in Active \/ s.status = "submitted"
  BY <1>2, <1>4 DEF AttemptRow, Active, Terminal
<1>6. enr' = enr
  BY <1>2
<1>7. /\ r.status \in Active <=> StageOf(r) = "open"
      /\ s.status \in Active <=> StageOf(s) = "open"
      /\ r.status = "submitted" <=> StageOf(r) = "handed_in"
      /\ s.status = "submitted" <=> StageOf(s) = "handed_in"
  BY <1>4, StageStatus
<1>8. /\ r.status \in Active => r.submittedAnswers = None /\ r.status # "submitted"
      /\ s.status \in Active => s.submittedAnswers = None /\ s.status # "submitted"
      /\ r.status = "submitted" => r.submittedAnswers = r.answers
      /\ s.status = "submitted" => s.submittedAnswers = s.answers
  BY <1>2, <1>3, PaperOf DEF Active, Terminal
<1>9. /\ Stages' = [Stages EXCEPT ![n] = StageOf(s)] /\ Stages[n] = StageOf(r)
      /\ StageOf(s) = StageOf(r) => Stages' = Stages
      /\ Work' = [Work EXCEPT ![n] = s.answers] /\ Work[n] = r.answers
      /\ s.answers = r.answers => Work' = Work
      /\ Papers' = [Papers EXCEPT ![n] = s.submittedAnswers]
      /\ s.submittedAnswers = r.submittedAnswers => Papers' = Papers
      /\ Marks' = Marks
  <2>1. CoreInv /\ att' = [att EXCEPT ![n] = s]
    BY <1>2, <1>3
  <2>2. /\ Stages[n] = StageOf(r) /\ [Stages EXCEPT ![n] = StageOf(r)] = Stages
        /\ Work[n] = r.answers /\ [Work EXCEPT ![n] = r.answers] = Work
        /\ [Papers EXCEPT ![n] = r.submittedAnswers] = Papers
        /\ [Marks EXCEPT ![n] = r.score] = Marks
    BY SameView
  <2> HIDE DEF r
  <2>3. /\ Stages' = [Stages EXCEPT ![n] = StageOf(s)]
        /\ Work' = [Work EXCEPT ![n] = s.answers]
        /\ Papers' = [Papers EXCEPT ![n] = s.submittedAnswers]
        /\ Marks' = [Marks EXCEPT ![n] = s.score]
    BY <2>1, ViewWritten
  <2> QED
    BY <1>3, <2>2, <2>3
<1> HIDE DEF r
<1>10. CASE s.status \in Active /\ s.answers = r.answers + 1
  <2>1. /\ StageOf(s) = StageOf(r) /\ StageOf(r) = "open"
        /\ s.submittedAnswers = r.submittedAnswers
    BY <1>2, <1>7, <1>8, <1>10 DEF r
  <2>2. Contract!Write(n)
    BY <1>6, <1>9, <1>10, <2>1 DEF Contract!Write
  <2> QED
    BY <2>2 DEF Contract!CNext
<1>11. CASE s.answers = r.answers /\ r.status \in Active /\ s.status = "submitted"
  <2>1. /\ StageOf(r) = "open" /\ StageOf(s) = "handed_in"
        /\ s.submittedAnswers = r.answers
    BY <1>7, <1>8, <1>11
  <2>2. Contract!HandIn(n)
    BY <1>6, <1>9, <1>11, <2>1 DEF Contract!HandIn
  <2> QED
    BY <2>2 DEF Contract!CNext
<1>12. CASE /\ s.answers = r.answers
            /\ StageOf(s) = StageOf(r) /\ s.submittedAnswers = r.submittedAnswers
  BY <1>6, <1>9, <1>12 DEF Contract!cvars
<1> QED
  BY <1>2, <1>3, <1>5, <1>7, <1>8, <1>10, <1>11, <1>12 DEF Proceeds, Active, r

\* The grading of a row is Mark: the score, the result it is projected on and
\* the completion of the enrollment change in the same step.
LEMMA GradeMapped ==
  ASSUME IInv, GradeStep
  PROVE  Contract!CNext
<1>1. PICK n \in AttemptNos : \E s, c, t : \E score \in Nat : Grades(n, s, c, t, score)
  BY DEF GradeStep
<1>2. PICK s, c, t : \E score \in Nat : Grades(n, s, c, t, score)
  BY <1>1
<1>3. PICK score \in Nat : Grades(n, s, c, t, score)
  BY <1>2
<1> DEFINE r == att[n]
<1>4. /\ CoreInv /\ RowInv(r, exam.closeAt) /\ RowInv(s, exam.closeAt)
      /\ r.status \notin {"none", "graded"} /\ s.status = "graded"
      /\ s.score = score /\ score \in Scores /\ s.answers = r.answers
      /\ att' = [att EXCEPT ![n] = s]
      /\ CanFinalize(enr, c, score, t) /\ enr' = Finalized(enr, n, c, score, t)
  BY <1>3 DEF Grades, IInv, CoreInv, Attempts, Rewrites, Proceeds, Active
<1>5. r \in AttemptRow /\ s \in AttemptRow
  BY <1>4, PaperOf
<1>6. r.status \in Active \/ r.status = "submitted"
  BY <1>4, <1>5 DEF AttemptRow, Active, Terminal
<1>7. /\ r.status \in Active <=> StageOf(r) = "open"
      /\ r.status = "submitted" <=> StageOf(r) = "handed_in"
      /\ StageOf(s) = "marked"
  BY <1>4, <1>5, StageStatus
<1>8. /\ s.submittedAnswers = r.answers
      /\ r.status = "submitted" => r.submittedAnswers = r.answers
  BY <1>4, PaperOf DEF Terminal
<1>9. /\ Stages' = [Stages EXCEPT ![n] = "marked"] /\ Stages[n] \in {"open", "handed_in"}
      /\ Work' = Work /\ Work[n] = r.answers
      /\ Papers' = IF Stages[n] = "open" THEN [Papers EXCEPT ![n] = Work[n]] ELSE Papers
      /\ Marks' = [Marks EXCEPT ![n] = score]
  <2>1. /\ Stages' = [Stages EXCEPT ![n] = StageOf(s)] /\ Stages[n] = StageOf(r)
        /\ Work' = Work /\ Work[n] = r.answers
        /\ Papers' = [Papers EXCEPT ![n] = s.submittedAnswers]
        /\ s.submittedAnswers = r.submittedAnswers => Papers' = Papers
        /\ Marks' = [Marks EXCEPT ![n] = s.score]
    <3>1. CoreInv /\ att' = [att EXCEPT ![n] = s] /\ s.answers = r.answers
      BY <1>4
    <3>2. /\ Stages[n] = StageOf(r)
          /\ Work[n] = r.answers /\ [Work EXCEPT ![n] = r.answers] = Work
          /\ [Papers EXCEPT ![n] = r.submittedAnswers] = Papers
      BY SameView
    <3>3. /\ Stages' = [Stages EXCEPT ![n] = StageOf(s)]
          /\ Work' = [Work EXCEPT ![n] = s.answers]
          /\ Papers' = [Papers EXCEPT ![n] = s.submittedAnswers]
          /\ Marks' = [Marks EXCEPT ![n] = s.score]
      BY <3>1, ViewWritten
    <3> HIDE DEF r
    <3> QED
      BY <3>1, <3>2, <3>3
  <2> HIDE DEF r
  <2> QED
    BY <1>4, <1>6, <1>7, <1>8, <2>1
<1>10. enr.finalAttempt # None => /\ enr.finalAttempt \in AttemptNos
                                  /\ enr.finalScore = Marks[enr.finalAttempt]
  BY <1>4 DEF CoreInv, ResultsKnown, FinalResultIsGraded, Marks
<1>11. /\ enr'.status = TargetStatus(enr, c, score, t)
       /\ ShouldSelectAttempt(enr, score) => enr'.finalAttempt = n
       /\ ~ ShouldSelectAttempt(enr, score) => enr'.finalAttempt = enr.finalAttempt
  BY <1>4, FinalizedRow DEF CoreInv
<1>12. enr'.finalAttempt = Contract!ResultAfter(n, score)
  BY <1>10, <1>11 DEF Contract!ResultAfter, ShouldSelectAttempt
<1>13. enr.status = "completed" => enr'.status = "completed"
  BY <1>4, <1>11, CompletedStays DEF CanFinalize
<1>14. Contract!Mark(n, score)
  BY <1>9, <1>12, <1>13 DEF Contract!Mark
<1> QED
  BY <1>4, <1>14 DEF Contract!CNext

\* The insertion of an attempt is Begin: a start that passed its checks earlier
\* still meets the retake policy when it has its lock.
LEMMA CreateMapped ==
  ASSUME IInv, CreateStep
  PROVE  Contract!CNext
<1> DEFINE k == enr.attemptCount + 1
<1>1. PICK t \in Nat :
        /\ \A n \in AttemptNos : att[n].status \notin Active
        /\ enr.attemptCount < AttemptBound
        /\ RetakePolicy = "max_attempts" => enr.attemptCount < MaxAttempts
        /\ CanTransition(enr.status, "started")
        /\ att' = [att EXCEPT ![k] = NewAttempt(t)]
        /\ enr' = [enr EXCEPT !.status = "started", !.attemptCount = @ + 1]
        /\ exam' = exam
  BY DEF CreateStep
<1>2. /\ enr.attemptCount \in Nat /\ k \in AttemptNos
      /\ \A m \in AttemptNos : m \in Nat
  BY <1>1, BoundAssumption DEF IInv, CoreInv, EnrollmentRow, AttemptNos
<1>3. /\ CoreInv /\ RowsCounted /\ att \in [AttemptNos -> AttemptRow]
      /\ enr \in EnrollmentRow /\ RowInv(att[k], exam.closeAt)
  BY <1>2 DEF IInv, CoreInv, Attempts
<1>4. enr.status # "completed" /\ enr'.status # "completed"
      /\ enr'.finalAttempt = enr.finalAttempt
  BY <1>1, <1>3, CompletedStays DEF EnrollmentRow
<1>5. /\ NewAttempt(t) \in AttemptRow /\ NewAttempt(t).status = "in_progress"
      /\ NewAttempt(t).answers = 0 /\ NewAttempt(t).score = None
      /\ NewAttempt(t).submittedAnswers = None
  <2>1. RowInv(NewAttempt(t), exam.closeAt)
    BY NewAttemptRow
  <2> QED
    BY <2>1 DEF NewAttempt, NoAttempt, RowInv
<1>6. att[k].status = "none" /\ att[k].submittedAnswers = None
  BY <1>2, <1>3, PaperOf DEF RowsCounted, Terminal
<1>7. StageOf(NewAttempt(t)) = "open" /\ StageOf(att[k]) = "unused"
  BY <1>2, <1>3, <1>5, <1>6, StageStatus DEF Active
<1>8. /\ Stages' = [Stages EXCEPT ![k] = "open"] /\ Stages[k] = "unused"
      /\ Work' = [Work EXCEPT ![k] = 0]
      /\ Papers' = Papers
      /\ Marks' = [Marks EXCEPT ![k] = None]
  <2> DEFINE r == att[k]
             s == NewAttempt(t)
  <2>1. /\ CoreInv /\ k \in AttemptNos /\ att' = [att EXCEPT ![k] = s]
        /\ StageOf(r) = "unused" /\ StageOf(s) = "open" /\ s.answers = 0
        /\ s.score = None /\ s.submittedAnswers = r.submittedAnswers
    BY <1>1, <1>2, <1>3, <1>5, <1>6, <1>7
  <2>2. /\ Stages[k] = StageOf(r)
        /\ [Papers EXCEPT ![k] = r.submittedAnswers] = Papers
    BY <1>2, SameView
  <2> HIDE DEF r, s, k
  <2>3. /\ Stages' = [Stages EXCEPT ![k] = StageOf(s)]
        /\ Work' = [Work EXCEPT ![k] = s.answers]
        /\ Papers' = [Papers EXCEPT ![k] = s.submittedAnswers]
        /\ Marks' = [Marks EXCEPT ![k] = s.score]
    BY <2>1, ViewWritten
  <2> QED
    BY <2>1, <2>2, <2>3
<1> HIDE DEF k
<1>9. \A m \in AttemptNos : m < k => Stages[m] \in {"handed_in", "marked"}
  <2> SUFFICES ASSUME NEW m \in AttemptNos, m < k
               PROVE  Stages[m] \in {"handed_in", "marked"}
    OBVIOUS
  <2>1. att[m].status # "none" /\ att[m].status \notin Active /\ att[m] \in AttemptRow
    BY <1>1, <1>2, <1>3 DEF RowsCounted, k
  <2>2. att[m].status \in {"submitted", "graded"}
    BY <2>1 DEF AttemptRow, Terminal
  <2> QED
    BY <2>1, <2>2, StageStatus DEF Stages
<1>10. RetakePolicy = "max_attempts" => k <= MaxAttempts
  BY <1>1, <1>2, PolicyAssumption DEF k
<1>11. ASSUME RetakePolicy = "pass_then_stop", NEW m \in AttemptNos, Stages[m] = "marked"
       PROVE  Marks[m] < PassingScore
  <2>1. att[m].status = "graded"
    BY <1>3, <1>11, StageStatus DEF Stages
  <2>2. ~ Passed(att[m].score) /\ att[m].score \in Nat
    BY <1>3, <1>4, <1>11, <2>1
       DEF IInv, ResultInv, PassCompletes, CoreInv, ResultsKnown
  <2> QED
    BY <2>2, PolicyAssumption DEF Passed, Marks
<1>12. Contract!Begin(k)
  BY <1>4, <1>8, <1>9, <1>10, <1>11 DEF Contract!Begin, Contract!Allowed
<1> QED
  BY <1>2, <1>12 DEF Contract!CNext

\* Every step is a step of the contract or a stutter.
LEMMA NextMapped == IInv /\ [Next]_vars => [Contract!CNext]_(Contract!cvars)
<1> SUFFICES ASSUME IInv, [Next]_vars PROVE [Contract!CNext]_(Contract!cvars)
  OBVIOUS
<1>1. CASE IdleStep
  <2>1. enr' = enr /\ att' = att
    BY <1>1 DEF IdleStep
  <2>2. Stages' = Stages /\ Work' = Work /\ Papers' = Papers /\ Marks' = Marks
    BY <2>1 DEF Stages, StageOf, Work, Papers, Marks
  <2> QED
    BY <2>1, <2>2 DEF Contract!cvars
<1> QED
  BY <1>1, NextForms, RowMapped, GradeMapped, CreateMapped DEF StepForms

\* An enrollment nobody has used is the contract's initial state.
LEMMA InitMapped == Init => Contract!CInit
<1> SUFFICES ASSUME Init PROVE Contract!CInit
  OBVIOUS
<1>1. \A n \in AttemptNos : att[n] = NoAttempt
  BY DEF Init
<1>2. /\ StageOf(NoAttempt) = "unused" /\ NoAttempt.answers = 0
      /\ NoAttempt.submittedAnswers = None /\ NoAttempt.score = None
  BY DEF StageOf, NoAttempt, Active
<1>3. Stages = [n \in AttemptNos |-> "unused"]
  BY <1>1, <1>2 DEF Stages
<1>4. /\ Work = [n \in AttemptNos |-> 0] /\ Papers = [n \in AttemptNos |-> None]
      /\ Marks = [n \in AttemptNos |-> None]
  BY <1>1, <1>2 DEF Work, Papers, Marks
<1>5. enr.finalAttempt = None /\ enr.status # "completed"
  BY DEF Init
<1> QED
  BY <1>3, <1>4, <1>5 DEF Contract!CInit

\* Whatever tabs, proctors, graders, administrators, scanners and restarts do,
\* and whatever they read before they had their locks, the enrollment behaves
\* as the contract says: attempts one at a time and within the retake policy,
\* papers handed in once and unchanged, marks given once and with their result.
THEOREM KeepsTheContract == Spec => ImplementsAttemptContract
<1>1. Spec => Contract!CInit
  BY InitMapped DEF Spec
<1>2. Spec => [][Contract!CNext]_(Contract!cvars)
  BY NextMapped, Invariance, PTL DEF Spec
<1> QED
  BY <1>1, <1>2, PTL DEF ImplementsAttemptContract, Contract!CSpec
=============================================================================
