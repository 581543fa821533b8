------------------------------ MODULE Admission ------------------------------
(***************************************************************************)
(* The durable admission queue of one exam that requires it: the rows of   *)
(* exam_admissions, the queue handler that joins and polls                 *)
(* (apps/api/src/routes/attempts.candidate.ts), the engine commands it     *)
(* calls (packages/exam-engine/src/admissionCommands.ts) and the gate and  *)
(* the consumption inside the attempt-start transaction                    *)
(* (packages/exam-engine/src/attemptCommands.ts).                          *)
(*                                                                         *)
(* The queue handler runs in no transaction: each of its statements        *)
(* commits on its own, so each is an action.  A start is one READ          *)
(* COMMITTED transaction under the candidate's enrollment lock: its reads  *)
(* are actions too, its writes take effect together in StartCommit.        *)
(***************************************************************************)
EXTENDS Integers, FiniteSets

CONSTANTS
  None,          \* a column that is NULL
  Candidates,
  Tabs,          \* browser tabs
  Owner,         \* tab -> its candidate
  Ids,           \* the ids a membership row may get; random, only their order counts
  BatchSize,     \* controlFlags.batchSize
  BatchInterval, \* controlFlags.batchInterval, in ticks
  MaxTime,       \* bound: the clock
  MaxDelay,      \* bound: the age a request in flight may reach
  AttemptBound,  \* bound: attempts per candidate
  MaxFailures    \* bound: calls cut off half way

\* joinOrder is the order in which the rows were committed; no statement reads
\* it, the properties do.
Membership == [candidate: Candidates, joinedAt: Nat, admittedAt: Nat \cup {None},
               consumedAt: Nat \cup {None}, attempt: Nat \cup {None}, joinOrder: Nat]

ASSUME AdmissionAssumption ==
  /\ BatchSize \in Nat \ {0}
  /\ BatchInterval \in Nat \ {0}
  /\ MaxTime \in Nat /\ MaxDelay \in Nat
  /\ AttemptBound \in Nat /\ MaxFailures \in Nat
  /\ Ids \subseteq Nat /\ IsFiniteSet(Ids)
  /\ None \notin Nat /\ None \notin Ids
  /\ Owner \in [Tabs -> Candidates] /\ None \notin Tabs
  /\ None \notin Membership

VARIABLES
  now,          \* fastify.now()
  rows,         \* exam_admissions: id -> membership, or None
  active,       \* candidate -> has an attempt in progress or disrupted
  attemptCount, \* enrollment.attemptCount
  lock,         \* candidate -> the start transaction that holds the enrollment row
  call,         \* tab -> its request in flight
  failures

vars == <<now, rows, active, attemptCount, lock, call, failures>>

Cand(t) == Owner[t]

Steps == {"idle", "check", "join", "reread", "find", "anchor", "ordinal",
          "admit", "lock", "commit"}

\* What a handler keeps between its statements.
NoCall == [pc |-> "idle", start |-> FALSE, at |-> 0, tries |-> 0,
           row |-> None, released |-> 0, admits |-> FALSE]

Init ==
  /\ now = 0
  /\ rows = [i \in Ids |-> None]
  /\ active = [c \in Candidates |-> FALSE]
  /\ attemptCount = [c \in Candidates |-> 0]
  /\ lock = [c \in Candidates |-> None]
  /\ call = [t \in Tabs |-> NoCall]
  /\ failures = 0

-----------------------------------------------------------------------------
(* Statements of the repository *)

Members == {i \in Ids : rows[i] # None}

\* findActive: the partial unique index leaves at most one.
ActiveOf(c) == {i \in Members : rows[i].candidate = c /\ rows[i].consumedAt = None}

\* The order (joined_at, id).
Ahead(i, j) ==
  \/ rows[i].joinedAt < rows[j].joinedAt
  \/ rows[i].joinedAt = rows[j].joinedAt /\ i < j

\* MUTANT of AllAhead: only the memberships that are still active count.
ActiveAhead(j) == {i \in Members : rows[i].consumedAt = None /\ Ahead(i, j)}

\* countAllAhead: active and consumed memberships.
AllAhead(j) == {i \in Members : Ahead(i, j)}

scheduleOrdinal(j) == Cardinality(AllAhead(j)) + 1

\* computeBatchRelease, for the anchor that a row's joined_at is.
ReleasedBatches(anchor, at) ==
  (IF at > anchor THEN at - anchor ELSE 0) \div BatchInterval + 1

\* computeBatchNumber: the ordinal over the batch size, rounded up.
BatchNumber(ordinal) == (ordinal + BatchSize - 1) \div BatchSize

-----------------------------------------------------------------------------
(* Control of one call *)

At(t, step) == call[t].pc = step

Goto(t, step) == call' = [call EXCEPT ![t].pc = step]

\* The handler answers and forgets.
Finish(t) == call' = [call EXCEPT ![t] = NoCall]

Unlock(t) == lock' = [lock EXCEPT ![Cand(t)] = None]

\* QueueAdmissionRequiredError: the transaction rolls back.
Refuse(t) == Finish(t) /\ Unlock(t)

\* MUTANT of NotAdmitted: the gate takes a waiting membership for an admission.
WaitingPasses(t) ==
  /\ IF call[t].start THEN Goto(t, "commit") ELSE Finish(t)
  /\ UNCHANGED lock

\* A reconciliation that admits nobody: the start gate fails closed, the queue
\* handler goes on to report.  previewAdmissionStatus only reads, so the report
\* is part of the step before it.
NotAdmitted(t) ==
  IF call[t].start THEN Refuse(t)
                   ELSE Finish(t) /\ UNCHANGED lock

-----------------------------------------------------------------------------
(* POST /attempts/:examId/queue *)

Poll(t) ==
  /\ At(t, "idle")
  /\ call' = [call EXCEPT ![t] = [NoCall EXCEPT !.pc = "check", !.at = now]]
  /\ UNCHANGED <<now, rows, active, attemptCount, lock, failures>>

\* findActiveByEnrollment, without a lock: someone in progress is told to go in.
CheckAttempt(t) ==
  /\ At(t, "check")
  /\ IF active[Cand(t)] THEN Finish(t) ELSE Goto(t, "join")
  /\ UNCHANGED <<now, rows, active, attemptCount, lock, failures>>

\* joinActive: INSERT ... ON CONFLICT DO NOTHING against the partial index.
JoinActive(t) ==
  /\ At(t, "join")
  /\ IF ActiveOf(Cand(t)) = {}
       THEN \E i \in Ids \ Members :
              /\ rows' = [rows EXCEPT ![i] =
                   [candidate |-> Cand(t), joinedAt |-> call[t].at,
                    admittedAt |-> None, consumedAt |-> None, attempt |-> None,
                    joinOrder |-> Cardinality(Members)]]
              /\ Goto(t, "find")
       ELSE Goto(t, "reread") /\ UNCHANGED rows
  /\ UNCHANGED <<now, active, attemptCount, lock, failures>>

\* The row that was in the way is read back; if it has been consumed meanwhile
\* the insert is tried again, three times in all.
JoinReread(t) ==
  /\ At(t, "reread")
  /\ \/ ActiveOf(Cand(t)) # {} /\ Goto(t, "find")
     \/ /\ ActiveOf(Cand(t)) = {}
        /\ IF call[t].tries < 2
             THEN call' = [call EXCEPT ![t].pc = "join", ![t].tries = @ + 1]
             ELSE Finish(t)
  /\ UNCHANGED <<now, rows, active, attemptCount, lock, failures>>

-----------------------------------------------------------------------------
(* POST /attempts/:examId/start, up to the gate *)

StartRequest(t) ==
  /\ At(t, "idle")
  /\ call' = [call EXCEPT ![t] = [NoCall EXCEPT !.pc = "lock", !.start = TRUE, !.at = now]]
  /\ UNCHANGED <<now, rows, active, attemptCount, lock, failures>>

\* Re-entry of an active attempt returns before the gate, and so does a
\* candidate without attempts left.
StartLock(t) ==
  /\ At(t, "lock")
  /\ lock[Cand(t)] = None
  /\ IF active[Cand(t)] \/ attemptCount[Cand(t)] >= AttemptBound
       THEN Finish(t) /\ UNCHANGED lock
       ELSE Goto(t, "find") /\ lock' = [lock EXCEPT ![Cand(t)] = t]
  /\ UNCHANGED <<now, rows, active, attemptCount, failures>>

-----------------------------------------------------------------------------
(* reconcileAdmission, for the queue handler and for the gate *)

FindActive(t) ==
  /\ At(t, "find")
  /\ \/ ActiveOf(Cand(t)) = {} /\ NotAdmitted(t)
     \/ \E i \in ActiveOf(Cand(t)) :
          \/ /\ rows[i].admittedAt # None
             /\ IF call[t].start THEN Goto(t, "commit") ELSE Finish(t)
             /\ UNCHANGED lock
          \/ /\ rows[i].admittedAt = None
             /\ call' = [call EXCEPT ![t].pc = "anchor", ![t].row = i]
             /\ UNCHANGED lock
  /\ UNCHANGED <<now, rows, active, attemptCount, failures>>

\* MUTANT of ReadAnchor: the schedule starts with the newest membership.
ReadNewest(t) ==
  /\ At(t, "anchor")
  /\ \E i \in Members :
       /\ \A j \in Members : rows[i].joinedAt >= rows[j].joinedAt
       /\ call' = [call EXCEPT
            ![t].pc = "ordinal",
            ![t].released = ReleasedBatches(rows[i].joinedAt, call[t].at) - 1]
  /\ UNCHANGED <<now, rows, active, attemptCount, lock, failures>>

\* earliestJoinedAt over all memberships, and the batches released since.
ReadAnchor(t) ==
  /\ At(t, "anchor")
  /\ \E i \in Members :
       /\ \A j \in Members : rows[i].joinedAt <= rows[j].joinedAt
       /\ call' = [call EXCEPT
            ![t].pc = "ordinal",
            ![t].released = ReleasedBatches(rows[i].joinedAt, call[t].at)]
  /\ UNCHANGED <<now, rows, active, attemptCount, lock, failures>>

ReadOrdinal(t) ==
  /\ At(t, "ordinal")
  /\ IF BatchNumber(scheduleOrdinal(call[t].row)) > call[t].released
       THEN NotAdmitted(t)
       ELSE Goto(t, "admit") /\ UNCHANGED lock
  /\ UNCHANGED <<now, rows, active, attemptCount, failures>>

\* A start transaction has written admitted_at and not yet committed: it holds
\* the row.
RowHeld(i) == \E t \in Tabs : At(t, "commit") /\ call[t].admits /\ call[t].row = i

\* admitOnce, CAS on admitted_at IS NULL.  The queue handler's commits at once.
\* A start whose CAS finds the row admitted goes on with the row it read, which
\* is not.
AdmitOnce(t) ==
  LET i == call[t].row IN
  /\ At(t, "admit")
  /\ ~RowHeld(i)
  /\ \/ /\ ~call[t].start
        /\ rows' = [rows EXCEPT ![i].admittedAt = IF @ = None THEN call[t].at ELSE @]
        /\ Finish(t)
        /\ UNCHANGED lock
     \/ /\ call[t].start /\ rows[i].admittedAt = None
        /\ call' = [call EXCEPT ![t].pc = "commit", ![t].admits = TRUE]
        /\ UNCHANGED <<rows, lock>>
     \/ /\ call[t].start /\ rows[i].admittedAt # None
        /\ Refuse(t)
        /\ UNCHANGED rows
  /\ UNCHANGED <<now, active, attemptCount, failures>>

-----------------------------------------------------------------------------
(* The rest of the start transaction: create the attempt, consume, commit *)

Consumed(row, t) ==
  [row EXCEPT !.admittedAt = IF call[t].admits /\ @ = None THEN call[t].at ELSE @,
              !.consumedAt = call[t].at,
              !.attempt = attemptCount[Cand(t)] + 1]

StartCommit(t) ==
  /\ At(t, "commit")
  /\ ActiveOf(Cand(t)) # {}
  /\ rows' = [i \in Ids |-> IF i \in ActiveOf(Cand(t)) THEN Consumed(rows[i], t) ELSE rows[i]]
  /\ active' = [active EXCEPT ![Cand(t)] = TRUE]
  /\ attemptCount' = [attemptCount EXCEPT ![Cand(t)] = @ + 1]
  /\ Finish(t)
  /\ Unlock(t)
  /\ UNCHANGED <<now, failures>>

\* A call is cut off: the process dies, the database refuses, or a check of the
\* start after the gate (the late-entry cutoff) throws.  Its transaction, if it
\* has one, rolls back.
CutOff(t) ==
  /\ ~At(t, "idle")
  /\ failures < MaxFailures
  /\ failures' = failures + 1
  /\ Finish(t)
  /\ lock' = [lock EXCEPT ![Cand(t)] = IF @ = t THEN None ELSE @]
  /\ UNCHANGED <<now, rows, active, attemptCount>>

\* The attempt is submitted, under the enrollment lock.  The last one modelled
\* stays.
EndAttempt(c) ==
  /\ active[c]
  /\ attemptCount[c] < AttemptBound
  /\ lock[c] = None
  /\ active' = [active EXCEPT ![c] = FALSE]
  /\ UNCHANGED <<now, rows, attemptCount, lock, call, failures>>

Tick ==
  /\ now < MaxTime
  /\ \A t \in Tabs : At(t, "idle") \/ now - call[t].at < MaxDelay
  /\ now' = now + 1
  /\ UNCHANGED <<rows, active, attemptCount, lock, call, failures>>

Step(t) ==
  \/ CheckAttempt(t) \/ JoinActive(t) \/ JoinReread(t)
  \/ StartLock(t) \/ FindActive(t) \/ ReadAnchor(t) \/ ReadOrdinal(t)
  \/ AdmitOnce(t) \/ StartCommit(t)

Next ==
  \/ \E t \in Tabs : Poll(t) \/ StartRequest(t) \/ Step(t) \/ CutOff(t)
  \/ \E c \in Candidates : EndAttempt(c)
  \/ Tick

Spec == Init /\ [][Next]_vars

\* The clock runs, a handler's next statement is executed, and the waiting page
\* sends its queue request again and again until one fails (StartExamPage.tsx:
\* then the candidate has to press start again, which nothing guarantees).
FairSpec ==
  /\ Spec
  /\ WF_vars(Tick)
  /\ \A t \in Tabs : WF_vars(Step(t)) /\ SF_vars(Poll(t))

-----------------------------------------------------------------------------
(* Properties *)

Call == [pc: Steps, start: BOOLEAN, at: Nat, tries: 0..2, row: Ids \cup {None},
         released: Nat, admits: BOOLEAN]

\* The columns and the handlers' locals keep their types
\* (schema/pg.ts, examAdmissions).
TypeOK ==
  /\ now \in Nat
  /\ rows \in [Ids -> Membership \cup {None}]
  /\ active \in [Candidates -> BOOLEAN]
  /\ attemptCount \in [Candidates -> Nat]
  /\ lock \in [Candidates -> Tabs \cup {None}]
  /\ call \in [Tabs -> Call]
  /\ failures \in Nat

\* Every attempt was paid for by exactly one membership, admitted before it was
\* consumed, and no membership paid for two: the consumption in the transaction
\* that creates the attempt leaves no window, whatever two tabs, a retake or a
\* rollback do (attemptCommands.ts, consumeActive).
AttemptsAdmitted ==
  /\ \A i \in Members :
       rows[i].consumedAt # None =>
         /\ rows[i].attempt \in 1..attemptCount[rows[i].candidate]
         /\ rows[i].admittedAt # None
  /\ \A c \in Candidates : \A k \in 1..attemptCount[c] :
       \E i \in Members :
         /\ rows[i].candidate = c /\ rows[i].attempt = k
         /\ \A j \in Members : rows[j].candidate = c /\ rows[j].attempt = k => j = i

\* Those that were there before a membership and come before it in the order.
AheadAtJoin(j) == {i \in Members : Ahead(i, j) /\ rows[i].joinOrder < rows[j].joinOrder}

\* Nobody is admitted before the batch that those who had joined ahead of them
\* put them in: neither starts nor retakes of others nor a reconciliation that
\* acts on what it read a while ago pull a candidate forward
\* (admissionCommands.ts, reconcileAdmission).
AdmittedOnSchedule ==
  \A j \in Members : rows[j].admittedAt # None =>
    \E i \in Members :
      BatchNumber(Cardinality(AheadAtJoin(j)) + 1)
        <= ReleasedBatches(rows[i].joinedAt, rows[j].admittedAt)

JoinsInOrder ==
  \A i, j \in Members : rows[i].joinOrder < rows[j].joinOrder => Ahead(i, j)

Admitted == {i \in Members : rows[i].admittedAt # None}

\* As long as memberships are committed in the order of their times, no more
\* candidates are let in than the released batches hold
\* (admissionCommands.ts, computeBatchRelease).
BatchCapHeld ==
  JoinsInOrder /\ Admitted # {} =>
    \E i \in Members :
      Cardinality(Admitted) <= BatchSize * ReleasedBatches(rows[i].joinedAt, now)

\* A membership's place, admission and consumption are each written once, by
\* whichever of the concurrent reconciliations and starts comes first
\* (examAdmissionRepo.ts, admitOnce and consumeActive).
AdmissionWrittenOnce ==
  [][\A i \in Members :
       /\ rows'[i] # None
       /\ rows'[i].candidate = rows[i].candidate /\ rows'[i].joinedAt = rows[i].joinedAt
       /\ rows[i].admittedAt # None => rows'[i].admittedAt = rows[i].admittedAt
       /\ rows[i].consumedAt # None => rows'[i] = rows[i]]_vars

\* A membership whose batch the modelled time does not reach.
BeyondHorizon(i) ==
  \A j \in Members :
    BatchNumber(scheduleOrdinal(i)) > ReleasedBatches(rows[j].joinedAt, MaxTime)

Waiting(c) == \E i \in ActiveOf(c) : rows[i].admittedAt = None /\ ~BeyondHorizon(i)

\* A candidate who keeps polling is let in: no background job exists, the polls
\* themselves have to find the batch released (admissionCommands.ts,
\* reconcileAdmission; StartExamPage.tsx).
WaitingIsServed ==
  \A c \in Candidates : Waiting(c) ~> (active[c] \/ ~Waiting(c))

\* The queue route's comment: a candidate in progress gets no fresh membership.
NoMembershipWhileActive ==
  \A c \in Candidates : active[c] => ActiveOf(c) = {}
=============================================================================
