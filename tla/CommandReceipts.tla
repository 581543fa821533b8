--------------------------- MODULE CommandReceipts ---------------------------
(***************************************************************************)
(* How the staff commands on an attempt are executed: a force-submit and a *)
(* misconduct mark by apps/api/src/orchestrators/forceSubmitExecution.ts   *)
(* and misconductMarkExecution.ts, with a receipt per operation id; an     *)
(* operator time grant by operatorGrantExecution.ts, with an adjustment    *)
(* row per operation id.                                                   *)
(*                                                                         *)
(* Each runs one REPEATABLE READ transaction (executeInTransaction, which  *)
(* retries a serialization failure).  A transaction fixes its snapshot     *)
(* with its first statement, waits for the attempt's row lock, and fails   *)
(* with 40001 if the row changed since the snapshot.  An insert waits for  *)
(* an uncommitted row of the same operation id, and fails with 23505 if a  *)
(* committed one exists, seen by the snapshot or not.                      *)
(***************************************************************************)
EXTENDS Naturals

CONSTANTS
  None, Slots, Ops, Attempts, Manual, Payloads, Times, MaxExtension, Commands,
  MaxRetries  \* MAX_RETRIES of executeInTransaction

VARIABLES
  attempts, ledger, audits,
  lock,     \* attempt -> the transaction that holds its row
  pending,  \* key -> the transaction with an uncommitted row
  job       \* slot -> the handler of a delivery

vars == <<attempts, ledger, audits, lock, pending, job>>

\* What the client of each slot sees.
ClientCalls == [s \in Slots |-> [cmd |-> job[s].cmd, reply |-> job[s].reply]]

\* The refinement mapping: the contract's attempts, ledger and audits are the
\* committed tables, its calls what the clients see.
Contract == INSTANCE CommandContract WITH
              attempts <- attempts, ledger <- ledger, audits <- audits,
              calls <- ClientCalls

Key(c) == Contract!Key(c)
SameCommand(row, c) == Contract!SameCommand(row, c)

ASSUME ReceiptsAssumption ==
  /\ Payloads \subseteq Nat \ {0}
  /\ Manual \subseteq Attempts
  /\ MaxExtension \in Nat /\ MaxRetries \in Nat
  /\ Commands \subseteq Contract!Command
  /\ None \notin Slots /\ None \notin Contract!Command
  /\ None \notin Contract!Row /\ None \notin Contract!Reply
  /\ None \notin [at: Times, payload: Payloads]

Steps == {"idle", "preread", "begin", "lock", "insert", "commit", "recover"}

\* tries counts the retries of one executeInTransaction; stale says that the
\* attempt's row changed after the snapshot; seen is the row of the operation
\* id in the snapshot; row is the plan; rerun marks the grant's recovery.
JobOf(step, c, reply) ==
  [pc |-> step, cmd |-> c, reply |-> reply, tries |-> 0, stale |-> FALSE,
   seen |-> None, row |-> None, rerun |-> FALSE]

NoJob == JobOf("idle", None, None)

Init ==
  /\ attempts = [a \in Attempts |-> [status |-> "active", flag |-> None, deadline |-> 0]]
  /\ ledger = [k \in Contract!Keys |-> None]
  /\ audits = [k \in Contract!Keys |-> 0]
  /\ lock = [a \in Attempts |-> None]
  /\ pending = [k \in Contract!Keys |-> None]
  /\ job = [s \in Slots |-> NoJob]

-----------------------------------------------------------------------------
(* Control of one delivery *)

At(s, step) == job[s].pc = step

Finished(s, outcome, row) ==
  JobOf("idle", job[s].cmd, [outcome |-> outcome, row |-> row])

\* The response, or the error thrown.
Respond(s, outcome, row) == job' = [job EXCEPT ![s] = Finished(s, outcome, row)]

\* classifyStoredReceipt, and step 4 of grantAttemptTime.
Classify(s, row) ==
  IF SameCommand(row, job[s].cmd) THEN Respond(s, "idempotent_replay", row)
                                  ELSE Respond(s, "conflict", None)

\* A transaction ends: its locks go.  An uncommitted row goes or stays with it.
Release(s) ==
  /\ lock' = [a \in Attempts |-> IF lock[a] = s THEN None ELSE lock[a]]
  /\ pending' = [k \in Contract!Keys |-> IF pending[k] = s THEN None ELSE pending[k]]

\* The jobs after s writes the row of attempt a and answers: whoever has its
\* snapshot and waits for the row will fail with 40001.
Outdated(jobs, a) ==
  [r \in Slots |-> IF jobs[r].pc = "lock" /\ jobs[r].cmd.attempt = a
                     THEN [jobs[r] EXCEPT !.stale = TRUE]
                     ELSE jobs[r]]

-----------------------------------------------------------------------------
(* The steps of a command *)

\* A request arrives; a grant has no read outside its transaction.
Deliver(s, c) ==
  /\ At(s, "idle")
  /\ job' = [job EXCEPT ![s] =
               JobOf(IF c.kind = "time_grant" THEN "begin" ELSE "preread", c, None)]
  /\ UNCHANGED <<attempts, ledger, audits, lock, pending>>

\* MUTANT of PreRead: any stored receipt of the operation id is replayed.
ReplayUnclassified(s) ==
  LET row == ledger[Key(job[s].cmd)] IN
  /\ At(s, "preread")
  /\ IF row = None THEN job' = [job EXCEPT ![s].pc = "begin"]
                   ELSE Respond(s, "idempotent_replay", row)
  /\ UNCHANGED <<attempts, ledger, audits, lock, pending>>

\* preReadStoredReceipt, outside any transaction.
PreRead(s) ==
  LET row == ledger[Key(job[s].cmd)] IN
  /\ At(s, "preread")
  /\ IF row = None THEN job' = [job EXCEPT ![s].pc = "begin"] ELSE Classify(s, row)
  /\ UNCHANGED <<attempts, ledger, audits, lock, pending>>

\* captureBackendIdentity is the first statement, which takes the snapshot.
Begin(s) ==
  /\ At(s, "begin")
  /\ job' = [job EXCEPT ![s].pc = "lock", ![s].stale = FALSE,
                        ![s].seen = ledger[Key(job[s].cmd)]]
  /\ UNCHANGED <<attempts, ledger, audits, lock, pending>>

\* executeInTransaction after a 40001.
Retry(s) ==
  IF job[s].tries < MaxRetries
    THEN job' = [job EXCEPT ![s].pc = "begin", ![s].tries = @ + 1]
    ELSE Respond(s, "error", None)

\* lockEnrollmentAndAttempt, or findByIdForUpdate of a misconduct mark, fails.
LockOutdated(s) ==
  /\ At(s, "lock") /\ lock[job[s].cmd.attempt] = None
  /\ job[s].stale
  /\ Retry(s)
  /\ UNCHANGED <<attempts, ledger, audits, lock, pending>>

\* MUTANT of TakeLock: the row is read, not locked.
ReadOnly(s) == UNCHANGED lock

\* FOR UPDATE.
TakeLock(s) == lock' = [lock EXCEPT ![job[s].cmd.attempt] = s]

\* The lock, then the plan: planForceSubmitExecution, buildAppliedResultPayload,
\* or grantAttemptTime up to the insert, when the snapshot shows no adjustment
\* of this operation id and the attempt is neither over nor overdue.
LockAndPlan(s) ==
  LET c == job[s].cmd
      att == attempts[c.attempt] IN
  /\ At(s, "lock") /\ lock[c.attempt] = None
  /\ ~job[s].stale
  /\ c.kind = "time_grant" => job[s].seen = None
  /\ Contract!Permitted(c, att)
  /\ TakeLock(s)
  /\ job' = [job EXCEPT ![s].pc = "insert", ![s].row = Contract!PlannedRow(c, att)]
  /\ UNCHANGED <<attempts, ledger, audits, pending>>

\* grantAttemptTime finds the operation id.
GrantReplay(s) ==
  /\ At(s, "lock") /\ lock[job[s].cmd.attempt] = None
  /\ ~job[s].stale
  /\ job[s].cmd.kind = "time_grant" /\ job[s].seen # None
  /\ Classify(s, job[s].seen)
  /\ UNCHANGED <<attempts, ledger, audits, lock, pending>>

\* ensureAttemptDeadlineReconciled ends an overdue attempt, and then, as for an
\* attempt that was over, the grant reports "terminal" and inserts nothing.
GrantTerminal(s) ==
  LET c == job[s].cmd
      over == attempts[c.attempt].status # "active"
      done == [job EXCEPT ![s] = Finished(s, "terminal", None)] IN
  /\ At(s, "lock") /\ lock[c.attempt] = None
  /\ ~job[s].stale
  /\ c.kind = "time_grant" /\ job[s].seen = None
  /\ IF over
       THEN attempts' = attempts /\ job' = done
       ELSE /\ attempts' = [attempts EXCEPT ![c.attempt].status =
                              Contract!Submitted(c.attempt)]
            /\ job' = Outdated(done, c.attempt)
  /\ UNCHANGED <<ledger, audits, lock, pending>>

\* AttemptDeadlineExceedsExamCloseError.
GrantRefused(s) ==
  LET c == job[s].cmd
      att == attempts[c.attempt] IN
  /\ At(s, "lock") /\ lock[c.attempt] = None
  /\ ~job[s].stale
  /\ c.kind = "time_grant" /\ job[s].seen = None
  /\ att.status = "active" /\ att.deadline + c.payload > MaxExtension
  /\ Respond(s, "error", None)
  /\ UNCHANGED <<attempts, ledger, audits, lock, pending>>

\* The unique index holds a committed row of this operation id.
Duplicate(k) == ledger[k] # None

\* MUTANT of Insert: the row is written outside the transaction.
InsertCommitted(s) ==
  LET k == Key(job[s].cmd) IN
  /\ At(s, "insert") /\ pending[k] = None
  /\ ~Duplicate(k)
  /\ ledger' = [ledger EXCEPT ![k] = job[s].row]
  /\ pending' = [pending EXCEPT ![k] = s]
  /\ job' = [job EXCEPT ![s].pc = "commit"]
  /\ UNCHANGED <<attempts, audits, lock>>

\* insertReceipt, adjustmentRepo.insert: the first write, which waits while
\* another transaction's row of the operation id is uncommitted.
Insert(s) ==
  LET k == Key(job[s].cmd) IN
  /\ At(s, "insert") /\ pending[k] = None
  /\ ~Duplicate(k)
  /\ pending' = [pending EXCEPT ![k] = s]
  /\ job' = [job EXCEPT ![s].pc = "commit"]
  /\ UNCHANGED <<attempts, ledger, audits, lock>>

\* MUTANT of Rollback: the lock is kept.
RollbackHoldingLock(s) ==
  /\ pending' = [k \in Contract!Keys |-> IF pending[k] = s THEN None ELSE pending[k]]
  /\ UNCHANGED lock

Rollback(s) == Release(s)

\* 23505: the transaction rolls back; a receipt's loser reads the winner, a
\* grant runs once more from the start, and then gives up.
UniqueViolation(s) ==
  /\ At(s, "insert")
  /\ Duplicate(Key(job[s].cmd))
  /\ Rollback(s)
  /\ IF job[s].cmd.kind # "time_grant"
       THEN job' = [job EXCEPT ![s].pc = "recover"]
       ELSE IF job[s].rerun
              THEN Respond(s, "invariant_violation", None)
              ELSE job' = [job EXCEPT ![s].pc = "begin", ![s].tries = 0,
                                      ![s].rerun = TRUE]
  /\ UNCHANGED <<attempts, ledger, audits>>

\* runReceiptRecovery, in a fresh transaction that only reads.
Recover(s) ==
  LET row == ledger[Key(job[s].cmd)] IN
  /\ At(s, "recover")
  /\ IF row = None THEN Respond(s, "invariant_violation", None) ELSE Classify(s, row)
  /\ UNCHANGED <<attempts, ledger, audits, lock, pending>>

\* plan.needsAudit, and the grant's outcome "granted".
WritesAudit(row) == Contract!Audited(row)

\* The rest of the transaction, which becomes visible at once with its COMMIT:
\* the row, submission and grading or the flag or the deadline, and the audit.
Commit(s) ==
  LET c == job[s].cmd
      row == job[s].row
      done == [job EXCEPT ![s] = Finished(s, row.outcome, row)] IN
  /\ At(s, "commit")
  /\ ledger' = [ledger EXCEPT ![Key(c)] = row]
  /\ attempts' = [attempts EXCEPT ![c.attempt] = Contract!Effect(row, @)]
  /\ audits' = IF WritesAudit(row) THEN [audits EXCEPT ![Key(c)] = @ + 1] ELSE audits
  /\ job' = IF Contract!Audited(row) THEN Outdated(done, c.attempt) ELSE done
  /\ Release(s)

\* The process or its connection dies, or a statement fails: the database rolls
\* back what was not committed.
Abort(s) ==
  /\ ~At(s, "idle")
  /\ Release(s)
  /\ Respond(s, "error", None)
  /\ UNCHANGED <<attempts, ledger, audits>>

-----------------------------------------------------------------------------
(* Everyone else who writes the attempt, under its row lock *)

\* An answer save, a heartbeat: no column of the model, but a new row version.
Touch(a) ==
  /\ lock[a] = None
  /\ job' = Outdated(job, a)
  /\ UNCHANGED <<attempts, ledger, audits, lock, pending>>

\* The candidate or a scanner submits, the last manual grade is given.
Advance(a) ==
  /\ lock[a] = None
  /\ \/ /\ attempts[a].status = "active"
        /\ attempts' = [attempts EXCEPT ![a].status = Contract!Submitted(a)]
     \/ /\ attempts[a].status = "submitted"
        /\ attempts' = [attempts EXCEPT ![a].status = "graded"]
  /\ job' = Outdated(job, a)
  /\ UNCHANGED <<ledger, audits, lock, pending>>

Step(s) ==
  \/ PreRead(s) \/ Begin(s) \/ LockOutdated(s) \/ LockAndPlan(s)
  \/ GrantReplay(s) \/ GrantTerminal(s) \/ GrantRefused(s)
  \/ Insert(s) \/ UniqueViolation(s) \/ Recover(s) \/ Commit(s)

Next ==
  \/ \E s \in Slots : Step(s) \/ Abort(s) \/ \E c \in Commands : Deliver(s, c)
  \/ \E a \in Attempts : Touch(a) \/ Advance(a)

Spec == Init /\ [][Next]_vars

\* The server and the database go on.  Postgres grants a lock, and lets a
\* blocked insert go, in the order of arrival, so nobody waits for ever.
FairSpec == Spec /\ \A s \in Slots : SF_vars(Step(s))

-----------------------------------------------------------------------------

Job == [pc: Steps, cmd: Contract!Command \cup {None}, reply: Contract!Reply \cup {None},
        tries: 0..MaxRetries, stale: BOOLEAN, seen: Contract!Row \cup {None},
        row: Contract!Row \cup {None}, rerun: BOOLEAN]

\* Every row, lock and handler has its type; no transaction is retried more than
\* MAX_RETRIES times.
TypeOK ==
  /\ attempts \in [Attempts -> Contract!Attempt]
  /\ ledger \in [Contract!Keys -> Contract!Row \cup {None}]
  /\ audits \in [Contract!Keys -> Nat]
  /\ lock \in [Attempts -> Slots \cup {None}]
  /\ pending \in [Contract!Keys -> Slots \cup {None}]
  /\ job \in [Slots -> Job]

\* Every delivery, with its retries, its lost race and its recovery, behaves as
\* one atomic execution or as one answer from the row its operation id has.
ImplementsContract == Contract!CSpec

\* The loser of a race for an operation id always finds the winner's row: no
\* handler ends in INTERNAL_INVARIANT_VIOLATION, and the second run of a grant
\* never loses again.
WinnerIsFound ==
  \A s \in Slots :
    job[s].reply # None => job[s].reply.outcome # "invariant_violation"

\* The adjustment k of attempt a moved its deadline over second t.
Covers(k, a, t) ==
  /\ ledger[k] # None
  /\ ledger[k].kind = "time_grant" /\ ledger[k].attempt = a
  /\ ledger[k].beforeDeadline <= t /\ t < ledger[k].afterDeadline

\* Every second a deadline was moved by belongs to exactly one adjustment row of
\* the attempt: no retry, rerun or second delivery adds the time again, and none
\* is added on behalf of another attempt.
SecondsAccounted ==
  \A a \in Attempts :
    \A t \in 0..(attempts[a].deadline - 1) :
      \E k \in Contract!Keys :
        Covers(k, a, t) /\ \A j \in Contract!Keys : Covers(j, a, t) => j = k

Applied(k, kind, a) ==
  /\ ledger[k] # None
  /\ ledger[k].kind = kind /\ ledger[k].attempt = a /\ ledger[k].outcome = "applied"

\* One attempt is force-submitted at most once, and stays over; its misconduct
\* flag is what the receipt of some mark says, and there is one if any was made.
ReceiptsTellTheTruth ==
  \A a \in Attempts :
    /\ \A j, k \in Contract!Keys :
         Applied(j, "force_submit", a) =>
           /\ attempts[a].status # "active"
           /\ Applied(k, "force_submit", a) => j = k
    /\ IF attempts[a].flag = None
         THEN ~\E k \in Contract!Keys : Applied(k, "misconduct_mark", a)
         ELSE \E k \in Contract!Keys :
                /\ Applied(k, "misconduct_mark", a)
                /\ attempts[a].flag = [at |-> ledger[k].at, payload |-> ledger[k].payload]

\* An operation is audited exactly once, if it changed something.
AuditedOnce ==
  \A k \in Contract!Keys :
    audits[k] = IF ledger[k] # None /\ Contract!Audited(ledger[k]) THEN 1 ELSE 0

\* Every delivery is answered.
EveryDeliveryAnswered == \A s \in Slots : ~At(s, "idle") ~> At(s, "idle")
=============================================================================
