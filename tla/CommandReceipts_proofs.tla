------------------------ MODULE CommandReceipts_proofs ------------------------
(***************************************************************************)
(* Proofs about the execution of the staff commands, for any deliveries,   *)
(* operation ids, attempts and bounds.                                     *)
(***************************************************************************)
EXTENDS CommandReceipts, TLAPS

-----------------------------------------------------------------------------
(* The inductive invariant *)

Holds(s) == job[s].pc \in {"insert", "commit"}

\* Which fields a handler has filled at which step.
Shape(s) ==
  /\ At(s, "idle") => (job[s].cmd = None <=> job[s].reply = None)
  /\ ~At(s, "idle") => job[s].cmd # None /\ job[s].reply = None
  /\ job[s].pc \in {"preread", "recover"} => job[s].cmd.kind # "time_grant"

\* The row locks and the uncommitted rows belong to the handlers that are at
\* the steps between taking and releasing them.
LocksOwned ==
  /\ \A s \in Slots, a \in Attempts :
       lock[a] = s <=> (Holds(s) /\ job[s].cmd.attempt = a)
  /\ \A s \in Slots, k \in Contract!Keys :
       pending[k] = s <=> (At(s, "commit") /\ Key(job[s].cmd) = k)
  /\ \A k \in Contract!Keys : pending[k] # None => ledger[k] = None

\* A plan is made from the attempt as it is until the commit.
PlanCurrent(s) ==
  LET c == job[s].cmd IN
  Holds(s) => /\ job[s].row = Contract!PlannedRow(c, attempts[c.attempt])
              /\ Contract!Permitted(c, attempts[c.attempt])

\* What the snapshot showed is still there; a lost race has a committed winner.
WinnerKept(s) ==
  LET row == ledger[Key(job[s].cmd)] IN
  /\ At(s, "lock") /\ job[s].seen # None => row = job[s].seen
  /\ At(s, "recover") => row # None
  /\ At(s, "begin") /\ job[s].rerun => row # None
  /\ At(s, "lock") /\ job[s].rerun => job[s].seen # None
  /\ job[s].rerun => job[s].cmd.kind = "time_grant" /\ ~Holds(s)

SlotInv(s) == Shape(s) /\ PlanCurrent(s) /\ WinnerKept(s)

IInv == TypeOK /\ LocksOwned /\ (\A s \in Slots : SlotInv(s)) /\ WinnerIsFound

-----------------------------------------------------------------------------
(* Facts about the operators of the contract *)

\* A command has a key of one of the two tables.
LEMMA KeyType ==
  ASSUME NEW c \in Contract!Command
  PROVE  Key(c) \in Contract!Keys
  BY DEF Key, Contract!Key, Contract!Keys, Contract!Command

\* A submission leaves the attempt over.
LEMMA SubmittedType ==
  ASSUME NEW a
  PROVE  Contract!Submitted(a) \in Contract!Statuses /\ Contract!Submitted(a) # "active"
  BY DEF Contract!Submitted, Contract!Statuses

\* What a plan says about its command.
LEMMA PlannedRowFacts ==
  ASSUME NEW c \in Contract!Command, NEW att \in Contract!Attempt
  PROVE  LET row == Contract!PlannedRow(c, att) IN
         /\ row \in Contract!Row
         /\ row.kind = c.kind /\ row.attempt = c.attempt
         /\ row.payload = c.payload /\ row.at = c.at
<1> DEFINE row == Contract!PlannedRow(c, att)
<1>1. CASE c.kind = "force_submit"
  <2>1. row = Contract!ForceSubmitRow(c, att)
    BY <1>1 DEF Contract!PlannedRow
  <2>2. att.status \in Contract!Statuses /\ Contract!Submitted(c.attempt) \in Contract!Statuses
    BY SubmittedType DEF Contract!Attempt
  <2>3. \E b \in Contract!Statuses, e \in Contract!Statuses, o \in {"applied", "no_change"} :
          row = [kind |-> c.kind, attempt |-> c.attempt, payload |-> c.payload, at |-> c.at,
                 outcome |-> o, beforeStatus |-> b, afterStatus |-> e,
                 beforeDeadline |-> 0, afterDeadline |-> 0]
    BY <2>1, <2>2 DEF Contract!ForceSubmitRow, Contract!RowOf
  <2> QED
    BY <2>3 DEF Contract!Row, Contract!Command
<1>2. CASE c.kind = "misconduct_mark"
  <2>1. row = Contract!MisconductRow(c)
    BY <1>2 DEF Contract!PlannedRow
  <2> QED
    BY <1>2, <2>1
    DEF Contract!MisconductRow, Contract!RowOf, Contract!Row, Contract!Command,
        Contract!Kinds, Contract!ReceiptKinds
<1>3. CASE c.kind = "time_grant"
  <2>1. row = Contract!GrantRow(c, att)
    BY <1>3 DEF Contract!PlannedRow
  <2>2. att.deadline + c.payload \in Nat
    <3>1. c.payload \in Payloads /\ att.deadline \in Nat
      BY DEF Contract!Command, Contract!Attempt
    <3>2. c.payload \in Nat
      BY <3>1, ReceiptsAssumption
    <3> QED
      BY <3>1, <3>2
  <2> QED
    BY <1>3, <2>1, <2>2
    DEF Contract!GrantRow, Contract!RowOf, Contract!Row, Contract!Command,
        Contract!Attempt, Contract!Kinds, Contract!ReceiptKinds
<1> QED
  BY <1>1, <1>2, <1>3 DEF Contract!Command, Contract!Kinds, Contract!ReceiptKinds

\* A command leaves the attempt well typed.
LEMMA EffectType ==
  ASSUME NEW c \in Contract!Command, NEW att \in Contract!Attempt
  PROVE  Contract!Effect(Contract!PlannedRow(c, att), att) \in Contract!Attempt
<1> DEFINE row == Contract!PlannedRow(c, att)
<1>0. row \in Contract!Row /\ row.kind = c.kind
  BY PlannedRowFacts
<1>1. CASE c.kind = "force_submit"
  <2>1. row = Contract!ForceSubmitRow(c, att)
    BY <1>1 DEF Contract!PlannedRow
  <2>2. row.afterStatus \in Contract!Statuses
    BY <2>1, SubmittedType
    DEF Contract!ForceSubmitRow, Contract!RowOf, Contract!Attempt
  <2>3. Contract!Effect(row, att) = [att EXCEPT !.status = row.afterStatus]
    BY <1>0, <1>1 DEF Contract!Effect
  <2> QED
    BY <2>2, <2>3 DEF Contract!Attempt
<1>2. CASE c.kind = "misconduct_mark"
  <2>1. Contract!Effect(row, att) =
          [att EXCEPT !.flag = [at |-> row.at, payload |-> row.payload]]
    BY <1>0, <1>2 DEF Contract!Effect
  <2>2. row.at \in Times /\ row.payload \in Payloads
    BY <1>0 DEF Contract!Row
  <2> QED
    BY <2>1, <2>2 DEF Contract!Attempt
<1>3. CASE c.kind = "time_grant"
  <2>1. Contract!Effect(row, att) = [att EXCEPT !.deadline = row.afterDeadline]
    BY <1>0, <1>3 DEF Contract!Effect
  <2>2. row.afterDeadline \in Nat
    BY <1>0 DEF Contract!Row
  <2> QED
    BY <2>1, <2>2 DEF Contract!Attempt
<1> QED
  BY <1>1, <1>2, <1>3 DEF Contract!Command, Contract!Kinds, Contract!ReceiptKinds

-----------------------------------------------------------------------------
(* Steps *)

\* What the invariant asks of a handler that holds no lock.
GoodIn(J, rows) ==
  LET row == rows[Key(J.cmd)] IN
  /\ J.pc \notin {"insert", "commit"}
  /\ J.pc = "idle" => (J.cmd = None <=> J.reply = None)
  /\ J.pc # "idle" => J.cmd # None /\ J.reply = None
  /\ J.pc \in {"preread", "recover"} => J.cmd.kind # "time_grant"
  /\ J.pc = "lock" /\ J.seen # None => row = J.seen
  /\ J.pc = "recover" => row # None
  /\ J.pc = "begin" /\ J.rerun => row # None
  /\ J.pc = "lock" /\ J.rerun => J.seen # None
  /\ J.rerun => J.cmd.kind = "time_grant"
  /\ J.reply # None => J.reply.outcome # "invariant_violation"

JobGood(J) == GoodIn(J, ledger)

\* A step of a handler that holds no lock and takes none.
LEMMA LocalStep ==
  ASSUME IInv, NEW s \in Slots, NEW J \in Job,
         job' = [job EXCEPT ![s] = J], JobGood(J), ~Holds(s),
         UNCHANGED <<attempts, ledger, audits, lock, pending>>
  PROVE  IInv'
<1>1. TypeOK'
  BY DEF IInv, TypeOK
<1>2. job'[s] = J /\ \A r \in Slots : r # s => job'[r] = job[r]
  BY DEF IInv, TypeOK
<1>3. LocksOwned'
  <2>1. ~Holds(s)' /\ ~At(s, "commit")' /\ ~At(s, "commit")
    BY <1>2 DEF JobGood, GoodIn, Holds, At
  <2>2. \A r \in Slots : r # s => (Holds(r)' <=> Holds(r)) /\ (At(r, "commit")' <=> At(r, "commit"))
    BY <1>2 DEF Holds, At
  <2> QED
    BY <1>2, <2>1, <2>2 DEF IInv, LocksOwned, Key, Contract!Key, Contract!Keys
<1>4. ASSUME NEW r \in Slots PROVE SlotInv(r)'
  <2>1. CASE r = s
    BY <1>2, <2>1 DEF JobGood, GoodIn, SlotInv, Shape, PlanCurrent, WinnerKept, Holds, At, Key, Contract!Key
  <2>2. CASE r # s
    <3>1. SlotInv(r) /\ job'[r] = job[r] /\ (Holds(r)' <=> Holds(r))
      BY <1>2, <2>2 DEF IInv, Holds, At
    <3>2. Shape(r)'
      BY <3>1 DEF SlotInv, Shape, At
    <3>3. PlanCurrent(r)'
      BY <3>1 DEF SlotInv, PlanCurrent, Key, Contract!Key, Contract!PlannedRow,
                  Contract!Permitted
    <3>4. WinnerKept(r)'
      BY <3>1 DEF SlotInv, WinnerKept, At, Key, Contract!Key
    <3> QED
      BY <3>2, <3>3, <3>4 DEF SlotInv
  <2> QED
    BY <2>1, <2>2
<1>5. WinnerIsFound'
  BY <1>2 DEF IInv, WinnerIsFound, JobGood, GoodIn
<1> QED
  BY <1>1, <1>3, <1>4, <1>5 DEF IInv

\* What the types say of one handler.
LEMMA JobFacts ==
  ASSUME TypeOK, NEW s \in Slots
  PROVE  /\ job[s] \in Job /\ job[s].pc \in Steps
         /\ job[s].cmd # None => job[s].cmd \in Contract!Command
         /\ job[s].cmd # None => /\ job[s].cmd.attempt \in Attempts
                                 /\ Key(job[s].cmd) \in Contract!Keys
<1>1. job[s] \in Job
  BY DEF TypeOK
<1>2. job[s].cmd # None => job[s].cmd \in Contract!Command
  BY <1>1 DEF Job
<1> QED
  BY <1>1, <1>2, KeyType DEF Job, Contract!Command

\* The job of a handler that has answered.
LEMMA FinishedFacts ==
  ASSUME TypeOK, NEW s \in Slots, job[s].cmd # None,
         NEW o \in Contract!Outcomes, o # "invariant_violation",
         NEW row \in Contract!Row \cup {None}
  PROVE  /\ Finished(s, o, row) \in Job /\ JobGood(Finished(s, o, row))
         /\ Finished(s, o, row).pc = "idle"
         /\ Finished(s, o, row).cmd = job[s].cmd
         /\ Finished(s, o, row).reply = [outcome |-> o, row |-> row]
<1> DEFINE rep == [outcome |-> o, row |-> row]
<1> DEFINE F == [pc |-> "idle", cmd |-> job[s].cmd, reply |-> rep, tries |-> 0,
                 stale |-> FALSE, seen |-> None, row |-> None, rerun |-> FALSE]
<1>1. Finished(s, o, row) = F
  BY DEF Finished, JobOf
<1>2. rep \in Contract!Reply /\ rep # None
  BY ReceiptsAssumption DEF Contract!Reply
<1>3. job[s].cmd \in Contract!Command
  BY JobFacts
<1>4. 0 \in 0..MaxRetries
  BY ReceiptsAssumption
<1> HIDE DEF rep
<1>5. F \in Job
  BY <1>2, <1>3, <1>4 DEF Job, Steps
<1>6. rep.outcome = o
  BY DEF rep
<1>7. JobGood(F)
  BY <1>2, <1>6 DEF JobGood, GoodIn
<1> QED
  BY <1>1, <1>5, <1>7 DEF rep

\* Every handler that is past its start has a command.
LEMMA Active ==
  ASSUME IInv, NEW s \in Slots, ~At(s, "idle")
  PROVE  /\ TypeOK /\ job[s].cmd # None /\ job[s].reply = None
         /\ job[s].cmd \in Contract!Command /\ job[s].cmd.attempt \in Attempts
         /\ Key(job[s].cmd) \in Contract!Keys /\ job[s] \in Job
  BY JobFacts DEF IInv, SlotInv, Shape

\* Answering from a stored row preserves the invariant.
LEMMA ClassifyStep ==
  ASSUME IInv, NEW s \in Slots, ~At(s, "idle"), ~Holds(s), NEW row \in Contract!Row,
         Classify(s, row), UNCHANGED <<attempts, ledger, audits, lock, pending>>
  PROVE  IInv'
<1>1. TypeOK /\ job[s].cmd # None
  BY Active
<1>2. PICK o \in {"idempotent_replay", "conflict"}, rw \in {row, None} :
        job' = [job EXCEPT ![s] = Finished(s, o, rw)]
  BY DEF Classify, Respond
<1>3. Finished(s, o, rw) \in Job /\ JobGood(Finished(s, o, rw))
  BY <1>1, FinishedFacts, ZenonT(30) DEF Contract!Outcomes
<1> QED
  BY <1>2, <1>3, LocalStep

\* Answering with an error preserves the invariant.
LEMMA RespondStep ==
  ASSUME IInv, NEW s \in Slots, ~At(s, "idle"), ~Holds(s), Respond(s, "error", None),
         UNCHANGED <<attempts, ledger, audits, lock, pending>>
  PROVE  IInv'
<1>1. Finished(s, "error", None) \in Job /\ JobGood(Finished(s, "error", None))
  BY Active, FinishedFacts DEF Contract!Outcomes
<1> QED
  BY <1>1, LocalStep DEF Respond

\* The invariant holds initially.
LEMMA InitInv == Init => IInv
<1> SUFFICES ASSUME Init PROVE IInv
  OBVIOUS
<1>1. \A s \in Slots : job[s] = NoJob
  BY DEF Init
<1>2. NoJob \in Job
  BY ReceiptsAssumption DEF NoJob, JobOf, Job, Steps
<1>3. NoJob.pc = "idle" /\ NoJob.cmd = None /\ NoJob.reply = None /\ ~NoJob.rerun
  BY DEF NoJob, JobOf
<1>4. TypeOK
  <2>1. [status |-> "active", flag |-> None, deadline |-> 0] \in Contract!Attempt
    BY DEF Contract!Attempt, Contract!Statuses
  <2> QED
    BY <1>2, <2>1 DEF Init, TypeOK
<1>5. LocksOwned
  BY <1>1, <1>3, ReceiptsAssumption DEF Init, LocksOwned, Holds, At
<1>6. \A s \in Slots : SlotInv(s)
  BY <1>1, <1>3 DEF SlotInv, Shape, PlanCurrent, WinnerKept, Holds, At
<1>7. WinnerIsFound
  BY <1>1, <1>3 DEF WinnerIsFound
<1> QED
  BY <1>4, <1>5, <1>6, <1>7 DEF IInv

\* Deliver preserves the invariant.
LEMMA DeliverStep ==
  ASSUME IInv, NEW s \in Slots, NEW c \in Commands, Deliver(s, c)
  PROVE  IInv'
<1> DEFINE step == IF c.kind = "time_grant" THEN "begin" ELSE "preread"
<1> DEFINE J == JobOf(step, c, None)
<1>1. c \in Contract!Command /\ c # None
  BY ReceiptsAssumption
<1>2. J \in Job
  BY <1>1, ReceiptsAssumption DEF JobOf, Job, Steps
<1>3. JobGood(J)
  BY <1>1 DEF JobGood, GoodIn, JobOf
<1>4. ~Holds(s)
  BY DEF Deliver, At, Holds
<1> QED
  BY <1>2, <1>3, <1>4, LocalStep DEF Deliver

\* A row that is there has its columns.
LEMMA LedgerRow ==
  ASSUME TypeOK, NEW k \in Contract!Keys, ledger[k] # None
  PROVE  ledger[k] \in Contract!Row
  BY DEF TypeOK

\* PreRead preserves the invariant.
LEMMA PreReadStep ==
  ASSUME IInv, NEW s \in Slots, PreRead(s)
  PROVE  IInv'
<1> DEFINE row == ledger[Key(job[s].cmd)]
<1>1. At(s, "preread") /\ ~At(s, "idle") /\ ~Holds(s)
  BY DEF PreRead, At, Holds
<1>2. TypeOK /\ job[s].cmd # None /\ job[s] \in Job /\ Key(job[s].cmd) \in Contract!Keys
  BY <1>1, Active
<1>3. CASE row = None
  <2> DEFINE J == [job[s] EXCEPT !.pc = "begin"]
  <2>1. J \in Job
    BY <1>2 DEF Job, Steps
  <2>2. job' = [job EXCEPT ![s] = J]
    BY <1>2, <1>3 DEF PreRead, TypeOK
  <2>3. JobGood(J)
    BY <1>1, <1>2 DEF IInv, SlotInv, Shape, WinnerKept, At, Job, JobGood, GoodIn
  <2> QED
    BY <1>1, <2>1, <2>2, <2>3, LocalStep DEF PreRead
<1>4. CASE row # None
  BY <1>1, <1>2, <1>4, LedgerRow, ClassifyStep DEF PreRead
<1> QED
  BY <1>3, <1>4

\* Begin preserves the invariant.
LEMMA BeginStep ==
  ASSUME IInv, NEW s \in Slots, Begin(s)
  PROVE  IInv'
<1> DEFINE k == Key(job[s].cmd)
<1>1. At(s, "begin") /\ ~At(s, "idle") /\ ~Holds(s)
  BY DEF Begin, At, Holds
<1>2. TypeOK /\ job[s].cmd # None /\ job[s] \in Job /\ k \in Contract!Keys
  BY <1>1, Active
<1>3. ledger[k] \in Contract!Row \cup {None}
  BY <1>2 DEF TypeOK
<1> DEFINE J == [job[s] EXCEPT !.pc = "lock", !.stale = FALSE, !.seen = ledger[k]]
<1>4. J \in Job
  BY <1>2, <1>3 DEF Job, Steps
<1>5. job' = [job EXCEPT ![s] = J]
  BY <1>2 DEF Begin, TypeOK
<1>6. JobGood(J)
  BY <1>1, <1>2 DEF IInv, SlotInv, Shape, WinnerKept, At, Job, JobGood, GoodIn
<1> QED
  BY <1>1, <1>4, <1>5, <1>6, LocalStep DEF Begin

\* LockOutdated preserves the invariant.
LEMMA LockOutdatedStep ==
  ASSUME IInv, NEW s \in Slots, LockOutdated(s)
  PROVE  IInv'
<1>1. At(s, "lock") /\ ~At(s, "idle") /\ ~Holds(s)
  BY DEF LockOutdated, At, Holds
<1>2. TypeOK /\ job[s].cmd # None /\ job[s] \in Job
  BY <1>1, Active
<1>3. CASE job[s].tries < MaxRetries
  <2> DEFINE J == [job[s] EXCEPT !.pc = "begin", !.tries = @ + 1]
  <2>1. job[s].tries + 1 \in 0..MaxRetries
    BY <1>2, <1>3, ReceiptsAssumption DEF Job
  <2>2. J \in Job
    BY <1>2, <2>1 DEF Job, Steps
  <2>3. job' = [job EXCEPT ![s] = J]
    BY <1>2, <1>3 DEF LockOutdated, Retry, TypeOK
  <2>4. JobGood(J)
    BY <1>1, <1>2 DEF IInv, SlotInv, Shape, WinnerKept, At, Job, JobGood, GoodIn
  <2> QED
    BY <1>1, <2>2, <2>3, <2>4, LocalStep DEF LockOutdated
<1>4. CASE ~(job[s].tries < MaxRetries)
  BY <1>1, <1>4, RespondStep DEF LockOutdated, Retry
<1> QED
  BY <1>3, <1>4

\* GrantReplay preserves the invariant.
LEMMA GrantReplayStep ==
  ASSUME IInv, NEW s \in Slots, GrantReplay(s)
  PROVE  IInv'
<1>1. ~At(s, "idle") /\ ~Holds(s)
  BY DEF GrantReplay, At, Holds
<1>2. job[s].seen \in Contract!Row
  BY <1>1, Active DEF GrantReplay, Job
<1> QED
  BY <1>1, <1>2, ClassifyStep DEF GrantReplay

\* GrantRefused preserves the invariant.
LEMMA GrantRefusedStep ==
  ASSUME IInv, NEW s \in Slots, GrantRefused(s)
  PROVE  IInv'
<1>1. ~At(s, "idle") /\ ~Holds(s)
  BY DEF GrantRefused, At, Holds
<1> QED
  BY <1>1, RespondStep DEF GrantRefused

\* Recover preserves the invariant.
LEMMA RecoverStep ==
  ASSUME IInv, NEW s \in Slots, Recover(s)
  PROVE  IInv'
<1>1. At(s, "recover") /\ ~At(s, "idle") /\ ~Holds(s)
  BY DEF Recover, At, Holds
<1>2. TypeOK /\ Key(job[s].cmd) \in Contract!Keys
  BY <1>1, Active
<1>3. ledger[Key(job[s].cmd)] # None
  BY <1>1 DEF IInv, SlotInv, WinnerKept
<1> QED
  BY <1>1, <1>2, <1>3, LedgerRow, ClassifyStep DEF Recover

\* A handler whose job is as before, but for what staleness may have been
\* noted, and whose lock protected its attempt, still satisfies its invariant.
SameJob(J, K) ==
  /\ J.pc = K.pc /\ J.cmd = K.cmd /\ J.reply = K.reply
  /\ J.seen = K.seen /\ J.row = K.row /\ J.rerun = K.rerun

RowsKept == \A k \in Contract!Keys : ledger[k] # None => ledger'[k] = ledger[k]

\* A handler whose rows nobody touched still knows what it knew.
LEMMA Frame ==
  ASSUME IInv, NEW r \in Slots, SameJob(job'[r], job[r]), RowsKept,
         Holds(r) => attempts'[job[r].cmd.attempt] = attempts[job[r].cmd.attempt]
  PROVE  SlotInv(r)'
<1>1. Shape(r)'
  BY DEF IInv, SlotInv, Shape, SameJob, At
<1>2. PlanCurrent(r)'
  <2>1. CASE Holds(r)
    <3> DEFINE c == job[r].cmd
    <3>1. job'[r].cmd = c /\ job'[r].row = job[r].row /\ attempts'[c.attempt] = attempts[c.attempt]
      BY <2>1 DEF SameJob
    <3>2. job[r].row = Contract!PlannedRow(c, attempts[c.attempt])
          /\ Contract!Permitted(c, attempts[c.attempt])
      BY <2>1 DEF IInv, SlotInv, PlanCurrent
    <3> QED
      BY <3>1, <3>2
      DEF PlanCurrent, Contract!PlannedRow, Contract!Permitted, Contract!ForceSubmitRow,
          Contract!GrantRow, Contract!MisconductRow, Contract!RowOf
  <2>2. CASE ~Holds(r)
    BY <2>2 DEF PlanCurrent, Holds, SameJob
  <2> QED
    BY <2>1, <2>2
<1>3. WinnerKept(r)'
  <2>1. CASE At(r, "idle")
    BY <2>1 DEF IInv, SlotInv, WinnerKept, SameJob, At, Holds
  <2>2. CASE ~At(r, "idle")
    <3>1. Key(job[r].cmd) \in Contract!Keys
      BY <2>2, Active
    <3>2. Key(job'[r].cmd) = Key(job[r].cmd)
      BY DEF SameJob
    <3> QED
      BY <3>1, <3>2 DEF IInv, SlotInv, WinnerKept, SameJob, At, Holds, RowsKept, Key, Contract!Key
  <2> QED
    BY <2>1, <2>2
<1> QED
  BY <1>1, <1>2, <1>3 DEF SlotInv

\* Marking snapshots outdated changes nothing else of a handler.
LEMMA OutdatedFacts ==
  ASSUME NEW jobs \in [Slots -> Job], NEW a, NEW r \in Slots
  PROVE  Outdated(jobs, a)[r] \in Job /\ SameJob(Outdated(jobs, a)[r], jobs[r])
<1>1. Outdated(jobs, a)[r] = (IF jobs[r].pc = "lock" /\ jobs[r].cmd.attempt = a
                               THEN [jobs[r] EXCEPT !.stale = TRUE] ELSE jobs[r])
  BY DEF Outdated
<1>2. jobs[r] \in Job
  OBVIOUS
<1>3. CASE jobs[r].pc = "lock" /\ jobs[r].cmd.attempt = a
  BY <1>1, <1>2, <1>3 DEF Job, SameJob
<1>4. CASE ~(jobs[r].pc = "lock" /\ jobs[r].cmd.attempt = a)
  BY <1>1, <1>2, <1>4 DEF SameJob
<1> QED
  BY <1>3, <1>4

\* Marking snapshots outdated leaves the handlers well typed.
LEMMA OutdatedType ==
  ASSUME NEW jobs \in [Slots -> Job], NEW a
  PROVE  Outdated(jobs, a) \in [Slots -> Job]
<1>1. \A r \in Slots : Outdated(jobs, a)[r] \in Job
  BY OutdatedFacts
<1> QED
  BY <1>1 DEF Outdated

\* A step of the rest of the system, on an attempt that nobody has locked.
LEMMA OthersStep ==
  ASSUME IInv, NEW a \in Attempts, lock[a] = None, job' = Outdated(job, a),
         attempts' \in [Attempts -> Contract!Attempt],
         \A b \in Attempts : b # a => attempts'[b] = attempts[b],
         UNCHANGED <<ledger, audits, lock, pending>>
  PROVE  IInv'
<1>1. TypeOK /\ job \in [Slots -> Job]
  BY DEF IInv, TypeOK
<1>2. \A r \in Slots : SameJob(job'[r], job[r])
  BY <1>1, OutdatedFacts
<1>3. TypeOK'
  BY <1>1, OutdatedType DEF TypeOK
<1>4. LocksOwned'
  BY <1>2 DEF IInv, LocksOwned, Holds, At, SameJob, Key, Contract!Key, Contract!Keys
<1>5. ASSUME NEW r \in Slots PROVE SlotInv(r)'
  <2>1. Holds(r) => job[r].cmd.attempt \in Attempts /\ lock[job[r].cmd.attempt] = r
    BY Active DEF IInv, LocksOwned, Holds, At
  <2>2. Holds(r) => job[r].cmd.attempt # a
    BY <2>1, ReceiptsAssumption
  <2>3. RowsKept
    BY DEF RowsKept
  <2> QED
    BY <1>2, <2>1, <2>2, <2>3, Frame
<1>6. WinnerIsFound'
  BY <1>2 DEF IInv, WinnerIsFound, SameJob
<1> QED
  BY <1>3, <1>4, <1>5, <1>6 DEF IInv

\* Touch preserves the invariant.
LEMMA TouchStep ==
  ASSUME IInv, NEW a \in Attempts, Touch(a)
  PROVE  IInv'
  BY OthersStep DEF Touch, IInv, TypeOK

\* Advance preserves the invariant.
LEMMA AdvanceStep ==
  ASSUME IInv, NEW a \in Attempts, Advance(a)
  PROVE  IInv'
<1>1. attempts \in [Attempts -> Contract!Attempt]
  BY DEF IInv, TypeOK
<1>2. PICK st \in Contract!Statuses : attempts' = [attempts EXCEPT ![a].status = st]
  BY SubmittedType DEF Advance, Contract!Statuses
<1>3. attempts' \in [Attempts -> Contract!Attempt]
  BY <1>1, <1>2 DEF Contract!Attempt
<1>4. \A b \in Attempts : b # a => attempts'[b] = attempts[b]
  BY <1>1, <1>2
<1> QED
  BY <1>3, <1>4, OthersStep DEF Advance

\* The transaction of s ends: what it held is released, what it wrote is its
\* own row and the attempt it had locked or could have.
LEMMA EndStep ==
  ASSUME IInv, NEW s \in Slots, NEW a \in Attempts, lock[a] \in {s, None},
         TypeOK', GoodIn(job'[s], ledger'),
         \A r \in Slots : r # s => SameJob(job'[r], job[r]),
         \A b \in Attempts : b # a => attempts'[b] = attempts[b],
         \A k \in Contract!Keys : ledger'[k] = ledger[k] \/ pending[k] = s,
         Release(s)
  PROVE  IInv'
<1>1. RowsKept
  BY ReceiptsAssumption DEF RowsKept, IInv, LocksOwned
<1>2. \A k \in Contract!Keys :
        /\ pending'[k] # s
        /\ \A r \in Slots : r # s => (pending'[k] = r <=> pending[k] = r)
        /\ pending'[k] # None => pending[k] = pending'[k]
  BY ReceiptsAssumption DEF Release
<1>3. \A b \in Attempts :
        lock'[b] # s /\ \A r \in Slots : r # s => (lock'[b] = r <=> lock[b] = r)
  BY ReceiptsAssumption DEF Release
<1>4. ~Holds(s)' /\ ~At(s, "commit")'
  BY DEF GoodIn, Holds, At
<1>5. \A r \in Slots : r # s => /\ Holds(r)' <=> Holds(r)
                                /\ At(r, "commit")' <=> At(r, "commit")
                                /\ job'[r].cmd = job[r].cmd
  BY DEF SameJob, Holds, At
<1>6. LocksOwned'
  <2>1. \A r \in Slots, b \in Attempts :
          lock'[b] = r <=> (Holds(r)' /\ job'[r].cmd.attempt = b)
    BY <1>3, <1>4, <1>5 DEF IInv, LocksOwned
  <2>2. \A r \in Slots, k \in Contract!Keys :
          pending'[k] = r <=> (At(r, "commit")' /\ Key(job'[r].cmd) = k)
    BY <1>2, <1>4, <1>5 DEF IInv, LocksOwned
  <2>3. \A k \in Contract!Keys : pending'[k] # None => ledger'[k] = None
    BY <1>2 DEF IInv, LocksOwned
  <2> QED
    BY <2>1, <2>2, <2>3 DEF LocksOwned, Key, Contract!Key, Contract!Keys
<1>7. ASSUME NEW r \in Slots PROVE SlotInv(r)'
  <2>1. CASE r = s
    BY <2>1 DEF GoodIn, SlotInv, Shape, PlanCurrent, WinnerKept, Holds, At, Key, Contract!Key
  <2>2. CASE r # s
    <3>1. Holds(r) => job[r].cmd.attempt \in Attempts /\ lock[job[r].cmd.attempt] = r
      BY Active DEF IInv, LocksOwned, Holds, At
    <3>2. Holds(r) => job[r].cmd.attempt # a
      BY <2>2, <3>1, ReceiptsAssumption
    <3> QED
      BY <1>1, <2>2, <3>1, <3>2, Frame
  <2> QED
    BY <2>1, <2>2
<1>8. WinnerIsFound'
  BY DEF IInv, WinnerIsFound, SameJob, GoodIn
<1> QED
  BY <1>6, <1>7, <1>8 DEF IInv

\* Whoever is at a step with a lock has it.
LEMMA HoldsLock ==
  ASSUME IInv, NEW s \in Slots, Holds(s)
  PROVE  /\ lock[job[s].cmd.attempt] = s
         /\ job[s].row = Contract!PlannedRow(job[s].cmd, attempts[job[s].cmd.attempt])
         /\ Contract!Permitted(job[s].cmd, attempts[job[s].cmd.attempt])
         /\ At(s, "commit") => /\ pending[Key(job[s].cmd)] = s
                               /\ ledger[Key(job[s].cmd)] = None
<1>1. ~At(s, "idle")
  BY DEF Holds, At
<1> QED
  BY <1>1, Active, ReceiptsAssumption DEF IInv, LocksOwned, SlotInv, PlanCurrent

\* The end of a transaction leaves locks and pending rows well typed.
LEMMA ReleaseType ==
  ASSUME TypeOK, NEW s \in Slots, Release(s)
  PROVE  /\ lock' \in [Attempts -> Slots \cup {None}]
         /\ pending' \in [Contract!Keys -> Slots \cup {None}]
  BY DEF TypeOK, Release

\* Abort preserves the invariant.
LEMMA AbortStep ==
  ASSUME IInv, NEW s \in Slots, Abort(s)
  PROVE  IInv'
<1> DEFINE F == Finished(s, "error", None)
<1>1. ~At(s, "idle")
  BY DEF Abort
<1>2. TypeOK /\ job[s].cmd # None /\ job[s].cmd.attempt \in Attempts
  BY <1>1, Active
<1>3. F \in Job /\ JobGood(F)
  BY <1>2, FinishedFacts DEF Contract!Outcomes
<1>4. job' = [job EXCEPT ![s] = F]
  BY DEF Abort, Respond
<1>5. job' \in [Slots -> Job] /\ job'[s] = F /\ \A r \in Slots : r # s => job'[r] = job[r]
  BY <1>2, <1>3, <1>4 DEF TypeOK
<1>6. TypeOK'
  BY <1>2, <1>5, ReleaseType DEF TypeOK, Abort
<1>7. CASE Holds(s)
  BY <1>2, <1>3, <1>5, <1>6, <1>7, HoldsLock, EndStep DEF Abort, SameJob, JobGood
<1>8. CASE ~Holds(s)
  <2>1. \A a \in Attempts : lock[a] # s
    BY <1>8 DEF IInv, LocksOwned
  <2>2. \A k \in Contract!Keys : pending[k] # s
    BY <1>8 DEF IInv, LocksOwned, Holds, At
  <2>3. lock' = lock /\ pending' = pending
    BY <1>2, <2>1, <2>2 DEF Abort, Release, TypeOK
  <2> QED
    BY <1>3, <1>4, <1>8, <2>3, LocalStep DEF Abort
<1> QED
  BY <1>7, <1>8

\* UniqueViolation preserves the invariant.
LEMMA UniqueViolationStep ==
  ASSUME IInv, NEW s \in Slots, UniqueViolation(s)
  PROVE  IInv'
<1> DEFINE k == Key(job[s].cmd)
<1>1. At(s, "insert") /\ ~At(s, "idle") /\ Holds(s)
  BY DEF UniqueViolation, At, Holds
<1>2. TypeOK /\ job[s].cmd # None /\ job[s].reply = None /\ job[s] \in Job
      /\ k \in Contract!Keys /\ job[s].cmd.attempt \in Attempts
  BY <1>1, Active
<1>3. lock[job[s].cmd.attempt] = s
  BY <1>1, HoldsLock
<1>4. ledger[k] # None
  BY DEF UniqueViolation, Duplicate
<1>5. ~job[s].rerun
  BY <1>1 DEF IInv, SlotInv, WinnerKept
<1>6. Release(s)
  BY DEF UniqueViolation, Rollback
<1>7. ASSUME NEW J \in Job, job' = [job EXCEPT ![s] = J], JobGood(J)
      PROVE  IInv'
  <2>1. job' \in [Slots -> Job] /\ job'[s] = J /\ \A r \in Slots : r # s => job'[r] = job[r]
    BY <1>2, <1>7 DEF TypeOK
  <2>2. TypeOK'
    BY <1>2, <1>6, <2>1, ReleaseType DEF TypeOK, UniqueViolation
  <2> QED
    BY <1>2, <1>3, <1>6, <1>7, <2>1, <2>2, EndStep DEF UniqueViolation, SameJob, JobGood
<1>8. CASE job[s].cmd.kind # "time_grant"
  <2> DEFINE J == [job[s] EXCEPT !.pc = "recover"]
  <2>1. J \in Job
    BY <1>2 DEF Job, Steps
  <2>2. job' = [job EXCEPT ![s] = J]
    BY <1>2, <1>8 DEF UniqueViolation, TypeOK
  <2>3. JobGood(J)
    BY <1>2, <1>4, <1>5, <1>8 DEF JobGood, GoodIn, Job
  <2> QED
    BY <1>7, <2>1, <2>2, <2>3
<1>9. CASE job[s].cmd.kind = "time_grant"
  <2> DEFINE J == [job[s] EXCEPT !.pc = "begin", !.tries = 0, !.rerun = TRUE]
  <2>0. 0 \in 0..MaxRetries
    BY ReceiptsAssumption
  <2>1. J \in Job
    BY <1>2, <2>0 DEF Job, Steps
  <2>2. job' = [job EXCEPT ![s] = J]
    BY <1>2, <1>5, <1>9 DEF UniqueViolation, TypeOK
  <2>3. JobGood(J)
    BY <1>2, <1>4, <1>9 DEF JobGood, GoodIn, Job
  <2> QED
    BY <1>7, <2>1, <2>2, <2>3
<1> QED
  BY <1>8, <1>9

\* The jobs after s has answered and its write has been noticed by those who
\* wait for the same row.
LEMMA DoneFacts ==
  ASSUME TypeOK, NEW s \in Slots, NEW F \in Job, F.pc = "idle", NEW a, NEW jobs,
         \/ jobs = [job EXCEPT ![s] = F]
         \/ jobs = Outdated([job EXCEPT ![s] = F], a)
  PROVE  /\ jobs \in [Slots -> Job] /\ jobs[s] = F
         /\ \A r \in Slots : r # s => SameJob(jobs[r], job[r])
<1> DEFINE done == [job EXCEPT ![s] = F]
<1>1. done \in [Slots -> Job] /\ done[s] = F /\ \A r \in Slots : r # s => done[r] = job[r]
  BY DEF TypeOK
<1>2. CASE jobs = done
  BY <1>1, <1>2 DEF SameJob
<1>3. CASE jobs = Outdated(done, a)
  <2> HIDE DEF done
  <2>1. jobs \in [Slots -> Job]
    BY <1>1, <1>3, OutdatedType
  <2>2. \A r \in Slots : r # s => SameJob(jobs[r], job[r])
    BY <1>1, <1>3, OutdatedFacts
  <2>3. jobs[s] = F
    BY <1>1, <1>3 DEF Outdated
  <2> QED
    BY <2>1, <2>2, <2>3
<1> QED
  BY <1>2, <1>3

\* GrantTerminal preserves the invariant.
LEMMA GrantTerminalStep ==
  ASSUME IInv, NEW s \in Slots, GrantTerminal(s)
  PROVE  IInv'
<1> DEFINE c == job[s].cmd
<1> DEFINE F == Finished(s, "terminal", None)
<1>1. ~At(s, "idle") /\ ~Holds(s) /\ lock[c.attempt] = None
  BY DEF GrantTerminal, At, Holds
<1>2. TypeOK /\ c # None /\ c.attempt \in Attempts
  BY <1>1, Active
<1>3. F \in Job /\ JobGood(F) /\ F.pc = "idle"
  BY <1>2, FinishedFacts DEF Contract!Outcomes
<1>4. job' \in [Slots -> Job] /\ job'[s] = F
      /\ \A r \in Slots : r # s => SameJob(job'[r], job[r])
  <2> HIDE DEF F
  <2>1. \/ job' = [job EXCEPT ![s] = F]
        \/ job' = Outdated([job EXCEPT ![s] = F], c.attempt)
    BY DEF GrantTerminal, F
  <2> QED
    BY <1>2, <1>3, <2>1, DoneFacts
<1>5. /\ attempts' \in [Attempts -> Contract!Attempt]
      /\ \A b \in Attempts : b # c.attempt => attempts'[b] = attempts[b]
  <2>1. attempts' = attempts
        \/ attempts' = [attempts EXCEPT ![c.attempt].status = Contract!Submitted(c.attempt)]
    BY DEF GrantTerminal
  <2>2. Contract!Submitted(c.attempt) \in Contract!Statuses
    BY SubmittedType
  <2> QED
    BY <1>2, <2>1, <2>2 DEF TypeOK, Contract!Attempt
<1>6. TypeOK'
  BY <1>2, <1>4, <1>5 DEF TypeOK, GrantTerminal
<1>7. Release(s)
  <2>1. \A b \in Attempts : lock[b] # s
    BY <1>1 DEF IInv, LocksOwned
  <2>2. \A k \in Contract!Keys : pending[k] # s
    BY <1>1 DEF IInv, LocksOwned, Holds, At
  <2> QED
    BY <1>2, <2>1, <2>2 DEF GrantTerminal, Release, TypeOK
<1>8. ledger' = ledger
  BY DEF GrantTerminal
<1> QED
  BY <1>1, <1>2, <1>3, <1>4, <1>5, <1>6, <1>7, <1>8, EndStep DEF JobGood

\* Commit preserves the invariant.
LEMMA CommitStep ==
  ASSUME IInv, NEW s \in Slots, Commit(s)
  PROVE  IInv'
<1> DEFINE c == job[s].cmd
<1> DEFINE row == job[s].row
<1> DEFINE k == Key(c)
<1> DEFINE F == Finished(s, row.outcome, row)
<1>1. At(s, "commit") /\ ~At(s, "idle") /\ Holds(s)
  BY DEF Commit, At, Holds
<1>2. TypeOK /\ c # None /\ c \in Contract!Command /\ c.attempt \in Attempts /\ k \in Contract!Keys
  BY <1>1, Active
<1>3. /\ lock[c.attempt] = s /\ pending[k] = s /\ ledger[k] = None
      /\ row = Contract!PlannedRow(c, attempts[c.attempt])
  BY <1>1, HoldsLock
<1>4. attempts[c.attempt] \in Contract!Attempt
  BY <1>2 DEF TypeOK
<1>5. row \in Contract!Row
  BY <1>2, <1>3, <1>4, PlannedRowFacts
<1>6. row.outcome \in Contract!Outcomes /\ row.outcome # "invariant_violation"
  BY <1>5 DEF Contract!Row, Contract!Outcomes
<1>7. F \in Job /\ F.pc = "idle" /\ F.reply = [outcome |-> row.outcome, row |-> row] /\ F.cmd = c
      /\ JobGood(F)
  BY <1>2, <1>5, <1>6, FinishedFacts
<1>8. job' \in [Slots -> Job] /\ job'[s] = F
      /\ \A r \in Slots : r # s => SameJob(job'[r], job[r])
  <2> HIDE DEF F
  <2>1. \/ job' = [job EXCEPT ![s] = F]
        \/ job' = Outdated([job EXCEPT ![s] = F], c.attempt)
    BY DEF Commit, F
  <2> QED
    BY <1>2, <1>7, <2>1, DoneFacts
<1>9. /\ attempts' \in [Attempts -> Contract!Attempt]
      /\ \A b \in Attempts : b # c.attempt => attempts'[b] = attempts[b]
  <2>1. attempts' = [attempts EXCEPT ![c.attempt] = Contract!Effect(row, attempts[c.attempt])]
    BY DEF Commit
  <2>2. Contract!Effect(row, attempts[c.attempt]) \in Contract!Attempt
    BY <1>2, <1>3, <1>4, EffectType
  <2> QED
    BY <1>2, <2>1, <2>2 DEF TypeOK
<1>10. ledger' = [ledger EXCEPT ![k] = row] /\ Release(s)
  BY DEF Commit
<1>11. audits' \in [Contract!Keys -> Nat]
  BY <1>2 DEF Commit, TypeOK
<1>12. TypeOK'
  BY <1>2, <1>5, <1>8, <1>9, <1>10, <1>11, ReleaseType DEF TypeOK
<1>13. \A j \in Contract!Keys : ledger'[j] = ledger[j] \/ pending[j] = s
  BY <1>2, <1>3, <1>10 DEF TypeOK
<1>14. GoodIn(F, ledger')
  BY <1>7 DEF GoodIn, JobGood, Finished, JobOf
<1> QED
  BY <1>2, <1>3, <1>8, <1>9, <1>10, <1>12, <1>13, <1>14, EndStep

\* LockAndPlan preserves the invariant.
LEMMA LockAndPlanStep ==
  ASSUME IInv, NEW s \in Slots, LockAndPlan(s)
  PROVE  IInv'
<1> DEFINE c == job[s].cmd
<1> DEFINE row == Contract!PlannedRow(c, attempts[c.attempt])
<1> DEFINE J == [job[s] EXCEPT !.pc = "insert", !.row = row]
<1>1. At(s, "lock") /\ ~At(s, "idle") /\ ~Holds(s) /\ lock[c.attempt] = None
  BY DEF LockAndPlan, At, Holds
<1>2. TypeOK /\ c # None /\ c \in Contract!Command /\ c.attempt \in Attempts
      /\ job[s].reply = None /\ job[s] \in Job
  BY <1>1, Active
<1>3. row \in Contract!Row
  BY <1>2, PlannedRowFacts DEF TypeOK
<1>4. J \in Job /\ J.pc = "insert" /\ J.cmd = c /\ J.reply = None /\ J.row = row
      /\ J.rerun = job[s].rerun
  <2> HIDE DEF row
  <2> QED
    BY <1>2, <1>3 DEF Job, Steps
<1>5. job' = [job EXCEPT ![s] = J]
  <2>1. job' = [job EXCEPT ![s].pc = "insert", ![s].row = row]
    BY DEF LockAndPlan
  <2> HIDE DEF row
  <2> QED
    BY <1>2, <2>1 DEF TypeOK
<1> HIDE DEF J
<1>6. job' \in [Slots -> Job] /\ job'[s] = J /\ \A r \in Slots : r # s => job'[r] = job[r]
  BY <1>2, <1>4, <1>5 DEF TypeOK
<1>7. lock' = [lock EXCEPT ![c.attempt] = s]
  BY DEF LockAndPlan, TakeLock
<1>8. UNCHANGED <<attempts, ledger, audits, pending>>
  BY DEF LockAndPlan
<1>9. TypeOK'
  BY <1>2, <1>6, <1>7, <1>8 DEF TypeOK
<1>10. \A r \in Slots : r # s => (Holds(r)' <=> Holds(r)) /\ (At(r, "commit")' <=> At(r, "commit"))
  BY <1>6 DEF Holds, At
<1>11. LocksOwned'
  <2>1. \A r \in Slots, b \in Attempts :
          lock'[b] = r <=> (Holds(r)' /\ job'[r].cmd.attempt = b)
    <3> SUFFICES ASSUME NEW r \in Slots, NEW b \in Attempts
                 PROVE  lock'[b] = r <=> (Holds(r)' /\ job'[r].cmd.attempt = b)
      OBVIOUS
    <3>1. lock[b] = r <=> (Holds(r) /\ job[r].cmd.attempt = b)
      BY DEF IInv, LocksOwned
    <3>2. lock'[b] = IF b = c.attempt THEN s ELSE lock[b]
      BY <1>2, <1>7 DEF TypeOK
    <3>3. Holds(s)' /\ job'[s].cmd = c
      BY <1>4, <1>6 DEF Holds
    <3>4. CASE r = s
      BY <1>1, <3>1, <3>2, <3>3, <3>4
    <3>5. CASE r # s
      BY <1>1, <1>6, <1>10, <3>1, <3>2, <3>5, ReceiptsAssumption
    <3> QED
      BY <3>4, <3>5
  <2>2. ~At(s, "commit")' /\ ~At(s, "commit")
    BY <1>1, <1>4, <1>6 DEF At
  <2>3. \A r \in Slots, k \in Contract!Keys :
          pending'[k] = r <=> (At(r, "commit")' /\ Key(job'[r].cmd) = k)
    BY <1>6, <1>8, <1>10, <2>2 DEF IInv, LocksOwned
  <2>4. \A k \in Contract!Keys : pending'[k] # None => ledger'[k] = None
    BY <1>8 DEF IInv, LocksOwned
  <2> QED
    BY <2>1, <2>3, <2>4 DEF LocksOwned, Key, Contract!Key, Contract!Keys
<1>12. ASSUME NEW r \in Slots PROVE SlotInv(r)'
  <2>1. CASE r = s
    <3>1. ~job[s].rerun
      BY <1>1 DEF LockAndPlan, IInv, SlotInv, WinnerKept
    <3>2. Contract!Permitted(c, attempts[c.attempt])
      BY DEF LockAndPlan
    <3>3. PlanCurrent(s)'
      BY <1>4, <1>6, <1>8, <3>2
      DEF PlanCurrent, Contract!PlannedRow, Contract!Permitted, Contract!ForceSubmitRow,
          Contract!GrantRow, Contract!MisconductRow, Contract!RowOf
    <3>4. Shape(s)' /\ WinnerKept(s)'
      BY <1>2, <1>4, <1>6, <3>1 DEF Shape, WinnerKept, At
    <3> QED
      BY <2>1, <3>3, <3>4 DEF SlotInv
  <2>2. CASE r # s
    BY <1>6, <1>8, <2>2, Frame DEF SameJob, RowsKept
  <2> QED
    BY <2>1, <2>2
<1>13. WinnerIsFound'
  BY <1>4, <1>6 DEF IInv, WinnerIsFound
<1> QED
  BY <1>9, <1>11, <1>12, <1>13 DEF IInv

\* Insert preserves the invariant.
LEMMA InsertStep ==
  ASSUME IInv, NEW s \in Slots, Insert(s)
  PROVE  IInv'
<1> DEFINE k == Key(job[s].cmd)
<1> DEFINE J == [job[s] EXCEPT !.pc = "commit"]
<1>1. At(s, "insert") /\ ~At(s, "idle") /\ Holds(s) /\ ledger[k] = None /\ pending[k] = None
  BY DEF Insert, At, Holds, Duplicate
<1>2. TypeOK /\ job[s].cmd # None /\ k \in Contract!Keys /\ job[s] \in Job
  BY <1>1, Active
<1>3. J \in Job /\ J.pc = "commit" /\ J.cmd = job[s].cmd /\ J.reply = job[s].reply
      /\ J.row = job[s].row /\ J.rerun = job[s].rerun /\ J.seen = job[s].seen
  BY <1>2 DEF Job, Steps
<1>4. job' = [job EXCEPT ![s] = J]
  BY <1>2 DEF Insert, TypeOK
<1> HIDE DEF J
<1>5. job' \in [Slots -> Job] /\ job'[s] = J /\ \A r \in Slots : r # s => job'[r] = job[r]
  BY <1>2, <1>3, <1>4 DEF TypeOK
<1>6. pending' = [pending EXCEPT ![k] = s] /\ UNCHANGED <<attempts, ledger, audits, lock>>
  BY DEF Insert
<1>7. TypeOK'
  BY <1>2, <1>5, <1>6 DEF TypeOK
<1>8. \A r \in Slots : /\ job'[r].cmd = job[r].cmd
                       /\ Holds(r)' <=> Holds(r)
                       /\ r # s => (At(r, "commit")' <=> At(r, "commit"))
  BY <1>1, <1>3, <1>5 DEF Holds, At
<1>9. LocksOwned'
  <2>1. \A r \in Slots, b \in Attempts :
          lock'[b] = r <=> (Holds(r)' /\ job'[r].cmd.attempt = b)
    BY <1>6, <1>8 DEF IInv, LocksOwned
  <2>2. \A r \in Slots, j \in Contract!Keys :
          pending'[j] = r <=> (At(r, "commit")' /\ Key(job'[r].cmd) = j)
    <3> SUFFICES ASSUME NEW r \in Slots, NEW j \in Contract!Keys
                 PROVE  pending'[j] = r <=> (At(r, "commit")' /\ Key(job'[r].cmd) = j)
      OBVIOUS
    <3>1. pending[j] = r <=> (At(r, "commit") /\ Key(job[r].cmd) = j)
      BY DEF IInv, LocksOwned
    <3>2. pending'[j] = IF j = k THEN s ELSE pending[j]
      BY <1>2, <1>6 DEF TypeOK
    <3>3. At(s, "commit")' /\ ~At(s, "commit")
      BY <1>1, <1>3, <1>5 DEF At
    <3>4. CASE r = s
      BY <1>8, <3>1, <3>2, <3>3, <3>4
    <3>5. CASE r # s
      BY <1>1, <1>8, <3>1, <3>2, <3>5, ReceiptsAssumption
    <3> QED
      BY <3>4, <3>5
  <2>3. \A j \in Contract!Keys : pending'[j] # None => ledger'[j] = None
    BY <1>1, <1>2, <1>6 DEF IInv, LocksOwned, TypeOK
  <2> QED
    BY <2>1, <2>2, <2>3 DEF LocksOwned, Key, Contract!Key, Contract!Keys
<1>10. ASSUME NEW r \in Slots PROVE SlotInv(r)'
  <2>1. CASE r = s
    <3>1. PlanCurrent(s)'
      BY <1>1, <1>3, <1>5, <1>6, ZenonT(30)
      DEF IInv, SlotInv, PlanCurrent, Contract!PlannedRow, Contract!Permitted,
          Contract!ForceSubmitRow, Contract!GrantRow, Contract!MisconductRow, Contract!RowOf
    <3>2. Shape(s)' /\ WinnerKept(s)'
      BY <1>1, <1>3, <1>5 DEF IInv, SlotInv, Shape, WinnerKept, At
    <3> QED
      BY <2>1, <3>1, <3>2 DEF SlotInv
  <2>2. CASE r # s
    BY <1>5, <1>6, <2>2, Frame DEF SameJob, RowsKept
  <2> QED
    BY <2>1, <2>2
<1>11. WinnerIsFound'
  BY <1>3, <1>5 DEF IInv, WinnerIsFound
<1> QED
  BY <1>7, <1>9, <1>10, <1>11 DEF IInv

\* Every step preserves the invariant.
LEMMA StepInv == IInv /\ [Next]_vars => IInv'
<1> SUFFICES ASSUME IInv, [Next]_vars PROVE IInv'
  OBVIOUS
<1>1. CASE UNCHANGED vars
  BY <1>1
  DEF vars, IInv, TypeOK, LocksOwned, SlotInv, Shape, PlanCurrent, WinnerKept, WinnerIsFound,
      Holds, At
<1>2. CASE \E s \in Slots : Step(s)
  BY <1>2, PreReadStep, BeginStep, LockOutdatedStep, LockAndPlanStep, GrantReplayStep,
     GrantTerminalStep, GrantRefusedStep, InsertStep, UniqueViolationStep, RecoverStep,
     CommitStep
  DEF Step
<1>3. CASE \E s \in Slots : Abort(s)
  BY <1>3, AbortStep
<1>4. CASE \E s \in Slots, c \in Commands : Deliver(s, c)
  BY <1>4, DeliverStep
<1>5. CASE \E a \in Attempts : Touch(a) \/ Advance(a)
  BY <1>5, TouchStep, AdvanceStep
<1> QED
  BY <1>1, <1>2, <1>3, <1>4, <1>5 DEF Next

\* The invariant holds in every reachable state.
THEOREM Inductive == Spec => []IInv
<1> QED
  BY InitInv, StepInv, PTL DEF Spec

\* Every variable keeps its type; in particular no handler retries more often
\* than executeInTransaction allows.
THEOREM TypeCorrect == Spec => []TypeOK
<1>1. IInv => TypeOK
  BY DEF IInv
<1> QED
  BY <1>1, Inductive, PTL

\* The recovery after a unique violation finds the winner's row, and the second
\* run of a grant is the last.
THEOREM WinnerAlwaysFound == Spec => []WinnerIsFound
<1>1. IInv => WinnerIsFound
  BY DEF IInv
<1> QED
  BY <1>1, Inductive, PTL

-----------------------------------------------------------------------------
(* What the rows of the ledger say about the attempts *)

\* The three kinds of step: nothing stored changes, only an attempt's status
\* moves on, or a command commits.
Quiet == UNCHANGED <<attempts, ledger, audits>>

StatusMoves(a) ==
  /\ UNCHANGED <<ledger, audits>>
  /\ \E st \in Contract!Statuses \ {"active"} :
       attempts' = [attempts EXCEPT ![a].status = st]

\* A step changes no row, only a status, or is a commit.
LEMMA KindsOfStep ==
  ASSUME IInv, [Next]_vars
  PROVE  \/ Quiet
         \/ \E a \in Attempts : StatusMoves(a)
         \/ \E s \in Slots : Commit(s)
<1>1. CASE UNCHANGED vars
  BY <1>1 DEF vars, Quiet
<1>2. ASSUME NEW s \in Slots, GrantTerminal(s)
      PROVE  Quiet \/ \E a \in Attempts : StatusMoves(a)
  <2>1. job[s].cmd.attempt \in Attempts
    BY <1>2, Active DEF GrantTerminal, At
  <2>2. Contract!Submitted(job[s].cmd.attempt) \in Contract!Statuses \ {"active"}
    BY SubmittedType
  <2> QED
    BY <1>2, <2>1, <2>2 DEF GrantTerminal, Quiet, StatusMoves
<1>3. ASSUME NEW a \in Attempts, Advance(a)
      PROVE  StatusMoves(a)
  BY <1>3, SubmittedType DEF Advance, StatusMoves, Contract!Statuses
<1>4. ASSUME NEW s \in Slots, Step(s), ~GrantTerminal(s), ~Commit(s)
      PROVE  Quiet
  BY <1>4
  DEF Step, Quiet, PreRead, Begin, LockOutdated, LockAndPlan, GrantReplay, GrantRefused,
      Insert, UniqueViolation, Recover
<1>5. ASSUME NEW s \in Slots, Abort(s) \/ \E c \in Commands : Deliver(s, c)
      PROVE  Quiet
  BY <1>5 DEF Quiet, Abort, Deliver
<1>6. ASSUME NEW a \in Attempts, Touch(a)
      PROVE  Quiet
  BY <1>6 DEF Quiet, Touch
<1> QED
  BY <1>1, <1>2, <1>3, <1>4, <1>5, <1>6 DEF Next

\* What a commit writes.
LEMMA CommitFacts ==
  ASSUME IInv, NEW s \in Slots, Commit(s)
  PROVE  LET c == job[s].cmd
             att == attempts[c.attempt]
             row == Contract!PlannedRow(c, att) IN
         /\ c \in Contract!Command /\ c.attempt \in Attempts /\ Key(c) \in Contract!Keys
         /\ att \in Contract!Attempt /\ row \in Contract!Row /\ row # None
         /\ row.kind = c.kind /\ row.attempt = c.attempt
         /\ row.payload = c.payload /\ row.at = c.at
         /\ Contract!Permitted(c, att)
         /\ job[s].row = row /\ ledger[Key(c)] = None
         /\ ledger' = [ledger EXCEPT ![Key(c)] = row]
         /\ attempts' = [attempts EXCEPT ![c.attempt] = Contract!Effect(row, att)]
         /\ audits' = IF Contract!Audited(row) THEN [audits EXCEPT ![Key(c)] = @ + 1]
                                               ELSE audits
<1>1. At(s, "commit") /\ ~At(s, "idle") /\ Holds(s)
  BY DEF Commit, At, Holds
<1>2. TypeOK /\ job[s].cmd \in Contract!Command /\ job[s].cmd.attempt \in Attempts
      /\ Key(job[s].cmd) \in Contract!Keys
  BY <1>1, Active
<1>3. attempts[job[s].cmd.attempt] \in Contract!Attempt
  BY <1>2 DEF TypeOK
<1> QED
  BY <1>1, <1>2, <1>3, HoldsLock, PlannedRowFacts, ReceiptsAssumption, ZenonT(30)
  DEF Commit, WritesAudit

\* The same for the kinds of command.
LEMMA EffectFacts ==
  ASSUME NEW c \in Contract!Command, NEW att \in Contract!Attempt
  PROVE  LET row == Contract!PlannedRow(c, att)
             new == Contract!Effect(row, att) IN
         /\ c.kind = "force_submit" =>
              /\ row.outcome = (IF att.status = "active" THEN "applied" ELSE "no_change")
              /\ new.status # "active"
              /\ new.flag = att.flag /\ new.deadline = att.deadline
         /\ c.kind = "misconduct_mark" =>
              /\ row.outcome = "applied"
              /\ new.flag = [at |-> c.at, payload |-> c.payload]
              /\ new.status = att.status /\ new.deadline = att.deadline
         /\ c.kind = "time_grant" =>
              /\ row.outcome = "granted"
              /\ row.beforeDeadline = att.deadline
              /\ row.afterDeadline = att.deadline + c.payload
              /\ new.deadline = att.deadline + c.payload
              /\ new.status = att.status /\ new.flag = att.flag
<1> DEFINE row == Contract!PlannedRow(c, att)
<1> DEFINE new == Contract!Effect(row, att)
<1>0. row \in Contract!Row /\ row.kind = c.kind /\ row.payload = c.payload /\ row.at = c.at
  BY PlannedRowFacts
<1>1. CASE c.kind = "force_submit"
  <2>1. row = Contract!ForceSubmitRow(c, att)
    BY <1>1 DEF Contract!PlannedRow
  <2>2. /\ row.outcome = (IF att.status = "active" THEN "applied" ELSE "no_change")
        /\ row.afterStatus # "active"
    BY <2>1, SubmittedType DEF Contract!ForceSubmitRow, Contract!RowOf
  <2>3. new = [att EXCEPT !.status = row.afterStatus]
    BY <1>0, <1>1 DEF Contract!Effect
  <2> HIDE DEF row, new
  <2>4. new.status # "active" /\ new.flag = att.flag /\ new.deadline = att.deadline
    BY <2>2, <2>3 DEF Contract!Attempt
  <2> QED
    BY <1>1, <2>2, <2>4 DEF row, new
<1>2. CASE c.kind = "misconduct_mark"
  <2>1. row = Contract!MisconductRow(c)
    BY <1>2 DEF Contract!PlannedRow
  <2>2. row.outcome = "applied"
    BY <2>1 DEF Contract!MisconductRow, Contract!RowOf
  <2>3. new = [att EXCEPT !.flag = [at |-> row.at, payload |-> row.payload]]
    BY <1>0, <1>2 DEF Contract!Effect
  <2> HIDE DEF row, new
  <2>4. /\ new.flag = [at |-> c.at, payload |-> c.payload]
        /\ new.status = att.status /\ new.deadline = att.deadline
    BY <1>0, <2>3 DEF Contract!Attempt
  <2> QED
    BY <1>2, <2>2, <2>4 DEF row, new
<1>3. CASE c.kind = "time_grant"
  <2>1. row = Contract!GrantRow(c, att)
    BY <1>3 DEF Contract!PlannedRow
  <2>2. /\ row.outcome = "granted" /\ row.beforeDeadline = att.deadline
        /\ row.afterDeadline = att.deadline + c.payload
    BY <2>1 DEF Contract!GrantRow, Contract!RowOf
  <2>3. new = [att EXCEPT !.deadline = row.afterDeadline]
    BY <1>0, <1>3 DEF Contract!Effect
  <2> HIDE DEF row, new
  <2>4. /\ new.deadline = att.deadline + c.payload
        /\ new.status = att.status /\ new.flag = att.flag
    BY <2>2, <2>3 DEF Contract!Attempt
  <2> QED
    BY <1>3, <2>2, <2>4 DEF row, new
<1> QED
  BY <1>1, <1>2, <1>3 DEF Contract!Command, Contract!Kinds, Contract!ReceiptKinds

\* No adjustment reaches beyond the deadline of its attempt: that is why the
\* next one starts where all others have ended.
RowsBelow ==
  \A k \in Contract!Keys :
    ledger[k] # None /\ ledger[k].kind = "time_grant" =>
      ledger[k].afterDeadline <= attempts[ledger[k].attempt].deadline

LedgerInv == RowsBelow /\ SecondsAccounted /\ ReceiptsTellTheTruth /\ AuditedOnce

\* The ledger agrees with the attempts initially.
LEMMA LedgerInit == Init => LedgerInv
<1> SUFFICES ASSUME Init PROVE LedgerInv
  OBVIOUS
<1>1. \A k \in Contract!Keys : ledger[k] = None /\ audits[k] = 0
  BY DEF Init
<1>2. \A a \in Attempts : attempts[a].deadline = 0 /\ attempts[a].flag = None
  BY DEF Init
<1>3. SecondsAccounted
  BY <1>2 DEF SecondsAccounted
<1>4. RowsBelow /\ ReceiptsTellTheTruth
  BY <1>1, <1>2 DEF RowsBelow, ReceiptsTellTheTruth, Applied
<1>5. AuditedOnce
  BY <1>1 DEF AuditedOnce
<1> QED
  BY <1>3, <1>4, <1>5 DEF LedgerInv

\* Steps that change no row keep the ledger in agreement.
LEMMA LedgerQuiet ==
  ASSUME LedgerInv, Quiet
  PROVE  LedgerInv'
  BY DEF LedgerInv, Quiet, RowsBelow, SecondsAccounted, Covers, ReceiptsTellTheTruth, Applied,
         AuditedOnce

\* An attempt that moves forward keeps the ledger in agreement.
LEMMA LedgerStatusMoves ==
  ASSUME TypeOK, LedgerInv, NEW a \in Attempts, StatusMoves(a)
  PROVE  LedgerInv'
<1>1. ledger' = ledger /\ audits' = audits
  BY DEF StatusMoves
<1>2. \A b \in Attempts :
        /\ attempts'[b].deadline = attempts[b].deadline
        /\ attempts'[b].flag = attempts[b].flag
        /\ attempts[b].status # "active" => attempts'[b].status # "active"
  BY DEF StatusMoves, TypeOK, Contract!Attempt
<1>3. \A k \in Contract!Keys : ledger[k] # None => ledger[k].attempt \in Attempts
  BY LedgerRow DEF Contract!Row
<1>4. RowsBelow'
  BY <1>1, <1>2, <1>3 DEF LedgerInv, RowsBelow
<1>5. SecondsAccounted'
  BY <1>1, <1>2 DEF LedgerInv, SecondsAccounted, Covers
<1>6. ReceiptsTellTheTruth'
  BY <1>1, <1>2 DEF LedgerInv, ReceiptsTellTheTruth, Applied
<1>7. AuditedOnce'
  BY <1>1 DEF LedgerInv, AuditedOnce
<1> QED
  BY <1>4, <1>5, <1>6, <1>7 DEF LedgerInv

\* A commit writes ledger and attempt together and keeps them in agreement.
LEMMA LedgerCommit ==
  ASSUME IInv, LedgerInv, NEW s \in Slots, Commit(s)
  PROVE  LedgerInv'
<1> DEFINE c == job[s].cmd
<1> DEFINE k == Key(c)
<1> DEFINE a == c.attempt
<1> DEFINE att == attempts[a]
<1> DEFINE row == Contract!PlannedRow(c, att)
<1> DEFINE new == Contract!Effect(row, att)
<1>1. TypeOK
  BY DEF IInv
<1>2. /\ c \in Contract!Command /\ a \in Attempts /\ k \in Contract!Keys
      /\ att \in Contract!Attempt /\ row \in Contract!Row /\ row # None
      /\ row.kind = c.kind /\ row.attempt = a /\ row.payload = c.payload /\ row.at = c.at
      /\ ledger[k] = None
      /\ ledger' = [ledger EXCEPT ![k] = row]
      /\ attempts' = [attempts EXCEPT ![a] = new]
      /\ audits' = IF Contract!Audited(row) THEN [audits EXCEPT ![k] = @ + 1] ELSE audits
  BY CommitFacts
<1>3. /\ c.kind = "force_submit" =>
           /\ row.outcome = (IF att.status = "active" THEN "applied" ELSE "no_change")
           /\ new.status # "active" /\ new.flag = att.flag /\ new.deadline = att.deadline
      /\ c.kind = "misconduct_mark" =>
           /\ row.outcome = "applied" /\ new.flag = [at |-> c.at, payload |-> c.payload]
           /\ new.status = att.status /\ new.deadline = att.deadline
      /\ c.kind = "time_grant" =>
           /\ row.outcome = "granted" /\ row.beforeDeadline = att.deadline
           /\ row.afterDeadline = att.deadline + c.payload
           /\ new.deadline = att.deadline + c.payload
           /\ new.status = att.status /\ new.flag = att.flag
  BY <1>2, EffectFacts
<1>4. c.kind \in {"force_submit", "misconduct_mark", "time_grant"}
      /\ c.payload \in Nat \ {0} /\ att.deadline \in Nat
  BY <1>2, ReceiptsAssumption
  DEF Contract!Command, Contract!Kinds, Contract!ReceiptKinds, Contract!Attempt
<1> HIDE DEF c, k, a, att, row, new
<1>5. /\ ledger'[k] = row /\ attempts'[a] = new
      /\ \A j \in Contract!Keys : j # k => ledger'[j] = ledger[j]
      /\ \A b \in Attempts : b # a => attempts'[b] = attempts[b]
  BY <1>1, <1>2 DEF TypeOK
<1>6. new.deadline \in Nat /\ att.deadline <= new.deadline
  BY <1>3, <1>4
<1>7. \A j \in Contract!Keys : ledger[j] # None =>
        /\ ledger[j].attempt \in Attempts
        /\ ledger[j].beforeDeadline \in Nat /\ ledger[j].afterDeadline \in Nat
  BY <1>1, LedgerRow DEF Contract!Row
<1>8. attempts[a] = att /\ \A b \in Attempts : attempts[b].deadline \in Nat
  BY <1>1 DEF TypeOK, Contract!Attempt, att
<1>k. PICK kk \in Contract!Keys : kk = k
  BY <1>2
<1>l. /\ ledger[kk] = None /\ ledger'[kk] = row
      /\ \A j \in Contract!Keys : j # kk => ledger'[j] = ledger[j]
  BY <1>2, <1>5, <1>k
<1>9. RowsBelow'
  <2> SUFFICES ASSUME NEW j \in Contract!Keys, ledger'[j] # None,
                      ledger'[j].kind = "time_grant"
               PROVE  ledger'[j].afterDeadline <= attempts'[ledger'[j].attempt].deadline
    BY DEF RowsBelow
  <2>1. CASE j = k
    BY <1>2, <1>3, <1>4, <1>5, <2>1
  <2>2. CASE j # k
    <3>1. ledger[j].afterDeadline <= attempts[ledger[j].attempt].deadline
      BY <1>5, <2>2 DEF LedgerInv, RowsBelow
    <3> QED
      BY <1>5, <1>6, <1>7, <1>8, <2>2, <3>1
  <2> QED
    BY <2>1, <2>2
<1>10. SecondsAccounted'
  <2> SUFFICES ASSUME NEW b \in Attempts, NEW t \in 0..(attempts'[b].deadline - 1)
               PROVE  \E j \in Contract!Keys :
                        /\ Covers(j, b, t)'
                        /\ \A i \in Contract!Keys : Covers(i, b, t)' => i = j
    BY DEF SecondsAccounted
  <2>1. \A j \in Contract!Keys : j # kk => (Covers(j, b, t)' <=> Covers(j, b, t))
    BY <1>5, <1>l DEF Covers
  <2>2. t \in Nat
    OBVIOUS
  <2>3. CASE b = a /\ att.deadline <= t
    <3>1. c.kind = "time_grant"
      BY <1>3, <1>4, <1>5, <1>l, <1>6, <2>3
    <3>2. Covers(kk, b, t)'
      BY <1>2, <1>3, <1>4, <1>5, <1>l, <2>2, <2>3, <3>1 DEF Covers
    <3>3. \A j \in Contract!Keys : ~Covers(j, b, t)
      BY <1>7, <1>8, <2>2, <2>3 DEF LedgerInv, RowsBelow, Covers
    <3> QED
      BY <1>2, <1>l, <2>1, <3>2, <3>3
  <2>4. CASE ~(b = a /\ att.deadline <= t)
    <3>1. t \in 0..(attempts[b].deadline - 1)
      BY <1>5, <1>l, <1>8, <2>2, <2>4
    <3>2. PICK j \in Contract!Keys :
            Covers(j, b, t) /\ \A i \in Contract!Keys : Covers(i, b, t) => i = j
      BY <3>1 DEF LedgerInv, SecondsAccounted
    <3>3. j # kk
      BY <1>2, <1>l, <3>2 DEF Covers
    <3>4. ~Covers(kk, b, t)'
      BY <1>2, <1>3, <1>4, <1>5, <1>l, <2>2, <2>4 DEF Covers
    <3> QED
      BY <2>1, <3>2, <3>3, <3>4
  <2> QED
    BY <2>3, <2>4
<1>11. ReceiptsTellTheTruth'
  <2> SUFFICES ASSUME NEW b \in Attempts
               PROVE  /\ \A i, j \in Contract!Keys :
                           Applied(i, "force_submit", b)' =>
                             /\ attempts'[b].status # "active"
                             /\ Applied(j, "force_submit", b)' => i = j
                      /\ IF attempts'[b].flag = None
                           THEN ~\E j \in Contract!Keys : Applied(j, "misconduct_mark", b)'
                           ELSE \E j \in Contract!Keys :
                                  /\ Applied(j, "misconduct_mark", b)'
                                  /\ attempts'[b].flag =
                                       [at |-> ledger'[j].at, payload |-> ledger'[j].payload]
    BY DEF ReceiptsTellTheTruth
  <2>1. \A j \in Contract!Keys : j # kk =>
          /\ Applied(j, "force_submit", b)' <=> Applied(j, "force_submit", b)
          /\ Applied(j, "misconduct_mark", b)' <=> Applied(j, "misconduct_mark", b)
    BY <1>5, <1>l DEF Applied
  <2>2. ~Applied(kk, "force_submit", b) /\ ~Applied(kk, "misconduct_mark", b)
    BY <1>2, <1>l DEF Applied
  <2>3. Applied(kk, "force_submit", b)' <=>
          (b = a /\ c.kind = "force_submit" /\ att.status = "active")
    BY <1>2, <1>3, <1>5, <1>l DEF Applied
  <2>4. Applied(kk, "misconduct_mark", b)' <=> (b = a /\ c.kind = "misconduct_mark")
    BY <1>2, <1>3, <1>5, <1>l DEF Applied
  <2>5. /\ \A i, j \in Contract!Keys :
             Applied(i, "force_submit", b) =>
               attempts[b].status # "active" /\ (Applied(j, "force_submit", b) => i = j)
        /\ IF attempts[b].flag = None
             THEN ~\E j \in Contract!Keys : Applied(j, "misconduct_mark", b)
             ELSE \E j \in Contract!Keys :
                    /\ Applied(j, "misconduct_mark", b)
                    /\ attempts[b].flag = [at |-> ledger[j].at, payload |-> ledger[j].payload]
    BY DEF LedgerInv, ReceiptsTellTheTruth
  <2>6. attempts[b].status # "active" => attempts'[b].status # "active"
    BY <1>3, <1>4, <1>5, <1>l, <1>8
  <2>7. \A i, j \in Contract!Keys :
          Applied(i, "force_submit", b)' =>
            attempts'[b].status # "active" /\ (Applied(j, "force_submit", b)' => i = j)
    BY <1>3, <1>5, <1>l, <1>8, <2>1, <2>2, <2>3, <2>5, <2>6
  <2>8. CASE b = a /\ c.kind = "misconduct_mark"
    <3>1. attempts'[b].flag = [at |-> ledger'[kk].at, payload |-> ledger'[kk].payload]
      BY <1>2, <1>3, <1>5, <1>l, <2>8
    <3>2. attempts'[b].flag # None
      <4>1. c.at \in Times /\ c.payload \in Payloads
        BY <1>2, <1>l DEF Contract!Command
      <4> QED
        BY <1>3, <1>5, <1>l, <2>8, <4>1, ReceiptsAssumption
    <3> QED
      BY <1>2, <1>l, <2>4, <2>7, <2>8, <3>1, <3>2
  <2>9. CASE ~(b = a /\ c.kind = "misconduct_mark")
    <3>1. attempts'[b].flag = attempts[b].flag
      BY <1>3, <1>4, <1>5, <1>l, <1>8, <2>9
    <3>2. CASE attempts[b].flag = None
      BY <2>1, <2>4, <2>5, <2>7, <2>9, <3>1, <3>2
    <3>3. CASE attempts[b].flag # None
      <4>1. PICK j \in Contract!Keys :
              /\ Applied(j, "misconduct_mark", b)
              /\ attempts[b].flag = [at |-> ledger[j].at, payload |-> ledger[j].payload]
        BY <2>5, <3>3
      <4>2. j # kk /\ ledger'[j] = ledger[j]
        BY <1>5, <1>l, <2>2, <4>1
      <4> QED
        BY <2>1, <2>7, <3>1, <3>3, <4>1, <4>2
    <3> QED
      BY <3>2, <3>3
  <2> QED
    BY <2>8, <2>9
<1>12. AuditedOnce'
  <2> SUFFICES ASSUME NEW j \in Contract!Keys
               PROVE  audits'[j] = IF ledger'[j] # None /\ Contract!Audited(ledger'[j])
                                     THEN 1 ELSE 0
    BY DEF AuditedOnce, Contract!Audited
  <2>1. audits[j] = IF ledger[j] # None /\ Contract!Audited(ledger[j]) THEN 1 ELSE 0
    BY DEF LedgerInv, AuditedOnce
  <2>2. CASE j = k
    BY <1>1, <1>2, <1>5, <2>1, <2>2 DEF TypeOK
  <2>3. CASE j # k
    BY <1>1, <1>2, <1>5, <2>1, <2>3 DEF TypeOK, Contract!Audited
  <2> QED
    BY <2>2, <2>3
<1> QED
  BY <1>9, <1>10, <1>11, <1>12 DEF LedgerInv

\* Every step keeps the ledger in agreement with the attempts.
LEMMA LedgerStep == IInv /\ LedgerInv /\ [Next]_vars => LedgerInv'
  BY KindsOfStep, LedgerQuiet, LedgerStatusMoves, LedgerCommit DEF IInv

\* The ledger agrees with the attempts in every reachable state.
LEMMA LedgerInductive == Spec => []LedgerInv
  BY LedgerInit, LedgerStep, Inductive, PTL DEF Spec

\* However deliveries race, retry and run again, every second of an extension
\* is accounted for by one adjustment row.
THEOREM TimeAddedOnce == Spec => []SecondsAccounted
<1>1. LedgerInv => SecondsAccounted
  BY DEF LedgerInv
<1> QED
  BY <1>1, LedgerInductive, PTL

\* An attempt is force-submitted once at most, and its flag is a receipt's.
THEOREM ReceiptsTrue == Spec => []ReceiptsTellTheTruth
<1>1. LedgerInv => ReceiptsTellTheTruth
  BY DEF LedgerInv
<1> QED
  BY <1>1, LedgerInductive, PTL

\* Every operation that changed something has exactly one audit event.
THEOREM AuditsExact == Spec => []AuditedOnce
<1>1. LedgerInv => AuditedOnce
  BY DEF LedgerInv
<1> QED
  BY <1>1, LedgerInductive, PTL

-----------------------------------------------------------------------------
(* The execution implements the contract *)

\* What the client of a slot sees of its job.
SameCall(r) == job'[r].cmd = job[r].cmd /\ job'[r].reply = job[r].reply

\* If no client sees a change, the contract's calls are the same.
LEMMA CallsKept ==
  ASSUME \A r \in Slots : SameCall(r)
  PROVE  ClientCalls' = ClientCalls
  BY DEF ClientCalls, SameCall

\* A handler that ends is an answer of the contract.
LEMMA CallAnswered ==
  ASSUME NEW s \in Slots, NEW o, NEW row,
         job'[s].cmd = job[s].cmd, job'[s].reply = [outcome |-> o, row |-> row],
         \A r \in Slots : r # s => SameCall(r)
  PROVE  Contract!Answer(s, o, row)
<1>1. \A r \in Slots : ClientCalls'[r] = [ClientCalls EXCEPT ![s].reply = [outcome |-> o, row |-> row]][r]
  BY DEF ClientCalls, SameCall
<1> QED
  BY <1>1 DEF ClientCalls, Contract!Answer

\* A handler under way is a waiting call of the contract.
LEMMA WaitingSlot ==
  ASSUME IInv, NEW s \in Slots, ~At(s, "idle")
  PROVE  Contract!Waiting(s)
  BY Active DEF Contract!Waiting, ClientCalls

\* The whole answer of a handler, whether or not others notice its write.
LEMMA RespondAnswers ==
  ASSUME TypeOK, NEW s \in Slots, NEW o, NEW row, Respond(s, o, row)
  PROVE  Contract!Answer(s, o, row)
<1>1. job'[s] = Finished(s, o, row) /\ \A r \in Slots : r # s => job'[r] = job[r]
  BY DEF TypeOK, Respond
<1>2. job'[s].cmd = job[s].cmd /\ job'[s].reply = [outcome |-> o, row |-> row]
  BY <1>1 DEF Finished, JobOf
<1> QED
  BY <1>1, <1>2, CallAnswered DEF SameCall

\* Classifying the stored row is AnswerFromRow of the contract.
LEMMA ClassifyAnswers ==
  ASSUME IInv, NEW s \in Slots, ~At(s, "idle"), ledger[Key(job[s].cmd)] # None,
         Classify(s, ledger[Key(job[s].cmd)]), UNCHANGED <<attempts, ledger, audits>>
  PROVE  Contract!AnswerFromRow(s)
<1> DEFINE c == job[s].cmd
<1> DEFINE row == ledger[Key(c)]
<1>1. TypeOK /\ Contract!Waiting(s) /\ ClientCalls[s].cmd = c
  BY Active, WaitingSlot DEF ClientCalls
<1>2. IF Contract!SameCommand(row, c) THEN Contract!Answer(s, "idempotent_replay", row)
                                      ELSE Contract!Answer(s, "conflict", None)
  <2>1. IF Contract!SameCommand(row, c) THEN Respond(s, "idempotent_replay", row)
                                        ELSE Respond(s, "conflict", None)
    BY DEF Classify, SameCommand
  <2> HIDE DEF row, c
  <2> QED
    BY <1>1, <2>1, RespondAnswers
<1> QED
  BY <1>1, <1>2 DEF Contract!AnswerFromRow, Key

\* An error is Fail of the contract.
LEMMA FailAnswers ==
  ASSUME IInv, NEW s \in Slots, ~At(s, "idle"), Respond(s, "error", None),
         UNCHANGED <<attempts, ledger, audits>>
  PROVE  Contract!Fail(s)
  BY Active, WaitingSlot, RespondAnswers DEF Contract!Fail

\* A handler moves without answering.
LEMMA Stutters ==
  ASSUME \A r \in Slots : SameCall(r), UNCHANGED <<attempts, ledger, audits>>
  PROVE  UNCHANGED Contract!cvars
  BY CallsKept DEF Contract!cvars

\* A delivery is Request of the contract.
LEMMA RequestMapped ==
  ASSUME IInv, NEW s \in Slots, NEW c \in Commands, Deliver(s, c)
  PROVE  Contract!Request(s)
<1>1. TypeOK /\ ~Contract!Waiting(s)
  BY DEF IInv, SlotInv, Shape, Deliver, Contract!Waiting, ClientCalls
<1>2. job'[s].cmd = c /\ job'[s].reply = None /\ \A r \in Slots : r # s => job'[r] = job[r]
  BY <1>1 DEF Deliver, JobOf, TypeOK
<1>3. ClientCalls' = [ClientCalls EXCEPT ![s] = [cmd |-> c, reply |-> None]]
  BY <1>2 DEF ClientCalls
<1> QED
  BY <1>1, <1>3 DEF Contract!Request, Deliver

\* The commit is Execute of the contract: the plan still fits the locked row.
LEMMA CommitMapped ==
  ASSUME IInv, NEW s \in Slots, Commit(s)
  PROVE  Contract!Execute(s)
<1> DEFINE c == job[s].cmd
<1> DEFINE row == Contract!PlannedRow(c, attempts[c.attempt])
<1>1. ~At(s, "idle") /\ TypeOK /\ c # None
  <2>1. ~At(s, "idle")
    BY DEF Commit, At
  <2> QED
    BY <2>1, Active
<1>2. Contract!Waiting(s) /\ ClientCalls[s].cmd = c
  BY <1>1, WaitingSlot DEF ClientCalls
<1>3. /\ c \in Contract!Command /\ c.attempt \in Attempts
      /\ row \in Contract!Row /\ Contract!Permitted(c, attempts[c.attempt])
      /\ job[s].row = row /\ ledger[Key(c)] = None
      /\ ledger' = [ledger EXCEPT ![Key(c)] = row]
      /\ attempts' = [attempts EXCEPT ![c.attempt] = Contract!Effect(row, attempts[c.attempt])]
      /\ audits' = IF Contract!Audited(row) THEN [audits EXCEPT ![Key(c)] = @ + 1] ELSE audits
  BY CommitFacts
<1>4. Contract!Answer(s, row.outcome, row)
  <2> DEFINE F == Finished(s, row.outcome, row)
  <2>1. row.outcome \in Contract!Outcomes /\ row.outcome # "invariant_violation"
    BY <1>3 DEF Contract!Row, Contract!Outcomes
  <2>2. /\ F \in Job /\ F.pc = "idle" /\ F.cmd = c
        /\ F.reply = [outcome |-> row.outcome, row |-> row]
    <3> HIDE DEF row
    <3> QED
      BY <1>1, <1>3, <2>1, FinishedFacts
  <2>3. \/ job' = [job EXCEPT ![s] = F]
        \/ job' = Outdated([job EXCEPT ![s] = F], c.attempt)
    <3> HIDE DEF row
    <3> QED
      BY <1>3 DEF Commit
  <2> HIDE DEF F
  <2>4. job'[s] = F /\ \A r \in Slots : r # s => SameJob(job'[r], job[r])
    <3> HIDE DEF c, row
    <3> QED
      BY <1>1, <2>2, <2>3, DoneFacts
  <2> HIDE DEF row
  <2> QED
    BY <2>2, <2>4, CallAnswered DEF SameJob, SameCall
<1>5. attempts' = [attempts EXCEPT ![c.attempt] = Contract!Effect(row, @)]
  BY <1>3
<1> QED
  BY <1>2, <1>3, <1>4, <1>5 DEF Contract!Execute, Key

\* A grant that finds the attempt over is Terminal of the contract.
LEMMA TerminalMapped ==
  ASSUME IInv, NEW s \in Slots, GrantTerminal(s)
  PROVE  Contract!Terminal(s)
<1> DEFINE c == job[s].cmd
<1> DEFINE F == Finished(s, "terminal", None)
<1>1. ~At(s, "idle") /\ c.kind = "time_grant" /\ ledger' = ledger /\ audits' = audits
  BY DEF GrantTerminal, At
<1>2. TypeOK /\ c # None /\ c.attempt \in Attempts /\ Contract!Waiting(s) /\ ClientCalls[s].cmd = c
  BY <1>1, Active, WaitingSlot DEF ClientCalls
<1>3. attempts' = [attempts EXCEPT ![c.attempt].status =
                     IF @ = "active" THEN Contract!Submitted(c.attempt) ELSE @]
  BY <1>2 DEF GrantTerminal, TypeOK, Contract!Attempt
<1>4. Contract!Answer(s, "terminal", None)
  <2>1. F \in Job /\ F.pc = "idle" /\ F.cmd = c /\ F.reply = [outcome |-> "terminal", row |-> None]
    BY <1>2, FinishedFacts DEF Contract!Outcomes
  <2>2. \/ job' = [job EXCEPT ![s] = F]
        \/ job' = Outdated([job EXCEPT ![s] = F], c.attempt)
    BY DEF GrantTerminal
  <2> HIDE DEF F
  <2>3. job'[s] = F /\ \A r \in Slots : r # s => SameJob(job'[r], job[r])
    BY <1>2, <2>1, <2>2, DoneFacts
  <2> QED
    BY <2>1, <2>3, CallAnswered DEF SameJob, SameCall
<1> QED
  BY <1>1, <1>2, <1>3, <1>4 DEF Contract!Terminal

\* Others moving the attempt forward is Advance of the contract.
LEMMA AdvanceMapped ==
  ASSUME IInv, NEW a \in Attempts, Advance(a)
  PROVE  Contract!Advance(a)
<1>1. job \in [Slots -> Job]
  BY DEF IInv, TypeOK
<1>2. \A r \in Slots : SameCall(r)
  BY <1>1, OutdatedFacts DEF Advance, SameJob, SameCall
<1> QED
  BY <1>2, CallsKept DEF Advance, Contract!Advance

\* A new row version alone is a stutter of the contract.
LEMMA TouchMapped ==
  ASSUME IInv, NEW a \in Attempts, Touch(a)
  PROVE  UNCHANGED Contract!cvars
<1>1. job \in [Slots -> Job]
  BY DEF IInv, TypeOK
<1>2. \A r \in Slots : SameCall(r)
  BY <1>1, OutdatedFacts DEF Touch, SameJob, SameCall
<1> QED
  BY <1>2, Stutters DEF Touch

\* A step of one handler answers from the ledger, fails, executes, ends an
\* attempt that was over, or is invisible.
LEMMA StepMapped ==
  ASSUME IInv, NEW s \in Slots, Step(s)
  PROVE  \/ Contract!Execute(s) \/ Contract!AnswerFromRow(s)
         \/ Contract!Terminal(s) \/ Contract!Fail(s)
         \/ UNCHANGED Contract!cvars
<1>1. TypeOK /\ job \in [Slots -> Job] /\ SlotInv(s)
  BY DEF IInv, TypeOK
<1>2. CASE PreRead(s)
  <2>1. ~At(s, "idle")
    BY <1>2 DEF PreRead, At
  <2>2. CASE ledger[Key(job[s].cmd)] = None
    <3>1. \A r \in Slots : SameCall(r)
      BY <1>1, <1>2, <2>2 DEF PreRead, SameCall, Job
    <3> QED
      BY <1>2, <3>1, Stutters DEF PreRead
  <2>3. CASE ledger[Key(job[s].cmd)] # None
    BY <1>2, <2>1, <2>3, ClassifyAnswers DEF PreRead
  <2> QED
    BY <2>2, <2>3
<1>3. CASE Begin(s)
  <2>1. \A r \in Slots : SameCall(r)
    BY <1>1, <1>3 DEF Begin, SameCall, Job
  <2> QED
    BY <1>3, <2>1, Stutters DEF Begin
<1>4. CASE LockOutdated(s)
  <2>1. ~At(s, "idle")
    BY <1>4 DEF LockOutdated, At
  <2>2. CASE job[s].tries < MaxRetries
    <3>1. \A r \in Slots : SameCall(r)
      BY <1>1, <1>4, <2>2 DEF LockOutdated, Retry, SameCall, Job
    <3> QED
      BY <1>4, <3>1, Stutters DEF LockOutdated
  <2>3. CASE ~(job[s].tries < MaxRetries)
    BY <1>4, <2>1, <2>3, FailAnswers DEF LockOutdated, Retry
  <2> QED
    BY <2>2, <2>3
<1>5. CASE LockAndPlan(s)
  <2>1. \A r \in Slots : SameCall(r)
    BY <1>1, <1>5 DEF LockAndPlan, SameCall, Job
  <2> QED
    BY <1>5, <2>1, Stutters DEF LockAndPlan
<1>6. CASE GrantReplay(s)
  <2>1. ~At(s, "idle") /\ At(s, "lock") /\ job[s].seen # None
    BY <1>6 DEF GrantReplay, At
  <2>2. ledger[Key(job[s].cmd)] = job[s].seen
    BY <1>1, <2>1 DEF SlotInv, WinnerKept
  <2> QED
    BY <1>6, <2>1, <2>2, ClassifyAnswers DEF GrantReplay
<1>7. CASE GrantTerminal(s)
  BY <1>7, TerminalMapped
<1>8. CASE GrantRefused(s)
  <2>1. ~At(s, "idle")
    BY <1>8 DEF GrantRefused, At
  <2> QED
    BY <1>8, <2>1, FailAnswers DEF GrantRefused
<1>9. CASE Insert(s)
  <2>1. \A r \in Slots : SameCall(r)
    BY <1>1, <1>9 DEF Insert, SameCall, Job
  <2> QED
    BY <1>9, <2>1, Stutters DEF Insert
<1>10. CASE UniqueViolation(s)
  <2>1. ~job[s].rerun
    BY <1>1, <1>10 DEF SlotInv, WinnerKept, UniqueViolation, Holds, At
  <2>2. \A r \in Slots : SameCall(r)
    BY <1>1, <1>10, <2>1 DEF UniqueViolation, SameCall, Job
  <2> QED
    BY <1>10, <2>2, Stutters DEF UniqueViolation
<1>11. CASE Recover(s)
  <2>1. ~At(s, "idle") /\ At(s, "recover")
    BY <1>11 DEF Recover, At
  <2>2. ledger[Key(job[s].cmd)] # None
    BY <1>1, <2>1 DEF SlotInv, WinnerKept
  <2> QED
    BY <1>11, <2>1, <2>2, ClassifyAnswers DEF Recover
<1>12. CASE Commit(s)
  BY <1>12, CommitMapped
<1> QED
  BY <1>2, <1>3, <1>4, <1>5, <1>6, <1>7, <1>8, <1>9, <1>10, <1>11, <1>12 DEF Step

\* The initial states are those of the contract.
LEMMA InitMapped == Init => Contract!CInit
<1> SUFFICES ASSUME Init PROVE Contract!CInit
  OBVIOUS
<1>1. ClientCalls = [s \in Slots |-> [cmd |-> None, reply |-> None]]
  BY DEF Init, NoJob, JobOf, ClientCalls
<1> QED
  BY <1>1 DEF Init, Contract!CInit

\* Every step is a step of the contract or a stutter.
LEMMA NextMapped == IInv /\ [Next]_vars => [Contract!CNext]_(Contract!cvars)
<1> SUFFICES ASSUME IInv, [Next]_vars PROVE [Contract!CNext]_(Contract!cvars)
  OBVIOUS
<1>1. CASE UNCHANGED vars
  <2>1. \A r \in Slots : SameCall(r)
    BY <1>1 DEF vars, SameCall
  <2> QED
    BY <1>1, <2>1, Stutters DEF vars
<1>2. ASSUME NEW s \in Slots, Step(s)
      PROVE  [Contract!CNext]_(Contract!cvars)
  BY <1>2, StepMapped DEF Contract!CNext
<1>3. ASSUME NEW s \in Slots, Abort(s)
      PROVE  Contract!CNext
  BY <1>3, FailAnswers DEF Abort, Contract!CNext
<1>4. ASSUME NEW s \in Slots, NEW c \in Commands, Deliver(s, c)
      PROVE  Contract!CNext
  BY <1>4, RequestMapped DEF Contract!CNext
<1>5. ASSUME NEW a \in Attempts, Touch(a)
      PROVE  UNCHANGED Contract!cvars
  BY <1>5, TouchMapped
<1>6. ASSUME NEW a \in Attempts, Advance(a)
      PROVE  Contract!CNext
  BY <1>6, AdvanceMapped DEF Contract!CNext
<1> QED
  BY <1>1, <1>2, <1>3, <1>4, <1>5, <1>6 DEF Next

\* Whatever deliveries race, retry, lose and are cut off, the client sees each
\* command executed once, alone and whole, or answered from what was recorded.
THEOREM ImplementsTheContract == Spec => ImplementsContract
<1>1. Spec => Contract!CInit
  BY InitMapped DEF Spec
<1>2. Spec => [][Contract!CNext]_(Contract!cvars)
  BY NextMapped, Inductive, PTL DEF Spec
<1> QED
  BY <1>1, <1>2, PTL DEF ImplementsContract, Contract!CSpec
=============================================================================
