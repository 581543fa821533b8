----------------------------- MODULE EmailOutbox -----------------------------
(***************************************************************************)
(* Delivery of e-mail from the table email_outbox: the poll loop of        *)
(* apps/api/src/workers/emailDeliveryWorker.ts and                         *)
(* plugins/emailOutboxLoop.ts, EmailOutboxService.processDueEmails, and    *)
(* the statements of packages/db/src/repository/emailOutboxRepo.ts, each   *)
(* of which is one atomic step.                                            *)
(*                                                                         *)
(* Workers run side by side.  A worker claims rows for a lease that        *)
(* another worker ends when it has lasted lockTimeoutMs, hands the         *)
(* messages to the mail provider outside any transaction, and records the  *)
(* outcome only if it still owns the row.                                  *)
(***************************************************************************)
EXTENDS Naturals, FiniteSets

CONSTANTS
  None,
  Workers,     \* worker processes
  Emails,      \* rows, numbered in the order of created_at, id
  BatchSize,
  MaxAttempts, \* max_attempts of every row
  MaxFaults    \* bound: crashes, database errors, unclear answers, early expiries

Owners == Workers \X Nat

\* The rows the CHECK constraints of the table admit: processing goes with a lock.
OutboxRow ==
  {r \in [status: {"pending", "processing", "retry_wait", "sent", "dead"},
          attemptCount: Nat, lockedBy: Owners \cup {None}, expired: BOOLEAN,
          due: BOOLEAN] :
     r.status = "processing" <=> r.lockedBy # None}

ASSUME OutboxAssumption ==
  /\ Emails \subseteq Nat
  /\ IsFiniteSet(Workers) /\ IsFiniteSet(Emails)
  /\ BatchSize \in Nat \ {0} /\ MaxAttempts \in Nat \ {0} /\ MaxFaults \in Nat
  /\ None \notin Emails /\ None \notin Owners /\ None \notin OutboxRow

VARIABLES
  outbox,   \* email -> its row, or None before it is created
  worker,   \* worker -> where its loop is
  handed,   \* email -> times a worker handed it to the provider
  accepted, \* email -> times the provider took it on
  faults    \* faults so far

vars == <<outbox, worker, handed, accepted, faults>>

\* lockedBy is the instance id, made anew by every start of a process; expired
\* says that lockedAt is lockTimeoutMs old, due that nextAttemptAt has come.
Row(status, attemptCount, lockedBy) ==
  [status |-> status, attemptCount |-> attemptCount, lockedBy |-> lockedBy,
   expired |-> FALSE, due |-> FALSE]

\* count is the batch: the attemptCount that the claim returned for a row, and
\* 0 for a row that is not in the batch or is done; current is the row whose
\* message has been handed over.
Idle(n) ==
  [instance |-> n, pc |-> "poll", count |-> [e \in Emails |-> 0], current |-> None]

Init ==
  /\ outbox = [e \in Emails |-> None]
  /\ worker = [w \in Workers |-> Idle(0)]
  /\ handed = [e \in Emails |-> 0]
  /\ accepted = [e \in Emails |-> 0]
  /\ faults = 0

-----------------------------------------------------------------------------

At(w, step) == worker[w].pc = step
Instance(w) == <<w, worker[w].instance>>
Batch(w) == {e \in Emails : worker[w].count[e] > 0}
Unsent(w) == Batch(w) \ {worker[w].current}

Is(e, status) == outbox[e] # None /\ outbox[e].status = status

\* The row is in the batch of the process that locked it.
Held(e) == \E w \in Workers : e \in Batch(w) /\ outbox[e].lockedBy = Instance(w)

Fault == faults < MaxFaults /\ faults' = faults + 1

\* emailOutboxRepo.create, in the transaction of the notification.
Enqueue(e) ==
  /\ outbox[e] = None
  /\ \A f \in Emails : f < e => outbox[f] # None
  /\ outbox' = [outbox EXCEPT ![e] = Row("pending", 0, None)]
  /\ UNCHANGED <<worker, handed, accepted, faults>>

\* MUTANT of Abandoned: nothing is given back.
NothingAbandoned(e) == FALSE

Abandoned(e) == Is(e, "processing") /\ outbox[e].expired

\* What recoverAbandoned writes: the attempt stays counted.
GiveBack(row) == Row("pending", row.attemptCount, None)

\* The poll begins with recoverAbandoned.
Recover(w) ==
  /\ At(w, "poll")
  /\ outbox' = [e \in Emails |-> IF Abandoned(e) THEN GiveBack(outbox[e]) ELSE outbox[e]]
  /\ worker' = [worker EXCEPT ![w].pc = "claim"]
  /\ UNCHANGED <<handed, accepted, faults>>

\* MUTANT of Claimable: a row in another worker's hands is claimed.
ClaimableUnlessDone(e) == outbox[e] # None /\ ~Is(e, "sent") /\ ~Is(e, "dead")

Claimable(e) == Is(e, "pending") \/ (Is(e, "retry_wait") /\ outbox[e].due)

\* The oldest BatchSize of them.
Oldest(S) ==
  {e \in S : Cardinality({f \in S : f < e}) < BatchSize}

\* claimDue, which counts the attempt.
Claim(w) ==
  LET S == Oldest({e \in Emails : Claimable(e)}) IN
  /\ At(w, "claim")
  /\ outbox' = [e \in Emails |->
       IF e \in S THEN Row("processing", outbox[e].attemptCount + 1, Instance(w))
                  ELSE outbox[e]]
  /\ worker' = [worker EXCEPT
       ![w].pc = IF S = {} THEN "poll" ELSE "send",
       ![w].count = [e \in Emails |-> IF e \in S THEN outbox[e].attemptCount + 1 ELSE 0]]
  /\ UNCHANGED <<handed, accepted, faults>>

\* sender.send: the provider takes the message on or rejects it.  Rows come back
\* from the claim in no order.  The sender is one that has a provider, not the
\* DisabledEmailSender of EMAIL_ENABLED=false, which only reports success.
Send(w, e) ==
  /\ At(w, "send") /\ e \in Batch(w)
  /\ handed' = [handed EXCEPT ![e] = @ + 1]
  /\ \/ /\ accepted' = [accepted EXCEPT ![e] = @ + 1]
        /\ worker' = [worker EXCEPT ![w].pc = "sent", ![w].current = e]
     \/ /\ accepted' = accepted
        /\ worker' = [worker EXCEPT ![w].pc = "failed", ![w].current = e]
  /\ UNCHANGED <<outbox, faults>>

\* The message is taken on, but the connection breaks before the answer.
SendUnclear(w, e) ==
  /\ At(w, "send") /\ e \in Batch(w)
  /\ handed' = [handed EXCEPT ![e] = @ + 1]
  /\ accepted' = [accepted EXCEPT ![e] = @ + 1]
  /\ worker' = [worker EXCEPT ![w].pc = "failed", ![w].current = e]
  /\ Fault
  /\ UNCHANGED outbox

\* The worker after a row is done: the next row, or the next poll.
Proceed(w) ==
  LET e == worker[w].current IN
  worker' = [worker EXCEPT ![w].count[e] = 0, ![w].current = None,
                           ![w].pc = IF Unsent(w) = {} THEN "poll" ELSE "send"]

\* MUTANT of Owns: the status alone is looked at.
OwnsAny(w, e) == Is(e, "processing")

\* The WHERE of markSent, markRetryWait and markDead.
Owns(w, e) == Is(e, "processing") /\ outbox[e].lockedBy = Instance(w)

\* A statement that changes the row if it is still owned.
Fenced(w, row) ==
  LET e == worker[w].current IN
  outbox' = IF Owns(w, e) THEN [outbox EXCEPT ![e] = row] ELSE outbox

\* MUTANT of Exhausted: one try more.
ExhaustedLate(count) == count > MaxAttempts

Exhausted(count) == count >= MaxAttempts

\* What is written after a failure, with the attemptCount that the claim returned.
FailedRow(w) ==
  LET c == worker[w].count[worker[w].current] IN
  IF Exhausted(c) THEN Row("dead", c, None) ELSE Row("retry_wait", c, None)

SentRow(w) == Row("sent", outbox[worker[w].current].attemptCount, None)

MarkSent(w) ==
  /\ At(w, "sent")
  /\ Fenced(w, SentRow(w))
  /\ Proceed(w)
  /\ UNCHANGED <<handed, accepted, faults>>

\* markSent throws, before or after the database has done it: the handler of a
\* failed send is entered.
MarkSentThrows(w) ==
  /\ At(w, "sent")
  /\ Fenced(w, SentRow(w)) \/ outbox' = outbox
  /\ worker' = [worker EXCEPT ![w].pc = "failed"]
  /\ Fault
  /\ UNCHANGED <<handed, accepted>>

\* markDead or markRetryWait.
MarkFailed(w) ==
  /\ At(w, "failed")
  /\ Fenced(w, FailedRow(w))
  /\ Proceed(w)
  /\ UNCHANGED <<handed, accepted, faults>>

\* The statement throws: the poll cycle fails, and the rest of the batch waits
\* for its locks to expire.
MarkFailedThrows(w) ==
  /\ At(w, "failed")
  /\ Fenced(w, FailedRow(w)) \/ outbox' = outbox
  /\ worker' = [worker EXCEPT ![w] = Idle(@.instance)]
  /\ Fault
  /\ UNCHANGED <<handed, accepted>>

\* The process dies, and is started again with a new instance id.
Crash(w) ==
  /\ worker' = [worker EXCEPT ![w] = Idle(@.instance + 1)]
  /\ Fault
  /\ UNCHANGED <<outbox, handed, accepted>>

\* Time passes: a lock nobody works under expires.
LockExpires(e) ==
  /\ Is(e, "processing") /\ ~outbox[e].expired /\ ~Held(e)
  /\ outbox' = [outbox EXCEPT ![e].expired = TRUE]
  /\ UNCHANGED <<worker, handed, accepted, faults>>

\* A batch lasts longer than lockTimeoutMs.
LockExpiresEarly(e) ==
  /\ Is(e, "processing") /\ ~outbox[e].expired /\ Held(e)
  /\ outbox' = [outbox EXCEPT ![e].expired = TRUE]
  /\ Fault
  /\ UNCHANGED <<worker, handed, accepted>>

\* computeNextRetryAt's instant comes.
RetryDue(e) ==
  /\ Is(e, "retry_wait") /\ ~outbox[e].due
  /\ outbox' = [outbox EXCEPT ![e].due = TRUE]
  /\ UNCHANGED <<worker, handed, accepted, faults>>

Step(w) ==
  \/ Recover(w) \/ Claim(w) \/ \E e \in Emails : Send(w, e)
  \/ MarkSent(w) \/ MarkFailed(w)

Next ==
  \/ \E w \in Workers :
       \/ Step(w)
       \/ \E e \in Emails : SendUnclear(w, e)
       \/ MarkSentThrows(w) \/ MarkFailedThrows(w) \/ Crash(w)
  \/ \E e \in Emails : Enqueue(e) \/ LockExpires(e) \/ LockExpiresEarly(e) \/ RetryDue(e)

Spec == Init /\ [][Next]_vars

\* Every worker goes on polling, and time passes.
FairSpec ==
  /\ Spec
  /\ \A w \in Workers : WF_vars(Step(w))
  /\ \A e \in Emails : WF_vars(LockExpires(e) \/ RetryDue(e))

-----------------------------------------------------------------------------

Worker == [instance: Nat, pc: {"poll", "claim", "send", "sent", "failed"},
           count: [Emails -> Nat], current: Emails \cup {None}]

\* The rows and the workers have their types.
TypeOK ==
  /\ outbox \in [Emails -> OutboxRow \cup {None}]
  /\ worker \in [Workers -> Worker]
  /\ handed \in [Emails -> Nat] /\ accepted \in [Emails -> Nat]
  /\ faults \in 0..MaxFaults

\* No message is handed over without a claim that counts it, a message is given
\* up after MaxAttempts claims and no sooner, and claimed more often only where
\* a fault has wasted a claim.
RetriesAsConfigured ==
  \A e \in Emails :
    IF outbox[e] = None
      THEN handed[e] = 0
      ELSE /\ handed[e] <= outbox[e].attemptCount
           /\ outbox[e].attemptCount <= MaxAttempts + faults
           /\ Is(e, "dead") => outbox[e].attemptCount >= MaxAttempts

\* At-least-once: a row is "sent" only if the provider has the message, and has
\* it twice only after a fault, once more for each.
DeliveredAtLeastOnce ==
  \A e \in Emails :
    /\ Is(e, "sent") => accepted[e] >= 1
    /\ accepted[e] <= 1 + faults

\* A row that is sent or dead stays as it is, and no stale worker takes back a
\* claim that was counted.
OutcomeIsFinal ==
  [][\A e \in Emails : outbox[e] # None =>
       /\ outbox'[e].attemptCount >= outbox[e].attemptCount
       /\ Is(e, "sent") \/ Is(e, "dead") => outbox'[e] = outbox[e]]_vars

\* Every message is sent or given up, whatever faults there were on the way.
EmailsSettle ==
  \A e \in Emails : outbox[e] # None ~> Is(e, "sent") \/ Is(e, "dead")
=============================================================================
