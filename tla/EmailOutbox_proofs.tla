-------------------------- MODULE EmailOutbox_proofs --------------------------
(***************************************************************************)
(* Proofs about the e-mail outbox, for any number of workers, rows and     *)
(* faults.                                                                 *)
(***************************************************************************)
EXTENDS EmailOutbox, FiniteSetTheorems, TLAPS

-----------------------------------------------------------------------------
(* The inductive invariant *)

Has(w, e) == e \in Batch(w)
Failed(w, e) == At(w, "failed") /\ worker[w].current = e
Delivered(w, e) == At(w, "sent") /\ worker[w].current = e

\* The workers that still have to hand e over for a claim they made.
Claimants(e) == {w \in Workers : e \in Unsent(w)}

\* Who records an outcome is working on a row of its batch.
Shape(w) ==
  /\ worker[w].pc \in {"poll", "claim"} => Batch(w) = {}
  /\ worker[w].pc \in {"poll", "claim", "send"} => worker[w].current = None
  /\ worker[w].pc \in {"sent", "failed"} => worker[w].current \in Batch(w)

\* The claim of row e that counts may still end in "sent".
Promising(e) ==
  /\ ~outbox[e].expired
  /\ \E w \in Workers : Has(w, e) /\ Owns(w, e) /\ ~Failed(w, e)

\* The row is there to be claimed again, now or when its lock has expired.
Open(e) ==
  \/ Is(e, "pending") \/ Is(e, "retry_wait")
  \/ Is(e, "processing") /\ (outbox[e].expired \/ ~Held(e))

Credit(e) == IF Is(e, "sent") \/ Promising(e) THEN 1 ELSE 0

Fresh(e) == handed[e] = 0 /\ accepted[e] = 0 /\ \A w \in Workers : ~Has(w, e)

\* Every hand-over past and to come has its claim, every claim too many its
\* fault, and every acceptance its row or its fault.
Accounts(e) ==
  /\ handed[e] + Cardinality(Claimants(e)) <= outbox[e].attemptCount
  /\ outbox[e].attemptCount <= MaxAttempts + faults
  /\ Open(e) => outbox[e].attemptCount < MaxAttempts + faults
  /\ Is(e, "dead") => outbox[e].attemptCount >= MaxAttempts
  /\ accepted[e] + Cardinality(Claimants(e)) <= faults + Credit(e)

\* The fence is safe: whoever passes it has the count of the row as it is.
Fence(e) ==
  \A w \in Workers :
    Has(w, e) /\ Owns(w, e) => worker[w].count[e] = outbox[e].attemptCount

Proof(e) ==
  /\ Is(e, "sent") => accepted[e] >= 1
  /\ \A w \in Workers : Delivered(w, e) => accepted[e] >= 1

EmailInv(e) ==
  /\ outbox[e] = None => Fresh(e)
  /\ outbox[e] # None => Accounts(e)
  /\ Fence(e) /\ Proof(e)

IInv ==
  /\ TypeOK
  /\ \A w \in Workers : Shape(w)
  /\ \A e \in Emails : EmailInv(e)

-----------------------------------------------------------------------------
(* Finite sets *)

\* Cardinality of subsets of the workers.
LEMMA CountSub ==
  ASSUME NEW S \in SUBSET Workers, NEW T \in SUBSET S
  PROVE  /\ Cardinality(S) \in Nat /\ Cardinality(T) \in Nat
         /\ Cardinality(T) <= Cardinality(S)
<1>1. IsFiniteSet(S) /\ IsFiniteSet(T)
  BY OutboxAssumption, FS_Subset
<1> QED
  BY <1>1, FS_CardinalityType, FS_Subset

\* One worker more counts one more.
LEMMA CountAdd ==
  ASSUME NEW S \in SUBSET Workers, NEW w \in Workers, w \notin S
  PROVE  Cardinality(S \cup {w}) = Cardinality(S) + 1
<1>1. IsFiniteSet(S)
  BY OutboxAssumption, FS_Subset
<1> QED
  BY <1>1, FS_AddElement

\* One worker less counts one less.
LEMMA CountRemove ==
  ASSUME NEW S \in SUBSET Workers, NEW w \in S
  PROVE  Cardinality(S \ {w}) = Cardinality(S) - 1
<1>1. IsFiniteSet(S)
  BY OutboxAssumption, FS_Subset
<1> QED
  BY <1>1, FS_RemoveElement

-----------------------------------------------------------------------------
(* Types *)

\* A row written without a lock is well typed.
LEMMA FreeRow ==
  ASSUME NEW st \in {"pending", "retry_wait", "sent", "dead"}, NEW c \in Nat
  PROVE  LET r == Row(st, c, None) IN
         /\ r \in OutboxRow /\ r # None /\ r.status = st /\ r.attemptCount = c
         /\ r.lockedBy = None /\ ~r.expired
<1>1. Row(st, c, None) \in OutboxRow
  BY DEF Row, OutboxRow
<1> QED
  BY <1>1, OutboxAssumption DEF Row

\* A claimed row is well typed.
LEMMA LockedRow ==
  ASSUME NEW c \in Nat, NEW l \in Owners
  PROVE  LET r == Row("processing", c, l) IN
         /\ r \in OutboxRow /\ r # None /\ r.status = "processing" /\ r.attemptCount = c
         /\ r.lockedBy = l /\ ~r.expired
<1>1. Row("processing", c, l) \in OutboxRow
  BY OutboxAssumption DEF Row, OutboxRow
<1> QED
  BY <1>1, OutboxAssumption DEF Row

\* What the types say of one row.
LEMMA RowFacts ==
  ASSUME TypeOK, NEW e \in Emails, outbox[e] # None
  PROVE  /\ outbox[e] \in OutboxRow /\ outbox[e].attemptCount \in Nat
         /\ outbox[e].status \in {"pending", "processing", "retry_wait", "sent", "dead"}
         /\ outbox[e].status = "processing" <=> outbox[e].lockedBy # None
         /\ outbox[e].expired \in BOOLEAN
  BY DEF TypeOK, OutboxRow

\* What the types say of one worker; instance ids are unique.
LEMMA WorkerFacts ==
  ASSUME TypeOK, NEW w \in Workers
  PROVE  /\ worker[w] \in Worker /\ worker[w].instance \in Nat
         /\ worker[w].count \in [Emails -> Nat]
         /\ worker[w].current \in Emails \cup {None}
         /\ Instance(w) \in Owners /\ Instance(w) # None
         /\ \A v \in Workers : Instance(v) = Instance(w) => v = w
<1>1. worker[w] \in Worker
  BY DEF TypeOK
<1>2. Instance(w) \in Owners
  BY <1>1 DEF Worker, Instance, Owners
<1> QED
  BY <1>1, <1>2, OutboxAssumption DEF Worker, Instance

\* An idle worker has no batch.
LEMMA IdleFacts ==
  ASSUME NEW n \in Nat
  PROVE  /\ Idle(n) \in Worker /\ Idle(n).pc = "poll" /\ Idle(n).current = None
         /\ Idle(n).instance = n /\ \A e \in Emails : Idle(n).count[e] = 0
  BY DEF Idle, Worker

\* A fault is counted and within the bound.
LEMMA FaultFacts ==
  ASSUME TypeOK, Fault
  PROVE  faults' \in 0..MaxFaults /\ faults \in Nat /\ faults' = faults + 1
  BY OutboxAssumption DEF TypeOK, Fault

\* The invariant holds initially.
LEMMA InitInv == Init => IInv
<1> SUFFICES ASSUME Init PROVE IInv
  OBVIOUS
<1>1. \A w \in Workers : worker[w] = Idle(0)
  BY DEF Init
<1>2. TypeOK
  <2>1. worker \in [Workers -> Worker]
    BY IdleFacts DEF Init
  <2> QED
    BY <2>1, OutboxAssumption DEF Init, TypeOK
<1>3. \A w \in Workers : Batch(w) = {} /\ worker[w].current = None /\ worker[w].pc = "poll"
  BY <1>1, IdleFacts DEF Batch
<1>4. \A w \in Workers : Shape(w)
  BY <1>3 DEF Shape
<1>5. \A e \in Emails : EmailInv(e)
  BY <1>3 DEF Init, EmailInv, Fresh, Has, Fence, Proof, Is, Delivered, At
<1> QED
  BY <1>2, <1>4, <1>5 DEF IInv

-----------------------------------------------------------------------------
(* Rows that a step leaves alone *)

\* A step may take e from a worker, if a fault pays for it or if the worker does
\* not own the row.
Untouched(e) ==
  /\ outbox'[e] = outbox[e] /\ handed'[e] = handed[e] /\ accepted'[e] = accepted[e]
  /\ \A w \in Workers :
       /\ Has(w, e)' => /\ Has(w, e) /\ worker'[w].instance = worker[w].instance
                        /\ worker'[w].count[e] = worker[w].count[e]
       /\ (e \in Unsent(w))' => e \in Unsent(w)
       /\ Delivered(w, e)' => Delivered(w, e)
  /\ \/ faults' = faults + 1
     \/ /\ faults' = faults
        /\ \A w \in Workers :
             Has(w, e) /\ Owns(w, e) =>
               /\ Has(w, e)' /\ worker'[w].instance = worker[w].instance
               /\ Failed(w, e)' => Failed(w, e)

\* An email nobody touched keeps its invariant.
LEMMA UntouchedKept ==
  ASSUME TypeOK, NEW e \in Emails, EmailInv(e), Untouched(e)
  PROVE  EmailInv(e)'
<1>1. outbox'[e] = outbox[e] /\ handed'[e] = handed[e] /\ accepted'[e] = accepted[e]
  BY DEF Untouched
<1>2. \A s : Is(e, s)' <=> Is(e, s)
  BY <1>1 DEF Is
<1>3. outbox'[e] = None => Fresh(e)'
  BY <1>1 DEF EmailInv, Fresh, Untouched
<1>4. \A w \in Workers : Has(w, e)' => (Owns(w, e)' <=> Owns(w, e))
  BY <1>1, <1>2 DEF Untouched, Owns, Instance
<1>5. Fence(e)'
  BY <1>1, <1>4 DEF EmailInv, Fence, Untouched
<1>6. Proof(e)'
  BY <1>1, <1>2 DEF EmailInv, Proof, Untouched
<1>7. ASSUME outbox[e] # None PROVE Accounts(e)'
  <2> DEFINE n == Cardinality(Claimants(e))
  <2> DEFINE m == Cardinality(Claimants(e)')
  <2>1. n \in Nat /\ m \in Nat /\ m <= n
    <3>1. Claimants(e)' \in SUBSET Claimants(e) /\ Claimants(e) \in SUBSET Workers
      BY DEF Claimants, Untouched
    <3> QED
      BY <3>1, CountSub
  <2>2. /\ faults \in Nat /\ faults' \in Nat /\ MaxAttempts \in Nat
        /\ handed[e] \in Nat /\ accepted[e] \in Nat /\ outbox[e].attemptCount \in Nat
    BY <1>7, RowFacts, OutboxAssumption DEF TypeOK, Untouched
  <2>3. Accounts(e)
    BY <1>7 DEF EmailInv
  <2>4. Credit(e) \in {0, 1} /\ Credit(e)' \in {0, 1}
    BY DEF Credit
  <2>5. Cardinality(Claimants(e))' = m
    OBVIOUS
  <2> HIDE DEF n, m
  <2>6. CASE faults' = faults + 1
    <3>1. accepted[e] + m <= faults' + Credit(e)'
      BY <2>1, <2>2, <2>3, <2>4, <2>6 DEF Accounts, n
    <3>2. handed[e] + m <= outbox[e].attemptCount
      BY <2>1, <2>2, <2>3 DEF Accounts, n
    <3>3. outbox[e].attemptCount < MaxAttempts + faults'
      BY <2>2, <2>3, <2>6 DEF Accounts
    <3> QED
      BY <1>1, <1>2, <2>2, <2>3, <2>5, <3>1, <3>2, <3>3 DEF Accounts
  <2>7. CASE faults' = faults /\ ~(faults' = faults + 1)
    <3>1. \A w \in Workers :
            Has(w, e) /\ Owns(w, e) =>
               Has(w, e)' /\ Owns(w, e)' /\ (Failed(w, e)' => Failed(w, e))
      BY <1>4, <2>7 DEF Untouched
    <3>2. Promising(e) => Promising(e)'
      BY <1>1, <3>1 DEF Promising
    <3>3. Credit(e) <= Credit(e)'
      BY <1>2, <3>2 DEF Credit
    <3>4. Is(e, "processing") /\ Held(e) => Held(e)'
      BY <1>1, <1>2, <3>1 DEF Held, Has, Owns
    <3>5. Open(e)' => Open(e)
      BY <1>1, <1>2, <3>4 DEF Open
    <3>6. accepted[e] + m <= faults' + Credit(e)'
      BY <2>1, <2>2, <2>3, <2>4, <2>7, <3>3 DEF Accounts, n
    <3>7. handed[e] + m <= outbox[e].attemptCount
      BY <2>1, <2>2, <2>3 DEF Accounts, n
    <3> QED
      BY <1>1, <1>2, <2>2, <2>3, <2>5, <2>7, <3>5, <3>6, <3>7 DEF Accounts
  <2> QED
    BY <2>6, <2>7 DEF Untouched
<1> QED
  BY <1>1, <1>3, <1>5, <1>6, <1>7 DEF EmailInv

-----------------------------------------------------------------------------
(* Steps that only change rows *)

\* If no worker moves, nothing the invariant says of the workers changes.
LEMMA WorkersSame ==
  ASSUME IInv, worker' = worker
  PROVE  /\ \A w \in Workers : Shape(w)'
         /\ \A w \in Workers, e \in Emails :
              /\ Has(w, e)' <=> Has(w, e)
              /\ (e \in Unsent(w))' <=> e \in Unsent(w)
              /\ Delivered(w, e)' <=> Delivered(w, e)
              /\ Failed(w, e)' <=> Failed(w, e)
         /\ \A e \in Emails : Claimants(e)' = Claimants(e)
  BY DEF IInv, Shape, Has, Batch, Unsent, Delivered, Failed, At, Claimants

\* Writing one row leaves the other emails alone.
LEMMA OthersUntouched ==
  ASSUME IInv, worker' = worker, NEW e \in Emails, NEW f \in Emails, f # e,
         NEW row, outbox' = [outbox EXCEPT ![e] = row],
         handed' = handed, accepted' = accepted, faults' = faults \/ faults' = faults + 1
  PROVE  EmailInv(f)'
<1>1. Untouched(f)
  BY WorkersSame DEF Untouched, IInv, TypeOK
<1> QED
  BY <1>1, UntouchedKept DEF IInv

\* The counters are numbers.
LEMMA Numbers ==
  ASSUME TypeOK, NEW e \in Emails
  PROVE  /\ Claimants(e) \in SUBSET Workers /\ Cardinality(Claimants(e)) \in Nat
         /\ faults \in Nat /\ MaxAttempts \in Nat /\ MaxAttempts >= 1
         /\ handed[e] \in Nat /\ accepted[e] \in Nat
  BY CountSub, OutboxAssumption DEF TypeOK, Claimants

\* Enqueue preserves the invariant.
LEMMA EnqueueStep ==
  ASSUME IInv, NEW e \in Emails, Enqueue(e)
  PROVE  IInv'
<1> DEFINE row == Row("pending", 0, None)
<1>1. TypeOK /\ EmailInv(e) /\ Fresh(e)
  BY DEF IInv, EmailInv, Enqueue
<1>2. /\ row \in OutboxRow /\ row # None /\ row.status = "pending" /\ row.attemptCount = 0
      /\ row.lockedBy = None /\ ~row.expired
  BY FreeRow
<1> HIDE DEF row
<1>3. /\ outbox' = [outbox EXCEPT ![e] = row] /\ outbox'[e] = row
      /\ worker' = worker /\ handed' = handed /\ accepted' = accepted /\ faults' = faults
  BY <1>1 DEF Enqueue, TypeOK, row
<1>4. TypeOK'
  BY <1>1, <1>2, <1>3 DEF TypeOK
<1>5. \A f \in Emails : f # e => EmailInv(f)'
  BY <1>3, OthersUntouched
<1>6. Claimants(e)' = {} /\ Cardinality(Claimants(e)') = 0
  <2>1. Claimants(e)' = {}
    BY <1>1, <1>3, WorkersSame DEF Claimants, Fresh, Has, Unsent
  <2> QED
    BY <2>1, FS_EmptySet
<1>7. Accounts(e)'
  BY <1>1, <1>2, <1>3, <1>6, Numbers DEF Accounts, Fresh, Is, Credit
<1>8. \A w \in Workers : ~Has(w, e)' /\ ~Delivered(w, e)'
  <2>1. \A w \in Workers : ~Delivered(w, e)
    BY <1>1 DEF IInv, Shape, Delivered, At, Fresh, Has
  <2> QED
    BY <1>1, <1>3, <2>1, WorkersSame DEF Fresh
<1>9. EmailInv(e)'
  BY <1>2, <1>3, <1>7, <1>8 DEF EmailInv, Fence, Proof, Is
<1> QED
  BY <1>3, <1>4, <1>5, <1>9, WorkersSame DEF IInv

\* A row whose lock has expired, or whose time has come, but for that unchanged.
LEMMA FlagStep ==
  ASSUME IInv, NEW e \in Emails, NEW row, outbox[e] # None, row \in OutboxRow,
         row.status = outbox[e].status, row.attemptCount = outbox[e].attemptCount,
         row.lockedBy = outbox[e].lockedBy,
         row.expired = outbox[e].expired
           \/ (row.status = "processing" /\ (faults' = faults + 1 \/ ~Held(e))),
         outbox' = [outbox EXCEPT ![e] = row], worker' = worker,
         handed' = handed, accepted' = accepted,
         faults' = faults \/ faults' = faults + 1, faults' \in 0..MaxFaults
  PROVE  IInv'
<1>1. TypeOK /\ outbox'[e] = row /\ row # None /\ EmailInv(e) /\ Accounts(e)
  BY OutboxAssumption DEF IInv, TypeOK, EmailInv
<1>2. TypeOK'
  BY <1>1 DEF TypeOK
<1>3. \A f \in Emails : f # e => EmailInv(f)'
  BY OthersUntouched
<1>4. \A s : Is(e, s)' <=> Is(e, s)
  BY <1>1 DEF Is
<1>5. \A w \in Workers : (Owns(w, e)' <=> Owns(w, e)) /\ Instance(w)' = Instance(w)
  BY <1>1, <1>4 DEF Owns, Instance
<1>6. Fence(e)' /\ Proof(e)'
  BY <1>1, <1>4, <1>5, WorkersSame DEF EmailInv, Fence, Proof
<1>7. Claimants(e)' = Claimants(e)
  BY WorkersSame
<1>8. Held(e)' <=> Held(e)
  BY <1>1, <1>5, WorkersSame DEF Held, Has
<1>9. \/ faults' = faults + 1
      \/ (Open(e)' => Open(e)) /\ (Promising(e) => Promising(e)')
  <2>1. CASE row.expired = outbox[e].expired
    BY <1>1, <1>4, <1>5, <1>8, <2>1, WorkersSame DEF Open, Promising
  <2>2. CASE row.status = "processing" /\ ~Held(e)
    BY <1>1, <1>4, <2>2 DEF Open, Promising, Is, Held, Has, Owns
  <2>3. CASE faults' = faults + 1
    BY <2>3
  <2> QED
    BY <2>1, <2>2, <2>3
<1>10. Accounts(e)'
  <2> DEFINE n == Cardinality(Claimants(e))
  <2>1. /\ n \in Nat /\ faults \in Nat /\ MaxAttempts \in Nat /\ handed[e] \in Nat
        /\ accepted[e] \in Nat /\ outbox[e].attemptCount \in Nat
    BY <1>1, Numbers, RowFacts
  <2>2. Credit(e) \in {0, 1} /\ Credit(e)' \in {0, 1}
        /\ (faults' # faults + 1 => Credit(e) <= Credit(e)')
    BY <1>4, <1>9 DEF Credit
  <2>3. Cardinality(Claimants(e))' = n
    BY <1>7
  <2>4. handed[e] + n <= outbox[e].attemptCount /\ accepted[e] + n <= faults + Credit(e)
    BY <1>1 DEF Accounts
  <2> HIDE DEF n
  <2>5. accepted[e] + n <= faults' + Credit(e)'
    BY <2>1, <2>2, <2>4
  <2>6. /\ outbox[e].attemptCount <= MaxAttempts + faults'
        /\ Open(e)' => outbox[e].attemptCount < MaxAttempts + faults'
    BY <1>1, <1>9, <2>1 DEF Accounts
  <2> QED
    BY <1>1, <1>4, <2>3, <2>4, <2>5, <2>6 DEF Accounts
<1> QED
  BY <1>1, <1>2, <1>3, <1>6, <1>10, WorkersSame DEF IInv, EmailInv

\* The passing of time preserves the invariant.
LEMMA ClockStep ==
  ASSUME IInv, NEW e \in Emails, LockExpires(e) \/ LockExpiresEarly(e) \/ RetryDue(e)
  PROVE  IInv'
<1>1. TypeOK /\ outbox[e] # None
  BY DEF IInv, LockExpires, LockExpiresEarly, RetryDue, Is
<1>2. outbox[e] \in OutboxRow
  BY <1>1, RowFacts
<1>3. CASE RetryDue(e)
  <2> DEFINE row == [outbox[e] EXCEPT !.due = TRUE]
  <2>1. /\ row \in OutboxRow /\ row.status = outbox[e].status
        /\ row.attemptCount = outbox[e].attemptCount /\ row.lockedBy = outbox[e].lockedBy
        /\ row.expired = outbox[e].expired
    BY <1>2 DEF OutboxRow
  <2>2. outbox' = [outbox EXCEPT ![e] = row]
    BY <1>1, <1>3 DEF RetryDue, TypeOK
  <2> HIDE DEF row
  <2> QED
    BY <1>1, <1>3, <2>1, <2>2, FlagStep DEF RetryDue, TypeOK
<1>4. CASE LockExpires(e) \/ LockExpiresEarly(e)
  <2> DEFINE row == [outbox[e] EXCEPT !.expired = TRUE]
  <2>1. /\ row \in OutboxRow /\ row.status = outbox[e].status
        /\ row.attemptCount = outbox[e].attemptCount /\ row.lockedBy = outbox[e].lockedBy
    BY <1>2 DEF OutboxRow
  <2>2. outbox' = [outbox EXCEPT ![e] = row] /\ row.status = "processing"
    BY <1>1, <1>4, <2>1 DEF LockExpires, LockExpiresEarly, TypeOK, Is
  <2>3. /\ (faults' = faults /\ ~Held(e)) \/ faults' = faults + 1
        /\ faults' \in 0..MaxFaults
    BY <1>1, <1>4, FaultFacts DEF LockExpires, LockExpiresEarly, TypeOK
  <2> HIDE DEF row
  <2> QED
    BY <1>1, <1>4, <2>1, <2>2, <2>3, FlagStep DEF LockExpires, LockExpiresEarly
<1> QED
  BY <1>3, <1>4

-----------------------------------------------------------------------------
(* The steps of a worker *)

\* The worker's part of a step of w alone.
LEMMA OtherWorkers ==
  ASSUME IInv, NEW w \in Workers, NEW v \in Workers, v # w, worker'[v] = worker[v]
  PROVE  /\ Shape(v)' /\ Instance(v)' = Instance(v)
         /\ \A e \in Emails :
              /\ Has(v, e)' <=> Has(v, e)
              /\ (e \in Unsent(v))' <=> e \in Unsent(v)
              /\ Delivered(v, e)' <=> Delivered(v, e)
              /\ Failed(v, e)' <=> Failed(v, e)
  BY DEF IInv, Shape, Has, Batch, Unsent, Delivered, Failed, At, Instance

\* Recover preserves the invariant.
LEMMA RecoverStep ==
  ASSUME IInv, NEW w \in Workers, Recover(w)
  PROVE  IInv'
<1>1. TypeOK /\ Shape(w) /\ At(w, "poll")
  BY DEF IInv, Recover
<1>2. /\ worker' \in [Workers -> Worker] /\ worker'[w] = [worker[w] EXCEPT !.pc = "claim"]
      /\ \A v \in Workers : v # w => worker'[v] = worker[v]
  BY <1>1 DEF Recover, TypeOK, Worker
<1>3. worker'[w].count = worker[w].count /\ worker'[w].current = worker[w].current
      /\ worker'[w].pc = "claim" /\ worker'[w].instance = worker[w].instance
  BY <1>1, <1>2 DEF TypeOK, Worker
<1>4. Batch(w)' = Batch(w) /\ Batch(w) = {}
  BY <1>1, <1>3 DEF Batch, Shape, At
<1>5. \A v \in Workers : Shape(v)'
  BY <1>1, <1>2, <1>3, <1>4, OtherWorkers DEF Shape, At
<1>6. \A v \in Workers : /\ worker'[v].instance = worker[v].instance
                         /\ Instance(v)' = Instance(v)
                         /\ worker'[v].count = worker[v].count
  BY <1>2, <1>3 DEF Instance
<1>7. \A v \in Workers, e \in Emails :
        /\ Has(v, e)' <=> Has(v, e)
        /\ (e \in Unsent(v))' <=> e \in Unsent(v)
        /\ Delivered(v, e)' <=> Delivered(v, e)
        /\ Failed(v, e)' <=> Failed(v, e)
  BY <1>1, <1>2, <1>3, <1>4, OtherWorkers, ZenonT(30) DEF Has, Unsent, Delivered, Failed, At
<1>8. \A e \in Emails :
        outbox'[e] = IF Abandoned(e) THEN GiveBack(outbox[e]) ELSE outbox[e]
  BY DEF Recover
<1>9. handed' = handed /\ accepted' = accepted /\ faults' = faults
  BY DEF Recover
<1>10. \A e \in Emails : Abandoned(e) =>
         /\ outbox[e] # None /\ outbox'[e] \in OutboxRow /\ outbox'[e] # None
         /\ outbox'[e].status = "pending" /\ outbox'[e].lockedBy = None
         /\ outbox'[e].attemptCount = outbox[e].attemptCount /\ ~outbox'[e].expired
  BY <1>1, <1>8, RowFacts, FreeRow DEF Abandoned, Is, GiveBack
<1>11. TypeOK'
  <2>1. outbox' \in [Emails -> OutboxRow \cup {None}]
    BY <1>1, <1>8, <1>10 DEF TypeOK, Recover
  <2> QED
    BY <1>1, <1>2, <1>9, <2>1 DEF TypeOK
<1>12. ASSUME NEW e \in Emails PROVE EmailInv(e)'
  <2>1. EmailInv(e)
    BY DEF IInv
  <2>2. CASE ~Abandoned(e)
    <3>1. Untouched(e)
      BY <1>6, <1>7, <1>8, <1>9, <2>2 DEF Untouched
    <3> QED
      BY <1>1, <2>1, <3>1, UntouchedKept
  <2>3. CASE Abandoned(e)
    <3>1. Accounts(e) /\ Open(e) /\ ~Promising(e) /\ ~Is(e, "sent")
      BY <1>10, <2>1, <2>3 DEF EmailInv, Abandoned, Open, Promising, Is
    <3>2. Credit(e) = 0 /\ Claimants(e)' = Claimants(e)
      BY <1>7, <3>1 DEF Credit, Claimants
    <3>3. Is(e, "pending")' /\ ~Is(e, "dead")' /\ ~Is(e, "sent")' /\ ~Is(e, "processing")'
      BY <1>10, <2>3 DEF Is
    <3>4. Credit(e)' = 0
      BY <3>3 DEF Credit, Promising, Owns
    <3>5. Accounts(e)'
      BY <1>9, <1>10, <2>3, <3>1, <3>2, <3>3, <3>4 DEF Accounts
    <3>6. Fence(e)' /\ Proof(e)'
      BY <1>7, <1>9, <2>1, <3>3 DEF EmailInv, Fence, Proof, Owns
    <3> QED
      BY <1>10, <2>3, <3>5, <3>6 DEF EmailInv
  <2> QED
    BY <2>2, <2>3
<1> QED
  BY <1>5, <1>11, <1>12 DEF IInv

\* Claim preserves the invariant.
LEMMA ClaimStep ==
  ASSUME IInv, NEW w \in Workers, Claim(w)
  PROVE  IInv'
<1> DEFINE S == Oldest({e \in Emails : Claimable(e)})
<1>1. TypeOK /\ Shape(w) /\ At(w, "claim") /\ Batch(w) = {} /\ worker[w].current = None
  BY DEF IInv, Claim, Shape, At
<1>2. /\ S \subseteq Emails
      /\ \A e \in S : /\ outbox[e] # None /\ outbox[e].attemptCount \in Nat
                      /\ Is(e, "pending") \/ Is(e, "retry_wait")
  <2>1. S \subseteq Emails /\ \A e \in S : Claimable(e)
    BY DEF Oldest
  <2> QED
    BY <1>1, <2>1, RowFacts DEF Claimable, Is
<1>3. /\ \A e \in Emails : outbox'[e] =
           IF e \in S THEN Row("processing", outbox[e].attemptCount + 1, Instance(w))
                      ELSE outbox[e]
      /\ outbox' = [e \in Emails |-> outbox'[e]]
      /\ handed' = handed /\ accepted' = accepted /\ faults' = faults
  BY DEF Claim
<1>4. worker' = [worker EXCEPT
        ![w].pc = IF S = {} THEN "poll" ELSE "send",
        ![w].count = [e \in Emails |-> IF e \in S THEN outbox[e].attemptCount + 1 ELSE 0]]
  BY DEF Claim
<1> HIDE DEF S
<1>5. \A e \in S : outbox[e].attemptCount + 1 \in Nat
  BY <1>2
<1>6. [e \in Emails |-> IF e \in S THEN outbox[e].attemptCount + 1 ELSE 0] \in [Emails -> Nat]
  BY <1>5
<1>7. /\ worker' \in [Workers -> Worker]
      /\ worker'[w].count = [e \in Emails |-> IF e \in S THEN outbox[e].attemptCount + 1 ELSE 0]
      /\ worker'[w].pc = (IF S = {} THEN "poll" ELSE "send")
      /\ worker'[w].current = worker[w].current
      /\ worker'[w].instance = worker[w].instance
      /\ \A v \in Workers : v # w => worker'[v] = worker[v]
  BY <1>1, <1>4, <1>6 DEF TypeOK, Worker
<1>8. Batch(w)' = S /\ Instance(w)' = Instance(w)
  BY <1>2, <1>5, <1>7 DEF Batch, Instance
<1>9. \A v \in Workers : Shape(v)'
  BY <1>1, <1>7, <1>8, OtherWorkers DEF Shape
<1>10. \A e \in S : LET r == outbox'[e] IN
         /\ r \in OutboxRow /\ r # None /\ r.status = "processing"
         /\ r.attemptCount = outbox[e].attemptCount + 1
         /\ r.lockedBy = Instance(w) /\ ~r.expired
  BY <1>1, <1>2, <1>3, <1>5, WorkerFacts, LockedRow
<1>11. TypeOK'
  <2>1. outbox' \in [Emails -> OutboxRow \cup {None}]
    BY <1>1, <1>3, <1>10 DEF TypeOK
  <2> QED
    BY <1>1, <1>3, <1>7, <2>1 DEF TypeOK
<1>12. ASSUME NEW e \in Emails PROVE EmailInv(e)'
  <2>1. EmailInv(e)
    BY DEF IInv
  <2>2. ~Has(w, e) /\ ~Delivered(w, e)' /\ ~Failed(w, e)' /\ e \notin Unsent(w)
        /\ (Has(w, e)' <=> e \in S) /\ ((e \in Unsent(w))' <=> e \in S)
    BY <1>1, <1>7, <1>8, OutboxAssumption DEF Has, Delivered, Failed, Unsent, At
  <2>3. CASE e \notin S
    <3>1. outbox'[e] = outbox[e]
      BY <1>3, <2>3
    <3>2. Untouched(e)
      BY <1>3, <1>7, <2>2, <2>3, <3>1, OtherWorkers DEF Untouched
    <3> QED
      BY <1>1, <2>1, <3>2, UntouchedKept
  <2>4. CASE e \in S
    <3>1. Accounts(e) /\ Open(e) /\ ~Is(e, "processing") /\ ~Is(e, "sent")
      BY <1>2, <2>1, <2>4 DEF EmailInv, Open, Is
    <3>2. Credit(e) = 0
      BY <3>1 DEF Credit, Promising, Owns
    <3>3. Claimants(e)' = Claimants(e) \cup {w} /\ w \notin Claimants(e)
      BY <1>7, <2>2, <2>4, OtherWorkers DEF Claimants
    <3>4. Cardinality(Claimants(e)') = Cardinality(Claimants(e)) + 1
      BY <1>1, <3>3, Numbers, CountAdd
    <3>5. /\ Is(e, "processing")' /\ ~Is(e, "dead")' /\ ~Is(e, "sent")'
          /\ ~Is(e, "pending")' /\ ~Is(e, "retry_wait")' /\ ~outbox'[e].expired
      BY <1>10, <2>4 DEF Is
    <3>6. Has(w, e)' /\ Owns(w, e)' /\ ~Failed(w, e)'
      BY <1>8, <1>10, <2>2, <2>4, <3>5 DEF Owns
    <3>7. Credit(e)' = 1 /\ ~Open(e)'
      BY <3>5, <3>6 DEF Credit, Promising, Open, Held, Has, Owns
    <3>8. Accounts(e)'
      <4> DEFINE n == Cardinality(Claimants(e))
      <4> DEFINE c == outbox[e].attemptCount
      <4>1. n \in Nat /\ c \in Nat /\ faults \in Nat /\ MaxAttempts \in Nat
            /\ handed[e] \in Nat /\ accepted[e] \in Nat
        BY <1>1, <1>2, <2>4, Numbers
      <4>2. handed[e] + n <= c /\ c < MaxAttempts + faults /\ accepted[e] + n <= faults
        BY <3>1, <3>2, <4>1 DEF Accounts
      <4>3. Cardinality(Claimants(e)') = n + 1 /\ outbox'[e].attemptCount = c + 1
        BY <1>10, <2>4, <3>4
      <4> HIDE DEF n, c
      <4>4. /\ handed[e] + (n + 1) <= c + 1 /\ c + 1 <= MaxAttempts + faults
            /\ accepted[e] + (n + 1) <= faults + 1
        BY <4>1, <4>2
      <4> QED
        BY <1>3, <3>5, <3>7, <4>3, <4>4 DEF Accounts
    <3>9. Fence(e)'
      <4>1. worker'[w].count[e] = outbox'[e].attemptCount
        BY <1>7, <1>10, <2>4
      <4>2. \A v \in Workers : v # w => ~Owns(v, e)'
        <5>1. \A v \in Workers : v # w => Instance(v)' # Instance(w)
          BY <1>7, OtherWorkers DEF Instance
        <5> QED
          BY <1>10, <2>4, <5>1 DEF Owns
      <4> QED
        BY <4>1, <4>2 DEF Fence
    <3>10. Proof(e)'
      BY <1>3, <1>7, <2>1, <2>2, <3>5, OtherWorkers DEF EmailInv, Proof
    <3> QED
      BY <1>10, <2>4, <3>8, <3>9, <3>10 DEF EmailInv
  <2> QED
    BY <2>3, <2>4
<1> QED
  BY <1>9, <1>11, <1>12 DEF IInv

\* A message is handed over: taken on, rejected, or taken on without an answer.
LEMMA SendStep ==
  ASSUME IInv, NEW w \in Workers, NEW e \in Emails, Send(w, e) \/ SendUnclear(w, e)
  PROVE  IInv'
<1>1. TypeOK /\ Shape(w) /\ At(w, "send") /\ e \in Batch(w) /\ worker[w].current = None
  BY DEF IInv, Send, SendUnclear, Shape, At
<1>2. PICK pc \in {"sent", "failed"}, a \in {0, 1}, d \in {0, 1} :
        /\ worker' = [worker EXCEPT ![w].pc = pc, ![w].current = e]
        /\ handed' = [handed EXCEPT ![e] = @ + 1]
        /\ accepted' = [accepted EXCEPT ![e] = @ + a]
        /\ faults' = faults + d /\ faults' \in 0..MaxFaults
        /\ outbox' = outbox
        /\ pc = "sent" => a = 1
        /\ pc = "failed" => a <= d
  <2>0. faults \in Nat /\ faults \in 0..MaxFaults /\ accepted \in [Emails -> Nat]
    BY <1>1, OutboxAssumption DEF TypeOK
  <2>1. CASE SendUnclear(w, e)
    <3>1. faults' = faults + 1 /\ faults' \in 0..MaxFaults
      BY <1>1, <2>1, FaultFacts DEF SendUnclear
    <3> QED
      BY <2>1, <3>1 DEF SendUnclear
  <2>2. CASE Send(w, e) /\ accepted' = accepted /\ worker' = [worker EXCEPT ![w].pc = "failed", ![w].current = e]
    <3>1. accepted' = [accepted EXCEPT ![e] = @ + 0]
      BY <2>0, <2>2
    <3> QED
      BY <2>0, <2>2, <3>1 DEF Send
  <2>3. CASE Send(w, e) /\ accepted' = [accepted EXCEPT ![e] = @ + 1]
             /\ worker' = [worker EXCEPT ![w].pc = "sent", ![w].current = e]
    BY <2>0, <2>3 DEF Send
  <2> QED
    BY <2>1, <2>2, <2>3 DEF Send
<1>3. /\ worker' \in [Workers -> Worker]
      /\ worker'[w].count = worker[w].count /\ worker'[w].pc = pc
      /\ worker'[w].current = e /\ worker'[w].instance = worker[w].instance
      /\ \A v \in Workers : v # w => worker'[v] = worker[v]
  BY <1>1, <1>2 DEF TypeOK, Worker
<1>4. Batch(w)' = Batch(w) /\ Instance(w)' = Instance(w)
  BY <1>3 DEF Batch, Instance
<1>5. \A v \in Workers : Shape(v)'
  BY <1>1, <1>3, <1>4, OtherWorkers DEF Shape
<1>6. /\ handed'[e] = handed[e] + 1 /\ accepted'[e] = accepted[e] + a
      /\ \A f \in Emails : f # e => handed'[f] = handed[f] /\ accepted'[f] = accepted[f]
      /\ handed' \in [Emails -> Nat] /\ accepted' \in [Emails -> Nat]
  BY <1>1, <1>2 DEF TypeOK
<1>7. TypeOK'
  BY <1>1, <1>2, <1>3, <1>6 DEF TypeOK
<1>8. ASSUME NEW f \in Emails, f # e PROVE EmailInv(f)'
  <2>1. /\ Has(w, f)' <=> Has(w, f)
        /\ (f \in Unsent(w))' => f \in Unsent(w)
        /\ ~Delivered(w, f)' /\ ~Failed(w, f)'
    BY <1>1, <1>3, <1>4, <1>8, OutboxAssumption DEF Has, Unsent, Delivered, Failed, At
  <2>2. faults' = faults \/ faults' = faults + 1
    BY <1>1, <1>2 DEF TypeOK
  <2>3. Untouched(f)
    BY <1>2, <1>3, <1>6, <1>8, <2>1, <2>2, OtherWorkers DEF Untouched
  <2> QED
    BY <1>1, <2>3, UntouchedKept DEF IInv
<1>9. EmailInv(e)'
  <2>1. EmailInv(e) /\ Has(w, e)
    BY <1>1 DEF IInv, Has
  <2>2. outbox[e] # None /\ Accounts(e)
    BY <2>1 DEF EmailInv, Fresh
  <2>3. Claimants(e)' = Claimants(e) \ {w} /\ w \in Claimants(e)
    <3>1. e \in Unsent(w) /\ ~(e \in Unsent(w))'
      BY <1>1, <1>3, OutboxAssumption DEF Unsent
    <3> QED
      BY <1>3, <3>1, OtherWorkers DEF Claimants
  <2>4. Cardinality(Claimants(e)') = Cardinality(Claimants(e)) - 1
    BY <1>1, <2>3, Numbers, CountRemove
  <2>5. \A s : Is(e, s)' <=> Is(e, s)
    BY <1>2 DEF Is
  <2>6. \A v \in Workers : /\ Has(v, e)' <=> Has(v, e)
                           /\ Owns(v, e)' <=> Owns(v, e)
                           /\ Instance(v)' = Instance(v)
                           /\ v # w => (Failed(v, e)' <=> Failed(v, e))
                           /\ worker'[v].count = worker[v].count
    BY <1>2, <1>3, <1>4, <2>5, OtherWorkers DEF Has, Owns
  <2>7. Held(e)' <=> Held(e)
    BY <1>2, <2>6 DEF Held, Has
  <2>8. Open(e)' <=> Open(e)
    BY <1>2, <2>5, <2>7 DEF Open
  <2>9. pc = "sent" => Credit(e)' = Credit(e)
    <3>1. pc = "sent" => ~Failed(w, e)' /\ ~Failed(w, e)
      BY <1>1, <1>3 DEF Failed, At
    <3>2. pc = "sent" => (Promising(e)' <=> Promising(e))
      BY <1>2, <2>6, <3>1 DEF Promising
    <3> QED
      BY <2>5, <3>2 DEF Credit
  <2>10. Accounts(e)'
    <3> DEFINE n == Cardinality(Claimants(e))
    <3>1. /\ n \in Nat /\ faults \in Nat /\ handed[e] \in Nat /\ accepted[e] \in Nat
          /\ outbox[e].attemptCount \in Nat /\ MaxAttempts \in Nat
      BY <1>1, <2>2, Numbers, RowFacts
    <3>2. Credit(e) \in {0, 1} /\ Credit(e)' \in {0, 1}
      BY DEF Credit
    <3>3. handed[e] + n <= outbox[e].attemptCount /\ accepted[e] + n <= faults + Credit(e)
      BY <2>2 DEF Accounts
    <3>4. Cardinality(Claimants(e)') = n - 1
      BY <2>4
    <3> HIDE DEF n
    <3>5. handed'[e] + (n - 1) <= outbox[e].attemptCount
      BY <1>6, <3>1, <3>3
    <3>6. accepted'[e] + (n - 1) <= faults' + Credit(e)'
      <4>1. CASE pc = "sent"
        BY <1>2, <1>6, <2>9, <3>1, <3>2, <3>3, <4>1
      <4>2. CASE pc = "failed"
        BY <1>2, <1>6, <3>1, <3>2, <3>3, <4>2
      <4> QED
        BY <4>1, <4>2
    <3>7. /\ outbox[e].attemptCount <= MaxAttempts + faults'
          /\ Open(e) => outbox[e].attemptCount < MaxAttempts + faults'
      BY <1>2, <2>2, <3>1 DEF Accounts
    <3> QED
      BY <1>2, <2>2, <2>5, <2>8, <3>4, <3>5, <3>6, <3>7 DEF Accounts
  <2>11. Fence(e)'
    BY <1>2, <2>1, <2>6 DEF EmailInv, Fence
  <2>12. Proof(e)'
    <3>1. accepted[e] \in Nat /\ accepted'[e] >= accepted[e] /\ (pc = "sent" => accepted'[e] >= 1)
      BY <1>1, <1>2, <1>6 DEF TypeOK
    <3>2. Delivered(w, e)' => pc = "sent"
      BY <1>3 DEF Delivered, At
    <3>3. \A v \in Workers : v # w => (Delivered(v, e)' <=> Delivered(v, e))
      BY <1>3, OtherWorkers
    <3>4. /\ Is(e, "sent") => accepted[e] >= 1
          /\ \A v \in Workers : Delivered(v, e) => accepted[e] >= 1
      BY <2>1 DEF EmailInv, Proof
    <3>5. accepted'[e] \in Nat
      BY <1>6
    <3>6. accepted[e] >= 1 => accepted'[e] >= 1
      BY <3>1, <3>5
    <3> QED
      BY <2>5, <3>1, <3>2, <3>3, <3>4, <3>6 DEF Proof
  <2> QED
    BY <1>2, <2>2, <2>10, <2>11, <2>12 DEF EmailInv
<1> QED
  BY <1>5, <1>7, <1>8, <1>9 DEF IInv

\* A worker gives up its batch, and a fault pays: the process dies, or a failure
\* cannot be recorded.
LEMMA DropStep ==
  ASSUME IInv, NEW w \in Workers, NEW n \in Nat, worker' = [worker EXCEPT ![w] = Idle(n)],
         outbox' = outbox, handed' = handed, accepted' = accepted, Fault
  PROVE  IInv'
<1>1. TypeOK /\ faults' = faults + 1 /\ faults' \in 0..MaxFaults
  BY FaultFacts DEF IInv
<1>2. /\ worker' \in [Workers -> Worker] /\ worker'[w] = Idle(n)
      /\ \A v \in Workers : v # w => worker'[v] = worker[v]
  BY <1>1, IdleFacts DEF TypeOK
<1>3. TypeOK'
  BY <1>1, <1>2 DEF TypeOK
<1>4. Batch(w)' = {} /\ worker'[w].current = None /\ worker'[w].pc = "poll"
  BY <1>2, IdleFacts DEF Batch
<1>5. \A v \in Workers : Shape(v)'
  BY <1>2, <1>4, OtherWorkers DEF Shape
<1>6. ASSUME NEW e \in Emails PROVE EmailInv(e)'
  <2>1. ~Has(w, e)' /\ ~(e \in Unsent(w))' /\ ~Delivered(w, e)'
    BY <1>4 DEF Has, Unsent, Delivered, At
  <2>2. Untouched(e)
    BY <1>1, <1>2, <2>1, OtherWorkers DEF Untouched
  <2> QED
    BY <1>1, <2>2, UntouchedKept DEF IInv
<1> QED
  BY <1>3, <1>5, <1>6 DEF IInv

\* Crash preserves the invariant.
LEMMA CrashStep ==
  ASSUME IInv, NEW w \in Workers, Crash(w)
  PROVE  IInv'
<1>1. worker[w].instance + 1 \in Nat
  BY WorkerFacts DEF IInv
<1>2. worker' = [worker EXCEPT ![w] = Idle(worker[w].instance + 1)]
  BY DEF Crash
<1> QED
  BY <1>1, <1>2, DropStep DEF Crash

-----------------------------------------------------------------------------
(* The outcome of a hand-over is recorded *)

\* Worker w is done with e, or a fault has kept it from being done.
Moves(w, e) ==
  /\ worker' \in [Workers -> Worker] /\ Shape(w)'
  /\ \A v \in Workers : v # w => worker'[v] = worker[v]
  /\ \A f \in Emails :
       /\ Has(w, f)' => /\ Has(w, f) /\ worker'[w].instance = worker[w].instance
                        /\ worker'[w].count[f] = worker[w].count[f]
       /\ (f \in Unsent(w))' => f \in Unsent(w)
       /\ ~Delivered(w, f)'
  /\ \/ faults' = faults + 1
     \/ /\ faults' = faults
        /\ \A f \in Emails : f # e /\ Has(w, f) =>
             Has(w, f)' /\ worker'[w].instance = worker[w].instance /\ ~Failed(w, f)'
  /\ faults' \in 0..MaxFaults
  /\ handed' = handed /\ accepted' = accepted

\* A worker done with one email leaves the invariant of the others.
LEMMA MovesElsewhere ==
  ASSUME IInv, NEW w \in Workers, NEW e, NEW f \in Emails, Moves(w, e), outbox'[f] = outbox[f],
         f # e \/ faults' = faults + 1 \/ ~Owns(w, f)
  PROVE  EmailInv(f)'
<1>1. Untouched(f)
  BY OtherWorkers DEF Untouched, Moves
<1> QED
  BY <1>1, UntouchedKept DEF IInv

\* A worker done with one email is in a legal state, and so are the others.
LEMMA MovesShape ==
  ASSUME IInv, NEW w \in Workers, NEW e, Moves(w, e)
  PROVE  \A v \in Workers : Shape(v)'
  BY OtherWorkers DEF Moves

\* A worker that moves on without a write preserves the invariant.
LEMMA NothingWritten ==
  ASSUME IInv, NEW w \in Workers, NEW e, Moves(w, e), outbox' = outbox,
         faults' = faults + 1 \/ ~Owns(w, e)
  PROVE  IInv'
<1>1. TypeOK'
  BY DEF IInv, TypeOK, Moves
<1>2. \A f \in Emails : EmailInv(f)'
  BY MovesElsewhere
<1> QED
  BY <1>1, <1>2, MovesShape DEF IInv

\* Recording an outcome under the lock preserves the invariant.
LEMMA OutcomeWritten ==
  ASSUME IInv, NEW w \in Workers, NEW e \in Emails, Moves(w, e),
         Has(w, e), Owns(w, e), worker[w].current = e,
         NEW row \in OutboxRow, outbox' = [outbox EXCEPT ![e] = row],
         row.attemptCount = outbox[e].attemptCount, row.lockedBy = None,
         \/ row.status = "sent" /\ accepted[e] >= 1
         \/ row.status = "retry_wait" /\ Failed(w, e) /\ outbox[e].attemptCount < MaxAttempts
         \/ row.status = "dead" /\ Failed(w, e) /\ outbox[e].attemptCount >= MaxAttempts
  PROVE  IInv'
<1>1. TypeOK /\ EmailInv(e) /\ outbox[e] # None /\ Accounts(e)
  BY DEF IInv, Owns, Is, EmailInv
<1>2. outbox'[e] = row /\ row # None /\ row.status # "processing"
      /\ \A f \in Emails : f # e => outbox'[f] = outbox[f]
  BY <1>1, OutboxAssumption DEF TypeOK
<1>3. TypeOK'
  BY <1>1 DEF TypeOK, Moves
<1>4. \A f \in Emails : f # e => EmailInv(f)'
  BY <1>2, MovesElsewhere
<1>5. Fence(e)'
  BY <1>2 DEF Fence, Owns, Is
<1>6. Proof(e)'
  <2>1. \A v \in Workers : Delivered(v, e)' => Delivered(v, e)
    BY OtherWorkers DEF Moves
  <2>2. accepted'[e] = accepted[e]
    BY DEF Moves
  <2>3. Is(e, "sent")' => accepted[e] >= 1
    BY <1>2 DEF Is
  <2> QED
    BY <1>1, <2>1, <2>2, <2>3 DEF EmailInv, Proof
<1>7. Accounts(e)'
  <2> DEFINE n == Cardinality(Claimants(e))
  <2> DEFINE m == Cardinality(Claimants(e)')
  <2>1. n \in Nat /\ m \in Nat /\ m <= n
    <3>1. Claimants(e)' \in SUBSET Claimants(e) /\ Claimants(e) \in SUBSET Workers
      BY OtherWorkers DEF Claimants, Moves
    <3> QED
      BY <3>1, CountSub
  <2>2. /\ faults \in Nat /\ MaxAttempts \in Nat /\ handed[e] \in Nat /\ accepted[e] \in Nat
        /\ outbox[e].attemptCount \in Nat /\ faults' \in Nat /\ faults' >= faults
    BY <1>1, Numbers, RowFacts DEF Moves
  <2>3. Credit(e) \in {0, 1} /\ Credit(e)' \in {0, 1}
    BY DEF Credit
  <2>4. Credit(e) <= Credit(e)'
    <3>1. CASE row.status = "sent"
      <4>1. Is(e, "sent")'
        BY <1>2, <3>1 DEF Is
      <4> QED
        BY <2>3, <4>1 DEF Credit
    <3>2. CASE Failed(w, e)
      <4>1. \A v \in Workers : Owns(v, e) => v = w
        BY <1>1, WorkerFacts DEF Owns
      <4>2. ~Promising(e) /\ ~Is(e, "sent")
        BY <3>2, <4>1 DEF Promising, Is, Owns
      <4> QED
        BY <2>3, <4>2 DEF Credit
    <3> QED
      BY <3>1, <3>2
  <2>5. handed[e] + n <= outbox[e].attemptCount /\ accepted[e] + n <= faults + Credit(e)
        /\ outbox[e].attemptCount <= MaxAttempts + faults
    BY <1>1 DEF Accounts
  <2>6. Cardinality(Claimants(e))' = m /\ handed'[e] = handed[e] /\ accepted'[e] = accepted[e]
    BY DEF Moves
  <2> HIDE DEF n, m
  <2>7. /\ handed[e] + m <= outbox[e].attemptCount
        /\ accepted[e] + m <= faults' + Credit(e)'
        /\ outbox[e].attemptCount <= MaxAttempts + faults'
    BY <2>1, <2>2, <2>3, <2>4, <2>5
  <2>8. Open(e)' => outbox[e].attemptCount < MaxAttempts + faults'
    <3>1. Open(e)' => row.status = "retry_wait"
      BY <1>2 DEF Open, Is
    <3> QED
      BY <2>2, <3>1
  <2>9. Is(e, "dead")' => outbox[e].attemptCount >= MaxAttempts
    BY <1>2 DEF Is
  <2> QED
    BY <1>2, <2>6, <2>7, <2>8, <2>9 DEF Accounts
<1> QED
  BY <1>2, <1>3, <1>4, <1>5, <1>6, <1>7, MovesShape DEF IInv, EmailInv

\* Going on to the next row gives up the current one only.
LEMMA ProceedMoves ==
  ASSUME IInv, NEW w \in Workers, At(w, "sent") \/ At(w, "failed"), Proceed(w),
         handed' = handed, accepted' = accepted, faults' = faults
  PROVE  Moves(w, worker[w].current)
<1> DEFINE e == worker[w].current
<1>1. TypeOK /\ Shape(w) /\ e \in Batch(w) /\ e \in Emails
  BY DEF IInv, Shape, At, Batch
<1>2. worker' = [worker EXCEPT ![w].count[e] = 0, ![w].current = None,
                               ![w].pc = IF Unsent(w) = {} THEN "poll" ELSE "send"]
  BY DEF Proceed
<1>3. /\ worker' \in [Workers -> Worker]
      /\ \A v \in Workers : v # w => worker'[v] = worker[v]
      /\ worker'[w].count = [worker[w].count EXCEPT ![e] = 0]
      /\ worker'[w].current = None
      /\ worker'[w].pc = (IF Unsent(w) = {} THEN "poll" ELSE "send")
      /\ worker'[w].instance = worker[w].instance
  BY <1>1, <1>2 DEF TypeOK, Worker
<1>4. worker[w].count \in [Emails -> Nat]
  BY <1>1, WorkerFacts
<1> HIDE DEF e
<1>5. Batch(w)' = Batch(w) \ {e}
  BY <1>3, <1>4 DEF Batch
<1>6. Batch(w)' = Unsent(w) /\ Unsent(w)' = Unsent(w)
  BY <1>3, <1>5, OutboxAssumption DEF Unsent, Batch, e
<1>7. Shape(w)'
  BY <1>3, <1>6 DEF Shape
<1>8. \A f \in Emails :
        /\ Has(w, f)' => Has(w, f) /\ f # e /\ worker'[w].count[f] = worker[w].count[f]
        /\ f # e /\ Has(w, f) => Has(w, f)'
        /\ ~Delivered(w, f)' /\ ~Failed(w, f)'
  BY <1>3, <1>4, <1>5 DEF Has, Delivered, Failed, At
<1>9. faults' \in 0..MaxFaults
  BY <1>1 DEF TypeOK
<1> QED
  BY <1>3, <1>6, <1>7, <1>8, <1>9 DEF Moves, e

\* A failed markSent keeps the batch.
LEMMA FailMoves ==
  ASSUME IInv, NEW w \in Workers, At(w, "sent"), worker' = [worker EXCEPT ![w].pc = "failed"],
         handed' = handed, accepted' = accepted, Fault
  PROVE  Moves(w, worker[w].current)
<1>1. TypeOK /\ Shape(w)
  BY DEF IInv
<1>2. /\ worker' \in [Workers -> Worker]
      /\ \A v \in Workers : v # w => worker'[v] = worker[v]
      /\ worker'[w].count = worker[w].count /\ worker'[w].current = worker[w].current
      /\ worker'[w].pc = "failed" /\ worker'[w].instance = worker[w].instance
  BY <1>1 DEF TypeOK, Worker
<1>3. Batch(w)' = Batch(w) /\ Unsent(w)' = Unsent(w)
  BY <1>2 DEF Batch, Unsent
<1>4. Shape(w)' /\ \A f \in Emails : ~Delivered(w, f)'
  BY <1>1, <1>2, <1>3 DEF Shape, Delivered, At
<1> QED
  BY <1>1, <1>2, <1>3, <1>4, FaultFacts DEF Moves, Has

\* A failed poll cycle gives up the batch.
LEMMA IdleMoves ==
  ASSUME IInv, NEW w \in Workers, worker' = [worker EXCEPT ![w] = Idle(@.instance)],
         handed' = handed, accepted' = accepted, Fault
  PROVE  Moves(w, worker[w].current)
<1>1. TypeOK /\ worker[w].instance \in Nat
  BY WorkerFacts DEF IInv
<1>2. /\ worker' \in [Workers -> Worker] /\ worker'[w] = Idle(worker[w].instance)
      /\ \A v \in Workers : v # w => worker'[v] = worker[v]
  BY <1>1, IdleFacts DEF TypeOK
<1>3. Batch(w)' = {} /\ Unsent(w)' = {} /\ worker'[w].pc = "poll" /\ worker'[w].current = None
  BY <1>1, <1>2, IdleFacts DEF Batch, Unsent
<1>4. Shape(w)' /\ \A f \in Emails : ~Delivered(w, f)' /\ ~Has(w, f)'
  BY <1>3 DEF Shape, Delivered, At, Has
<1> QED
  BY <1>1, <1>2, <1>3, <1>4, FaultFacts DEF Moves

\* markSent, markRetryWait and markDead, whether they return or throw.
LEMMA MarkStep ==
  ASSUME IInv, NEW w \in Workers,
         MarkSent(w) \/ MarkSentThrows(w) \/ MarkFailed(w) \/ MarkFailedThrows(w)
  PROVE  IInv'
<1>1. At(w, "sent") \/ At(w, "failed")
  BY DEF MarkSent, MarkSentThrows, MarkFailed, MarkFailedThrows
<1>0. PICK e \in Emails : worker[w].current = e
  BY <1>1 DEF IInv, Shape, At, Batch
<1>2. TypeOK /\ Shape(w) /\ Has(w, e) /\ EmailInv(e)
  BY <1>0, <1>1 DEF IInv, Shape, At, Batch, Has
<1>3. Moves(w, e)
  <2>1. Moves(w, worker[w].current)
    <3>1. CASE MarkSent(w) \/ MarkFailed(w)
      BY <1>1, <3>1, ProceedMoves DEF MarkSent, MarkFailed
    <3>2. CASE MarkSentThrows(w)
      BY <3>2, FailMoves DEF MarkSentThrows
    <3>3. CASE MarkFailedThrows(w)
      BY <3>3, IdleMoves DEF MarkFailedThrows
    <3> QED
      BY <3>1, <3>2, <3>3
  <2> QED
    BY <1>0, <2>1 DEF Moves
<1>4. ASSUME At(w, "sent"), Owns(w, e), outbox' = [outbox EXCEPT ![e] = SentRow(w)]
      PROVE  IInv'
  <2> DEFINE row == SentRow(w)
  <2>1. outbox[e] # None /\ outbox[e].attemptCount \in Nat
    BY <1>2, <1>4, RowFacts DEF Owns, Is
  <2>2. /\ row \in OutboxRow /\ row.status = "sent" /\ row.lockedBy = None
        /\ row.attemptCount = outbox[e].attemptCount
    BY <1>0, <2>1, FreeRow DEF SentRow
  <2>3. accepted[e] >= 1
    BY <1>0, <1>2, <1>4 DEF EmailInv, Proof, Delivered
  <2> HIDE DEF row
  <2> QED
    BY <1>0, <1>2, <1>3, <1>4, <2>2, <2>3, OutcomeWritten DEF row
<1>5. ASSUME At(w, "failed"), Owns(w, e), outbox' = [outbox EXCEPT ![e] = FailedRow(w)]
      PROVE  IInv'
  <2> DEFINE row == FailedRow(w)
  <2> DEFINE c == worker[w].count[e]
  <2>1. outbox[e].attemptCount \in Nat /\ c = outbox[e].attemptCount
    BY <1>2, <1>5, RowFacts DEF Owns, Is, EmailInv, Fence
  <2>2. row = IF c >= MaxAttempts THEN Row("dead", c, None) ELSE Row("retry_wait", c, None)
    BY <1>0 DEF FailedRow, Exhausted
  <2>3. Failed(w, e) /\ MaxAttempts \in Nat
    BY <1>0, <1>5, OutboxAssumption DEF Failed
  <2> HIDE DEF row, c
  <2>4. CASE c >= MaxAttempts
    <3>1. /\ row \in OutboxRow /\ row.status = "dead" /\ row.lockedBy = None
          /\ row.attemptCount = outbox[e].attemptCount
      BY <2>1, <2>2, <2>4, FreeRow
    <3> QED
      BY <1>0, <1>2, <1>3, <1>5, <2>1, <2>3, <2>4, <3>1, OutcomeWritten DEF row
  <2>5. CASE ~(c >= MaxAttempts)
    <3>1. /\ row \in OutboxRow /\ row.status = "retry_wait" /\ row.lockedBy = None
          /\ row.attemptCount = outbox[e].attemptCount
      BY <2>1, <2>2, <2>5, FreeRow
    <3>2. outbox[e].attemptCount < MaxAttempts
      BY <2>1, <2>3, <2>5
    <3> QED
      BY <1>0, <1>2, <1>3, <1>5, <2>3, <3>1, <3>2, OutcomeWritten DEF row
  <2> QED
    BY <2>4, <2>5
<1>6. ASSUME outbox' = outbox, faults' = faults + 1 \/ ~Owns(w, e)
      PROVE  IInv'
  BY <1>3, <1>6, NothingWritten
<1>7. MarkSentThrows(w) \/ MarkFailedThrows(w) => faults' = faults + 1
  BY <1>2, FaultFacts DEF MarkSentThrows, MarkFailedThrows
<1>8. CASE MarkSent(w) \/ MarkSentThrows(w)
  <2>1. At(w, "sent")
    BY <1>8 DEF MarkSent, MarkSentThrows
  <2>2. \/ Owns(w, e) /\ outbox' = [outbox EXCEPT ![e] = SentRow(w)]
        \/ outbox' = outbox /\ (faults' = faults + 1 \/ ~Owns(w, e))
    BY <1>0, <1>7, <1>8 DEF MarkSent, MarkSentThrows, Fenced
  <2> QED
    BY <1>4, <1>6, <2>1, <2>2
<1>9. CASE MarkFailed(w) \/ MarkFailedThrows(w)
  <2>1. At(w, "failed")
    BY <1>9 DEF MarkFailed, MarkFailedThrows
  <2>2. \/ Owns(w, e) /\ outbox' = [outbox EXCEPT ![e] = FailedRow(w)]
        \/ outbox' = outbox /\ (faults' = faults + 1 \/ ~Owns(w, e))
    BY <1>0, <1>7, <1>9 DEF MarkFailed, MarkFailedThrows, Fenced
  <2> QED
    BY <1>5, <1>6, <2>1, <2>2
<1> QED
  BY <1>8, <1>9

\* Every step preserves the invariant.
LEMMA StepInv == IInv /\ [Next]_vars => IInv'
<1> SUFFICES ASSUME IInv, [Next]_vars PROVE IInv'
  OBVIOUS
<1>1. CASE UNCHANGED vars
  <2>1. TypeOK' /\ worker' = worker
    BY <1>1 DEF IInv, TypeOK, vars
  <2>2. \A e \in Emails : Untouched(e)
    BY <1>1, <2>1, WorkersSame DEF Untouched, vars
  <2>3. \A e \in Emails : EmailInv(e)'
    BY <2>2, UntouchedKept DEF IInv
  <2> QED
    BY <2>1, <2>3, WorkersSame DEF IInv
<1>2. ASSUME NEW w \in Workers, Step(w) PROVE IInv'
  BY <1>2, RecoverStep, ClaimStep, SendStep, MarkStep DEF Step
<1>3. ASSUME NEW w \in Workers, NEW e \in Emails, SendUnclear(w, e) PROVE IInv'
  BY <1>3, SendStep
<1>4. ASSUME NEW w \in Workers, MarkSentThrows(w) \/ MarkFailedThrows(w) \/ Crash(w)
      PROVE  IInv'
  BY <1>4, MarkStep, CrashStep
<1>5. ASSUME NEW e \in Emails,
             Enqueue(e) \/ LockExpires(e) \/ LockExpiresEarly(e) \/ RetryDue(e)
      PROVE  IInv'
  BY <1>5, EnqueueStep, ClockStep
<1> QED
  BY <1>1, <1>2, <1>3, <1>4, <1>5 DEF Next

-----------------------------------------------------------------------------
(* Theorems *)

\* The accounts of the outbox hold in every reachable state.
THEOREM Inductive == Spec => []IInv
  BY InitInv, StepInv, PTL DEF Spec

\* A row is locked exactly while it is being processed, and no fault leaves a
\* worker or a row in a shape the code does not expect.
THEOREM TypeCorrect == Spec => []TypeOK
<1>1. IInv => TypeOK
  BY DEF IInv
<1> QED
  BY <1>1, Inductive, PTL

\* With any number of workers, a message is tried as often as configured, and
\* once more for each fault at the most.
THEOREM RetriesBounded == Spec => []RetriesAsConfigured
<1>1. IInv => RetriesAsConfigured
  <2> SUFFICES ASSUME IInv, NEW e \in Emails
               PROVE  IF outbox[e] = None
                        THEN handed[e] = 0
                        ELSE /\ handed[e] <= outbox[e].attemptCount
                             /\ outbox[e].attemptCount <= MaxAttempts + faults
                             /\ Is(e, "dead") => outbox[e].attemptCount >= MaxAttempts
    BY DEF RetriesAsConfigured
  <2>1. TypeOK /\ EmailInv(e)
    BY DEF IInv
  <2>2. CASE outbox[e] = None
    BY <2>1, <2>2 DEF EmailInv, Fresh
  <2>3. CASE outbox[e] # None
    <3>1. Accounts(e) /\ outbox[e].attemptCount \in Nat
      BY <2>1, <2>3, RowFacts DEF EmailInv
    <3>2. Cardinality(Claimants(e)) \in Nat /\ handed[e] \in Nat
      BY <2>1, Numbers
    <3> QED
      BY <2>3, <3>1, <3>2 DEF Accounts
  <2> QED
    BY <2>2, <2>3
<1> QED
  BY <1>1, Inductive, PTL

\* A row is marked sent only if the provider has the message, and every further
\* copy it has is the work of a fault.
THEOREM AtLeastOnce == Spec => []DeliveredAtLeastOnce
<1>1. IInv => DeliveredAtLeastOnce
  <2> SUFFICES ASSUME IInv, NEW e \in Emails
               PROVE  (Is(e, "sent") => accepted[e] >= 1) /\ accepted[e] <= 1 + faults
    BY DEF DeliveredAtLeastOnce
  <2>1. TypeOK /\ EmailInv(e)
    BY DEF IInv
  <2>2. /\ Cardinality(Claimants(e)) \in Nat /\ accepted[e] \in Nat /\ faults \in Nat
        /\ Credit(e) \in {0, 1}
    BY <2>1, Numbers DEF Credit
  <2>3. CASE outbox[e] = None
    BY <2>1, <2>2, <2>3 DEF EmailInv, Fresh, Is
  <2>4. CASE outbox[e] # None
    BY <2>1, <2>2, <2>4 DEF EmailInv, Accounts, Proof
  <2> QED
    BY <2>3, <2>4
<1> QED
  BY <1>1, Inductive, PTL

\* What OutcomeIsFinal asks of one row.
Onward(e) ==
  outbox[e] # None =>
    /\ outbox'[e].attemptCount >= outbox[e].attemptCount
    /\ Is(e, "sent") \/ Is(e, "dead") => outbox'[e] = outbox[e]

\* A row that is not written has not gone back.
LEMMA SameRowOnward ==
  ASSUME TypeOK, NEW e \in Emails, outbox'[e] = outbox[e]
  PROVE  Onward(e)
<1>1. outbox[e] # None => outbox[e].attemptCount \in Nat
  BY RowFacts
<1> QED
  BY <1>1 DEF Onward

\* Only a row that is neither sent nor dead is written, and no count is lowered.
LEMMA OpenRowOnward ==
  ASSUME TypeOK, NEW e \in Emails, outbox[e] # None, ~Is(e, "sent"), ~Is(e, "dead"),
         outbox'[e].attemptCount \in {outbox[e].attemptCount, outbox[e].attemptCount + 1}
  PROVE  Onward(e)
<1>1. outbox[e].attemptCount \in Nat
  BY RowFacts
<1> QED
  BY <1>1 DEF Onward

\* No mark of a worker takes a row back, a stale one included.
LEMMA MarkOnward ==
  ASSUME IInv, NEW w \in Workers, NEW f \in Emails,
         MarkSent(w) \/ MarkSentThrows(w) \/ MarkFailed(w) \/ MarkFailedThrows(w)
  PROVE  Onward(f)
<1>1. At(w, "sent") \/ At(w, "failed")
  BY DEF MarkSent, MarkSentThrows, MarkFailed, MarkFailedThrows
<1>2. PICK e \in Emails : worker[w].current = e
  BY <1>1 DEF IInv, Shape, At, Batch
<1>3. TypeOK /\ Has(w, e) /\ EmailInv(e)
  BY <1>1, <1>2 DEF IInv, Shape, At, Has
<1>4. \/ outbox' = outbox
      \/ Owns(w, e) /\ outbox' = [outbox EXCEPT ![e] = SentRow(w)]
      \/ Owns(w, e) /\ outbox' = [outbox EXCEPT ![e] = FailedRow(w)]
  BY <1>2 DEF MarkSent, MarkSentThrows, MarkFailed, MarkFailedThrows, Fenced
<1>5. CASE outbox'[f] = outbox[f]
  BY <1>3, <1>5, SameRowOnward
<1>6. CASE outbox'[f] # outbox[f]
  <2>1. f = e /\ Owns(w, e)
    BY <1>3, <1>4, <1>6 DEF TypeOK
  <2>2. outbox[e] # None /\ ~Is(e, "sent") /\ ~Is(e, "dead")
    BY <2>1 DEF Owns, Is
  <2>3. worker[w].count[e] = outbox[e].attemptCount
    BY <1>3, <2>1 DEF EmailInv, Fence
  <2>4. outbox'[e] = SentRow(w) \/ outbox'[e] = FailedRow(w)
    BY <1>3, <1>4, <1>6, <2>1 DEF TypeOK
  <2>5. outbox'[e].attemptCount = outbox[e].attemptCount
    BY <1>2, <2>3, <2>4 DEF SentRow, FailedRow, Row
  <2> QED
    BY <1>3, <2>1, <2>2, <2>5, OpenRowOnward
<1> QED
  BY <1>5, <1>6

\* No step takes a row back.
LEMMA StepOnward ==
  ASSUME IInv, [Next]_vars, NEW e \in Emails
  PROVE  Onward(e)
<1>0. TypeOK
  BY DEF IInv
<1>1. CASE UNCHANGED vars
  BY <1>0, <1>1, SameRowOnward DEF vars
<1>2. ASSUME NEW w \in Workers, Recover(w) PROVE Onward(e)
  <2>1. outbox'[e] = IF Abandoned(e) THEN GiveBack(outbox[e]) ELSE outbox[e]
    BY <1>2 DEF Recover
  <2>2. CASE Abandoned(e)
    <3>1. outbox[e] # None /\ ~Is(e, "sent") /\ ~Is(e, "dead")
      BY <2>2 DEF Abandoned, Is
    <3>2. outbox'[e].attemptCount = outbox[e].attemptCount
      BY <2>1, <2>2 DEF GiveBack, Row
    <3> QED
      BY <1>0, <3>1, <3>2, OpenRowOnward
  <2>3. CASE ~Abandoned(e)
    BY <1>0, <2>1, <2>3, SameRowOnward
  <2> QED
    BY <2>2, <2>3
<1>3. ASSUME NEW w \in Workers, Claim(w) PROVE Onward(e)
  <2> DEFINE S == Oldest({f \in Emails : Claimable(f)})
  <2>1. outbox'[e] = IF e \in S
                       THEN Row("processing", outbox[e].attemptCount + 1, Instance(w))
                       ELSE outbox[e]
    BY <1>3 DEF Claim
  <2>2. CASE e \in S
    <3>1. Claimable(e)
      BY <2>2 DEF Oldest
    <3>2. outbox[e] # None /\ ~Is(e, "sent") /\ ~Is(e, "dead")
      BY <3>1 DEF Claimable, Is
    <3>3. outbox'[e].attemptCount = outbox[e].attemptCount + 1
      BY <2>1, <2>2 DEF Row
    <3> QED
      BY <1>0, <3>2, <3>3, OpenRowOnward
  <2>3. CASE e \notin S
    BY <1>0, <2>1, <2>3, SameRowOnward
  <2> QED
    BY <2>2, <2>3
<1>4. ASSUME NEW w \in Workers, NEW f \in Emails, Send(w, f) \/ SendUnclear(w, f)
      PROVE  Onward(e)
  BY <1>0, <1>4, SameRowOnward DEF Send, SendUnclear
<1>5. ASSUME NEW w \in Workers, Crash(w) PROVE Onward(e)
  BY <1>0, <1>5, SameRowOnward DEF Crash
<1>6. ASSUME NEW f \in Emails, Enqueue(f) PROVE Onward(e)
  <2>1. CASE f = e
    BY <1>6, <2>1 DEF Enqueue, Onward
  <2>2. CASE f # e
    BY <1>0, <1>6, <2>2, SameRowOnward DEF Enqueue, TypeOK
  <2> QED
    BY <2>1, <2>2
<1>7. ASSUME NEW f \in Emails, LockExpires(f) \/ LockExpiresEarly(f) \/ RetryDue(f)
      PROVE  Onward(e)
  <2>1. CASE f = e
    <3>1. outbox[e] # None /\ ~Is(e, "sent") /\ ~Is(e, "dead")
      BY <1>7, <2>1 DEF LockExpires, LockExpiresEarly, RetryDue, Is
    <3>2. outbox[e] \in OutboxRow
      BY <1>0, <3>1, RowFacts
    <3>3. outbox'[e] = [outbox[e] EXCEPT !.expired = TRUE]
          \/ outbox'[e] = [outbox[e] EXCEPT !.due = TRUE]
      BY <1>0, <1>7, <2>1 DEF LockExpires, LockExpiresEarly, RetryDue, TypeOK
    <3>4. outbox'[e].attemptCount = outbox[e].attemptCount
      BY <3>2, <3>3 DEF OutboxRow
    <3> QED
      BY <1>0, <3>1, <3>4, OpenRowOnward
  <2>2. CASE f # e
    BY <1>0, <1>7, <2>2, SameRowOnward
    DEF LockExpires, LockExpiresEarly, RetryDue, TypeOK
  <2> QED
    BY <2>1, <2>2
<1> QED
  BY <1>1, <1>2, <1>3, <1>4, <1>5, <1>6, <1>7, MarkOnward DEF Next, Step

\* No worker, however late, changes a row that is sent or dead, or takes back an
\* attempt that was counted.
THEOREM OutcomeFinal == Spec => OutcomeIsFinal
<1>1. IInv /\ [Next]_vars =>
        [\A e \in Emails : outbox[e] # None =>
           /\ outbox'[e].attemptCount >= outbox[e].attemptCount
           /\ Is(e, "sent") \/ Is(e, "dead") => outbox'[e] = outbox[e]]_vars
  BY StepOnward DEF Onward
<1> QED
  BY <1>1, Inductive, PTL DEF Spec, OutcomeIsFinal
=============================================================================
