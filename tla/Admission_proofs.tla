--------------------------- MODULE Admission_proofs ---------------------------
(***************************************************************************)
(* Proofs about the admission queue, for any candidates, tabs, ids and     *)
(* bounds.                                                                 *)
(***************************************************************************)
EXTENDS Admission, FiniteSetTheorems, WellFoundedInduction, TLAPS

-----------------------------------------------------------------------------
(* Arithmetic of the batch schedule *)

\* Integer division is monotone.
LEMMA DivMonotone ==
  ASSUME NEW a \in Nat, NEW b \in Nat, NEW d \in Nat \ {0}, a <= b
  PROVE  a \div d <= b \div d
<1> DEFINE p == a \div d
<1> DEFINE q == b \div d
<1>1. p \in Nat /\ q \in Nat
  BY SMT
<1>2. d * p <= a /\ b < d * q + d
  BY SMT
<1>3. SUFFICES ASSUME q < p PROVE FALSE
  BY <1>1
<1>4. q + 1 <= p
  BY <1>1, <1>3
<1> HIDE DEF p, q
<1>5. d * (q + 1) <= d * p
  BY <1>1, <1>4, SMT
<1>6. d * (q + 1) = d * q + d
  BY <1>1, SMT
<1> QED
  BY <1>1, <1>2, <1>5, <1>6, SMT

\* computeBatchNumber: a later ordinal is in no earlier batch.
LEMMA BatchNumberMonotone ==
  ASSUME NEW a \in Nat, NEW b \in Nat, a <= b
  PROVE  BatchNumber(a + 1) <= BatchNumber(b + 1)
<1>1. a + 1 + BatchSize - 1 \in Nat /\ b + 1 + BatchSize - 1 \in Nat
  BY AdmissionAssumption
<1>2. a + 1 + BatchSize - 1 <= b + 1 + BatchSize - 1
  BY AdmissionAssumption
<1>3. (a + 1 + BatchSize - 1) \div BatchSize <= (b + 1 + BatchSize - 1) \div BatchSize
  BY <1>1, <1>2, DivMonotone, AdmissionAssumption
<1> QED
  BY <1>3 DEF BatchNumber

\* computeBatchRelease counts batches, before the first release as well.
LEMMA ReleasedType ==
  ASSUME NEW a \in Nat, NEW b \in Nat
  PROVE  ReleasedBatches(a, b) \in Nat
<1> DEFINE e == IF b > a THEN b - a ELSE 0
<1>1. e \in Nat
  OBVIOUS
<1> HIDE DEF e
<1>2. e \div BatchInterval \in Nat
  BY <1>1, AdmissionAssumption, SMT
<1> QED
  BY <1>2 DEF ReleasedBatches, e

\* computeBatchRelease: later, no fewer batches are released.
LEMMA ReleasedMonotone ==
  ASSUME NEW a \in Nat, NEW b \in Nat, NEW c \in Nat, b <= c
  PROVE  ReleasedBatches(a, b) <= ReleasedBatches(a, c)
<1> DEFINE d == IF b > a THEN b - a ELSE 0
           e == IF c > a THEN c - a ELSE 0
<1>1. d \in Nat /\ e \in Nat /\ d <= e
  OBVIOUS
<1> HIDE DEF d, e
<1>2. d \div BatchInterval <= e \div BatchInterval
  BY <1>1, AdmissionAssumption, DivMonotone
<1>3. d \div BatchInterval \in Nat /\ e \div BatchInterval \in Nat
  BY <1>1, AdmissionAssumption, SMT
<1> QED
  BY <1>2, <1>3 DEF ReleasedBatches, d, e

\* computeBatchNumber rounds up: the batches up to a candidate's have room for
\* all before that candidate.
LEMMA BatchHolds ==
  ASSUME NEW n \in Nat, NEW k \in Nat, BatchNumber(n + 1) <= k
  PROVE  n + 1 <= BatchSize * k
<1> DEFINE d == BatchSize
           x == n + 1 + d - 1
           q == x \div d
<1>1. d \in Nat \ {0} /\ x \in Nat
  BY AdmissionAssumption
<1>2. q \in Nat /\ x < d * q + d
  BY <1>1, SMT
<1>3. q <= k
  BY DEF BatchNumber
<1>4. n + 1 <= d * q
  <2>1. d * q \in Nat /\ x = n + d
    BY <1>1, <1>2, SMT
  <2> HIDE DEF q
  <2> QED
    BY <1>1, <1>2, <2>1
<1> HIDE DEF q, x
<1>5. d * q <= d * k
  BY <1>1, <1>2, <1>3, SMT
<1> QED
  BY <1>1, <1>2, <1>4, <1>5, SMT

-----------------------------------------------------------------------------
(* The last member of a finite set *)

\* A finite set whose members are numbered has one with the greatest number.
LEMMA LastOfFinite ==
  ASSUME NEW S, IsFiniteSet(S), S # {}, NEW f, \A x \in S : f[x] \in Nat
  PROVE  \E x \in S : \A y \in S : f[y] <= f[x]
<1> DEFINE above(x) == {y \in S : f[x] < f[y]}
           T == {above(x) : x \in S}
<1>1. IsWellFoundedOn(StrictSubsetOrdering(S), SUBSET S)
  BY FS_StrictSubsetOrderingWellFounded, FS_FiniteSubsetsOfFinite
<1>2. T \subseteq SUBSET S /\ T # {}
  OBVIOUS
<1>3. PICK U \in T : \A V \in T : ~(<<V, U>> \in StrictSubsetOrdering(S))
  <2> HIDE DEF T
  <2> QED
    BY <1>1, <1>2, WFMin
<1>4. PICK x \in S : U = above(x)
  BY <1>3
<1>5. ASSUME NEW y \in S, f[x] < f[y] PROVE FALSE
  <2>1. above(y) \in T /\ above(y) \in SUBSET S /\ U \in SUBSET S
    BY <1>4
  <2>2. above(y) \subseteq above(x)
    BY <1>5
  <2>3. y \in above(x) /\ y \notin above(y)
    BY <1>5
  <2>4. above(y) \subseteq U /\ above(y) # U
    BY <1>4, <2>2, <2>3
  <2> DEFINE V == above(y)
  <2> HIDE DEF V
  <2>5. V \in T /\ V \in SUBSET S /\ V \subseteq U /\ V # U
    BY <2>1, <2>4 DEF V
  <2>6. <<V, U>> \in StrictSubsetOrdering(S)
    BY <2>1, <2>5 DEF StrictSubsetOrdering
  <2> QED
    BY <1>3, <2>5, <2>6
<1>6. \A y \in S : f[y] <= f[x]
  BY <1>5
<1> QED
  BY <1>6

-----------------------------------------------------------------------------
(* The inductive invariant *)

InTransaction == {"find", "anchor", "ordinal", "admit", "commit"}

\* What a call in flight may rely on: a start holds its candidate's enrollment
\* lock until it ends, and so the membership it read stays active.
TabInv(t) ==
  /\ call[t].pc \in {"check", "join", "reread"} => ~call[t].start
  /\ call[t].pc \in {"anchor", "ordinal", "admit"} =>
       /\ call[t].row \in Members
       /\ rows[call[t].row].candidate = Cand(t)
       /\ call[t].start => rows[call[t].row].consumedAt = None
  /\ call[t].start /\ call[t].pc \in InTransaction => lock[Cand(t)] = t
  /\ call[t].pc = "commit" =>
       /\ call[t].start
       /\ call[t].admits =>
            /\ call[t].row \in ActiveOf(Cand(t))
            /\ rows[call[t].row].admittedAt = None
       /\ ~call[t].admits =>
            \E i \in ActiveOf(Cand(t)) : rows[i].admittedAt # None

CallInv == \A t \in Tabs : TabInv(t)

\* One active membership per candidate; the consumed ones number the attempts.
LedgerInv ==
  /\ \A i, j \in Members :
       /\ rows[i].candidate = rows[j].candidate
       /\ rows[i].consumedAt = None /\ rows[j].consumedAt = None
       => i = j
  /\ \A i \in Members : rows[i].consumedAt = None <=> rows[i].attempt = None
  /\ AttemptsAdmitted

\* A batch number that some row's anchor has released by a time.
Due(j, at) ==
  \E i \in Members :
    BatchNumber(Cardinality(AheadAtJoin(j)) + 1) <= ReleasedBatches(rows[i].joinedAt, at)

\* The decisions in flight respect the schedule, as the admissions made do.
TabOnSchedule(t) ==
  /\ call[t].pc = "ordinal" =>
       \E i \in Members : call[t].released = ReleasedBatches(rows[i].joinedAt, call[t].at)
  /\ call[t].pc = "admit" \/ call[t].admits => Due(call[t].row, call[t].at)
  /\ call[t].admits => call[t].pc = "commit"

ScheduleInv ==
  /\ \A j \in Members : rows[j].joinOrder < Cardinality(Members)
  /\ \A t \in Tabs : TabOnSchedule(t)
  /\ \A j \in Members : rows[j].admittedAt # None => Due(j, rows[j].admittedAt)

\* Rows are numbered apart, and nothing is dated in the future.
OrderInv ==
  /\ \A i, j \in Members : rows[i].joinOrder = rows[j].joinOrder => i = j
  /\ \A t \in Tabs : call[t].at <= now
  /\ \A j \in Members : rows[j].admittedAt # None => rows[j].admittedAt <= now

IInv == TypeOK /\ CallInv /\ LedgerInv /\ ScheduleInv /\ OrderInv

-----------------------------------------------------------------------------
(* Type correctness *)

\* The table has finitely many rows, so the ordinals are numbers.
LEMMA MembersFinite ==
  IsFiniteSet(Members) /\ Cardinality(Members) \in Nat
BY AdmissionAssumption, FS_Subset, FS_CardinalityType DEF Members

\* A tab belongs to a candidate.
LEMMA TabFacts ==
  ASSUME NEW t \in Tabs
  PROVE  Cand(t) \in Candidates
BY AdmissionAssumption DEF Cand

\* A tab without a request is well typed.
LEMMA NoCallType ==
  NoCall \in Call
BY DEF NoCall, Call, Steps

\* A row of the table has its columns.
LEMMA MemberType ==
  ASSUME TypeOK, NEW i \in Members
  PROVE  i \in Ids /\ rows[i] \in Membership
BY DEF TypeOK, Members

\* The active membership is a row of the table.
LEMMA ActiveOfFacts ==
  ASSUME NEW c, NEW i \in ActiveOf(c)
  PROVE  i \in Members /\ i \in Ids
BY DEF ActiveOf, Members

\* A request goes on well typed.
LEMMA GotoType ==
  ASSUME TypeOK, NEW t \in Tabs, NEW s \in Steps, Goto(t, s)
  PROVE  call' \in [Tabs -> Call]
BY DEF TypeOK, Goto, Call

\* A request ends well typed.
LEMMA FinishType ==
  ASSUME TypeOK, NEW t \in Tabs, Finish(t)
  PROVE  call' \in [Tabs -> Call]
BY NoCallType DEF TypeOK, Finish

\* Ending a transaction leaves the locks well typed.
LEMMA UnlockType ==
  ASSUME TypeOK, NEW t \in Tabs, Unlock(t)
  PROVE  lock' \in [Candidates -> Tabs \cup {None}]
BY TabFacts DEF TypeOK, Unlock

\* A start that is not admitted leaves requests and locks well typed.
LEMMA NotAdmittedType ==
  ASSUME TypeOK, NEW t \in Tabs, NotAdmitted(t)
  PROVE  /\ call' \in [Tabs -> Call]
         /\ lock' \in [Candidates -> Tabs \cup {None}]
BY FinishType, UnlockType DEF NotAdmitted, Refuse, TypeOK

\* Types hold initially.
LEMMA TypeInit ==
  Init => TypeOK
BY NoCallType DEF Init, TypeOK

\* Every step preserves the types.
LEMMA TypeStep ==
  TypeOK /\ CallInv /\ [Next]_vars => TypeOK'
<1> SUFFICES ASSUME TypeOK, CallInv, [Next]_vars PROVE TypeOK'
  OBVIOUS
<1>1. ASSUME NEW t \in Tabs, Poll(t) PROVE TypeOK'
  BY <1>1, NoCallType DEF Poll, TypeOK, Call, Steps, NoCall
<1>2. ASSUME NEW t \in Tabs, StartRequest(t) PROVE TypeOK'
  BY <1>2, NoCallType DEF StartRequest, TypeOK, Call, Steps, NoCall
<1>3. ASSUME NEW t \in Tabs, CheckAttempt(t) PROVE TypeOK'
  <2>1. "join" \in Steps
    BY DEF Steps
  <2>2. call' \in [Tabs -> Call]
    BY <1>3, <2>1, GotoType, FinishType DEF CheckAttempt
  <2> QED
    BY <1>3, <2>2 DEF CheckAttempt, TypeOK
<1>4. ASSUME NEW t \in Tabs, JoinActive(t) PROVE TypeOK'
  <2>1. "find" \in Steps /\ "reread" \in Steps
    BY DEF Steps
  <2>2. call' \in [Tabs -> Call]
    BY <1>4, <2>1, GotoType DEF JoinActive
  <2>3. call[t].at \in Nat
    BY DEF TypeOK, Call
  <2>4. rows' \in [Ids -> Membership \cup {None}]
    BY <1>4, <2>3, TabFacts, MembersFinite DEF JoinActive, TypeOK, Membership
  <2> QED
    BY <1>4, <2>2, <2>4 DEF JoinActive, TypeOK
<1>5. ASSUME NEW t \in Tabs, JoinReread(t) PROVE TypeOK'
  <2>1. "find" \in Steps /\ "join" \in Steps
    BY DEF Steps
  <2>2. CASE Goto(t, "find")
    BY <1>5, <2>1, <2>2, GotoType DEF JoinReread, TypeOK
  <2>3. CASE Finish(t)
    BY <1>5, <2>3, FinishType DEF JoinReread, TypeOK
  <2>4. CASE /\ call[t].tries < 2
             /\ call' = [call EXCEPT ![t].pc = "join", ![t].tries = @ + 1]
    <3>1. call[t] \in Call
      BY DEF TypeOK
    <3>2. call[t].tries + 1 \in 0..2
      BY <2>4, <3>1 DEF Call
    <3>3. call' \in [Tabs -> Call]
      BY <2>1, <2>4, <3>1, <3>2 DEF TypeOK, Call
    <3> QED
      BY <1>5, <3>3 DEF JoinReread, TypeOK
  <2> QED
    BY <1>5, <2>2, <2>3, <2>4 DEF JoinReread
<1>6. ASSUME NEW t \in Tabs, StartLock(t) PROVE TypeOK'
  <2>1. "find" \in Steps
    BY DEF Steps
  <2>2. call' \in [Tabs -> Call]
    BY <1>6, <2>1, GotoType, FinishType DEF StartLock
  <2>3. lock' \in [Candidates -> Tabs \cup {None}]
    BY <1>6, TabFacts DEF StartLock, TypeOK
  <2> QED
    BY <1>6, <2>2, <2>3 DEF StartLock, TypeOK
<1>7. ASSUME NEW t \in Tabs, FindActive(t) PROVE TypeOK'
  <2>1. "commit" \in Steps /\ "anchor" \in Steps
    BY DEF Steps
  <2>2. CASE NotAdmitted(t)
    BY <1>7, <2>2, NotAdmittedType DEF FindActive, TypeOK
  <2>3. CASE (IF call[t].start THEN Goto(t, "commit") ELSE Finish(t)) /\ UNCHANGED lock
    BY <1>7, <2>1, <2>3, GotoType, FinishType DEF FindActive, TypeOK
  <2>4. ASSUME NEW i \in ActiveOf(Cand(t)), UNCHANGED lock,
               call' = [call EXCEPT ![t].pc = "anchor", ![t].row = i]
        PROVE  TypeOK'
    <3>1. i \in Ids
      BY ActiveOfFacts
    <3>2. call' \in [Tabs -> Call]
      BY <2>1, <2>4, <3>1, ZenonT(30) DEF TypeOK, Call
    <3> QED
      BY <1>7, <2>4, <3>2 DEF FindActive, TypeOK
  <2> QED
    BY <1>7, <2>2, <2>3, <2>4 DEF FindActive
<1>8. ASSUME NEW t \in Tabs, ReadAnchor(t) PROVE TypeOK'
  <2>1. PICK i \in Members :
          call' = [call EXCEPT
            ![t].pc = "ordinal",
            ![t].released = ReleasedBatches(rows[i].joinedAt, call[t].at)]
    BY <1>8 DEF ReadAnchor
  <2>2. rows[i].joinedAt \in Nat /\ call[t].at \in Nat
    BY MemberType DEF Membership, TypeOK, Call
  <2>3. ReleasedBatches(rows[i].joinedAt, call[t].at) \in Nat
    BY <2>2, ReleasedType
  <2>4. PICK r \in Nat :
          call' = [call EXCEPT ![t].pc = "ordinal", ![t].released = r]
    BY <2>1, <2>3
  <2>5. "ordinal" \in Steps
    BY DEF Steps
  <2>6. call' \in [Tabs -> Call]
    BY <2>4, <2>5, ZenonT(30) DEF TypeOK, Call
  <2> QED
    BY <1>8, <2>6 DEF ReadAnchor, TypeOK
<1>9. ASSUME NEW t \in Tabs, ReadOrdinal(t) PROVE TypeOK'
  <2>1. "admit" \in Steps
    BY DEF Steps
  <2>2. CASE NotAdmitted(t)
    BY <1>9, <2>2, NotAdmittedType DEF ReadOrdinal, TypeOK
  <2>3. CASE Goto(t, "admit") /\ UNCHANGED lock
    BY <1>9, <2>1, <2>3, GotoType DEF ReadOrdinal, TypeOK
  <2> QED
    BY <1>9, <2>2, <2>3 DEF ReadOrdinal
<1>10. ASSUME NEW t \in Tabs, AdmitOnce(t) PROVE TypeOK'
  <2>1. call[t] \in Call
    BY DEF TypeOK
  <2>2. "commit" \in Steps
    BY DEF Steps
  <2>3. CASE ~call[t].start
    <3>1. call' \in [Tabs -> Call]
      BY <1>10, <2>3, FinishType DEF AdmitOnce
    <3>2. call[t].row \in Members
      BY <1>10 DEF CallInv, TabInv, AdmitOnce, At
    <3>3. rows[call[t].row] \in Membership
      BY <3>2, MemberType
    <3>4. [rows[call[t].row] EXCEPT !.admittedAt = IF @ = None THEN call[t].at ELSE @]
            \in Membership
      BY <2>1, <3>3 DEF Membership, Call
    <3>5. rows' \in [Ids -> Membership \cup {None}]
      BY <1>10, <2>3, <3>4 DEF AdmitOnce, TypeOK
    <3> QED
      BY <1>10, <2>3, <3>1, <3>5 DEF AdmitOnce, TypeOK
  <2>4. CASE call[t].start /\ rows[call[t].row].admittedAt = None
    <3>1. call' \in [Tabs -> Call]
      BY <1>10, <2>2, <2>4 DEF AdmitOnce, TypeOK, Call
    <3> QED
      BY <1>10, <2>4, <3>1 DEF AdmitOnce, TypeOK
  <2>5. CASE call[t].start /\ rows[call[t].row].admittedAt # None
    BY <1>10, <2>5, FinishType, UnlockType DEF AdmitOnce, Refuse, TypeOK
  <2> QED
    BY <2>3, <2>4, <2>5
<1>11. ASSUME NEW t \in Tabs, StartCommit(t) PROVE TypeOK'
  <2>1. call[t] \in Call /\ attemptCount[Cand(t)] + 1 \in Nat
    BY TabFacts DEF TypeOK
  <2>2. ASSUME NEW i \in ActiveOf(Cand(t)) PROVE Consumed(rows[i], t) \in Membership
    BY <2>1, ActiveOfFacts, MemberType DEF Consumed, Membership, Call
  <2>3. rows' \in [Ids -> Membership \cup {None}]
    BY <1>11, <2>2 DEF StartCommit, TypeOK
  <2>4. active' \in [Candidates -> BOOLEAN] /\ attemptCount' \in [Candidates -> Nat]
    BY <1>11, <2>1, TabFacts DEF StartCommit, TypeOK
  <2> QED
    BY <1>11, <2>3, <2>4, FinishType, UnlockType DEF StartCommit, TypeOK
<1>12. ASSUME NEW t \in Tabs, CutOff(t) PROVE TypeOK'
  <2>1. lock' \in [Candidates -> Tabs \cup {None}]
    BY <1>12, TabFacts DEF CutOff, TypeOK
  <2> QED
    BY <1>12, <2>1, FinishType DEF CutOff, TypeOK
<1>13. ASSUME NEW c \in Candidates, EndAttempt(c) PROVE TypeOK'
  BY <1>13 DEF EndAttempt, TypeOK
<1>14. CASE Tick
  BY <1>14 DEF Tick, TypeOK
<1>15. CASE UNCHANGED vars
  BY <1>15 DEF vars, TypeOK
<1> QED
  BY <1>1, <1>2, <1>3, <1>4, <1>5, <1>6, <1>7, <1>8, <1>9, <1>10, <1>11, <1>12,
     <1>13, <1>14, <1>15 DEF Next, Step

-----------------------------------------------------------------------------
(* How a step changes the memberships *)

\* What every step does to the rows: one may be added, an admission or a
\* consumption may be filled in.
RowsEvolve ==
  /\ \A i \in Members :
       /\ i \in Members'
       /\ rows'[i].candidate = rows[i].candidate
       /\ rows'[i].joinedAt = rows[i].joinedAt
       /\ rows'[i].joinOrder = rows[i].joinOrder
       /\ rows[i].admittedAt # None => rows'[i].admittedAt = rows[i].admittedAt
       /\ rows[i].consumedAt # None => rows'[i] = rows[i]
  /\ \A i \in Members' \ Members : rows'[i].joinOrder = Cardinality(Members)

\* A step that writes no row evolves the rows trivially.
LEMMA SameRows ==
  ASSUME rows' = rows
  PROVE  RowsEvolve
BY DEF RowsEvolve, Members

\* joinActive, when it writes, adds one fresh row of the candidate, who had none active.
LEMMA JoinRows ==
  ASSUME IInv, NEW t \in Tabs, JoinActive(t), rows' # rows
  PROVE  \E i \in Ids \ Members :
           /\ rows' = [rows EXCEPT ![i] =
                [candidate |-> Cand(t), joinedAt |-> call[t].at,
                 admittedAt |-> None, consumedAt |-> None, attempt |-> None,
                 joinOrder |-> Cardinality(Members)]]
           /\ Members' = Members \cup {i}
           /\ \A j \in Members : rows'[j] = rows[j]
           /\ ActiveOf(Cand(t)) = {}
           /\ rows'[i] = [candidate |-> Cand(t), joinedAt |-> call[t].at,
                admittedAt |-> None, consumedAt |-> None, attempt |-> None,
                joinOrder |-> Cardinality(Members)]
<1>1. PICK i \in Ids \ Members :
        rows' = [rows EXCEPT ![i] =
          [candidate |-> Cand(t), joinedAt |-> call[t].at,
           admittedAt |-> None, consumedAt |-> None, attempt |-> None,
           joinOrder |-> Cardinality(Members)]]
  BY DEF JoinActive
<1> DEFINE m == [candidate |-> Cand(t), joinedAt |-> call[t].at,
                 admittedAt |-> None, consumedAt |-> None, attempt |-> None,
                 joinOrder |-> Cardinality(Members)]
<1>2. m \in Membership
  BY TabFacts, MembersFinite DEF IInv, TypeOK, Call, Membership
<1>3. m # None
  BY <1>2, AdmissionAssumption
<1>4. ActiveOf(Cand(t)) = {}
  BY DEF JoinActive
<1>5. rows'[i] = m /\ \A j \in Ids \ {i} : rows'[j] = rows[j]
  BY <1>1 DEF IInv, TypeOK
<1> HIDE DEF m
<1>6. Members' = Members \cup {i}
  BY <1>3, <1>5 DEF Members
<1>7. \A j \in Members : rows'[j] = rows[j]
  BY <1>5 DEF Members
<1> QED
  BY <1>1, <1>4, <1>5, <1>6, <1>7 DEF m

\* admitOnce, when it writes, sets admittedAt of one row that had none, and nothing else.
LEMMA AdmitRows ==
  ASSUME IInv, NEW t \in Tabs, AdmitOnce(t), rows' # rows
  PROVE  /\ ~call[t].start
         /\ call[t].row \in Members
         /\ rows[call[t].row].admittedAt = None
         /\ rows[call[t].row].consumedAt = None
         /\ Members' = Members
         /\ \A j \in Members \ {call[t].row} : rows'[j] = rows[j]
         /\ rows'[call[t].row] = [rows[call[t].row] EXCEPT !.admittedAt = call[t].at]
<1> DEFINE i == call[t].row
<1>1. i \in Members
  BY DEF IInv, CallInv, TabInv, AdmitOnce, At
<1>2. i \in Ids /\ rows[i] \in Membership
  BY <1>1, MemberType DEF IInv
<1>3. rows' = [rows EXCEPT ![i].admittedAt = IF @ = None THEN call[t].at ELSE @]
  BY DEF AdmitOnce
<1>4. ~call[t].start
  BY DEF AdmitOnce
<1>5. rows[i].admittedAt = None
  <2>1. SUFFICES ASSUME rows[i].admittedAt # None PROVE rows' = rows
    OBVIOUS
  <2>2. [rows[i] EXCEPT !.admittedAt = IF @ = None THEN call[t].at ELSE @] = rows[i]
    BY <1>2, <2>1 DEF Membership
  <2> QED
    BY <1>2, <1>3, <2>2 DEF IInv, TypeOK
<1>6. rows'[i] = [rows[i] EXCEPT !.admittedAt = call[t].at]
  BY <1>2, <1>3, <1>5 DEF IInv, TypeOK
<1>7. rows'[i] \in Membership
  BY <1>2, <1>6 DEF Membership, IInv, TypeOK, Call
<1>8. \A j \in Ids \ {i} : rows'[j] = rows[j]
  BY <1>3 DEF IInv, TypeOK
<1>9. Members' = Members
  BY <1>1, <1>7, <1>8, AdmissionAssumption DEF Members
<1>10. rows[i].consumedAt = None
  BY <1>1, <1>5 DEF IInv, LedgerInv, AttemptsAdmitted
<1> QED
  BY <1>1, <1>4, <1>5, <1>6, <1>8, <1>9, <1>10 DEF Members

\* The commit of a start consumes the candidate's one active row, which is or becomes admitted.
LEMMA CommitRows ==
  ASSUME IInv, NEW t \in Tabs, StartCommit(t)
  PROVE  \E i \in Members :
           /\ ActiveOf(Cand(t)) = {i}
           /\ rows[i].candidate = Cand(t) /\ rows[i].consumedAt = None
           /\ call[t].admits => call[t].row = i
           /\ ~call[t].admits => rows[i].admittedAt # None
           /\ Members' = Members
           /\ \A j \in Members \ {i} : rows'[j] = rows[j]
           /\ rows'[i] = [rows[i] EXCEPT
                !.admittedAt = IF call[t].admits THEN call[t].at ELSE @,
                !.consumedAt = call[t].at, !.attempt = attemptCount[Cand(t)] + 1]
<1>1. PICK i : i \in ActiveOf(Cand(t))
  BY DEF StartCommit
<1>2. i \in Members /\ rows[i].candidate = Cand(t) /\ rows[i].consumedAt = None
  BY <1>1 DEF ActiveOf
<1>3. ActiveOf(Cand(t)) = {i}
  BY <1>1, <1>2 DEF ActiveOf, IInv, LedgerInv
<1>4. call[t].admits => call[t].row = i /\ rows[i].admittedAt = None
  BY <1>3 DEF StartCommit, At, IInv, CallInv, TabInv
<1>5. ~call[t].admits => rows[i].admittedAt # None
  BY <1>3 DEF StartCommit, At, IInv, CallInv, TabInv
<1>6. i \in Ids /\ rows[i] \in Membership
  BY <1>2, MemberType DEF IInv
<1>7. rows'[i] = Consumed(rows[i], t) /\ \A j \in Ids \ {i} : rows'[j] = rows[j]
  BY <1>3, <1>6 DEF StartCommit
<1>8. rows'[i] = [rows[i] EXCEPT
        !.admittedAt = IF call[t].admits THEN call[t].at ELSE @,
        !.consumedAt = call[t].at, !.attempt = attemptCount[Cand(t)] + 1]
  BY <1>4, <1>6, <1>7 DEF Consumed, Membership
<1>9. call[t].at \in Nat /\ attemptCount[Cand(t)] + 1 \in Nat
  BY TabFacts DEF IInv, TypeOK, Call
<1>10. rows'[i] \in Membership
  BY <1>6, <1>8, <1>9 DEF Membership
<1>11. Members' = Members
  BY <1>2, <1>7, <1>10, AdmissionAssumption DEF Members
<1> QED
  BY <1>2, <1>3, <1>4, <1>5, <1>7, <1>8, <1>11 DEF Members

\* The rows change in a join, in an admission and in a commit only.
LEMMA RowsChange ==
  ASSUME [Next]_vars
  PROVE  \/ rows' = rows
         \/ \E t \in Tabs : JoinActive(t) \/ AdmitOnce(t) \/ StartCommit(t)
BY DEF Next, Step, vars, Poll, StartRequest, CheckAttempt, JoinReread, StartLock,
       FindActive, ReadAnchor, ReadOrdinal, CutOff, EndAttempt, Tick

\* Every step only adds rows or fills their empty columns.
LEMMA RowsEvolveStep ==
  ASSUME IInv, [Next]_vars
  PROVE  RowsEvolve
<1>1. CASE rows' = rows
  BY <1>1, SameRows
<1>2. ASSUME NEW t \in Tabs, JoinActive(t), rows' # rows PROVE RowsEvolve
  <2>1. PICK i \in Ids \ Members :
          /\ Members' = Members \cup {i}
          /\ \A j \in Members : rows'[j] = rows[j]
          /\ rows'[i] = [candidate |-> Cand(t), joinedAt |-> call[t].at,
               admittedAt |-> None, consumedAt |-> None, attempt |-> None,
               joinOrder |-> Cardinality(Members)]
    BY <1>2, JoinRows
  <2>2. rows'[i].joinOrder = Cardinality(Members)
    BY <2>1
  <2> QED
    BY <2>1, <2>2 DEF RowsEvolve
<1>3. ASSUME NEW t \in Tabs, AdmitOnce(t), rows' # rows PROVE RowsEvolve
  <2> DEFINE i == call[t].row
  <2>1. /\ i \in Members /\ rows[i].admittedAt = None /\ rows[i].consumedAt = None
        /\ Members' = Members
        /\ \A j \in Members \ {i} : rows'[j] = rows[j]
        /\ rows'[i] = [rows[i] EXCEPT !.admittedAt = call[t].at]
    BY <1>3, AdmitRows
  <2>2. rows[i] \in Membership
    BY <2>1, MemberType DEF IInv
  <2>3. /\ rows'[i].candidate = rows[i].candidate
        /\ rows'[i].joinedAt = rows[i].joinedAt
        /\ rows'[i].joinOrder = rows[i].joinOrder
    BY <2>1, <2>2 DEF Membership
  <2> HIDE DEF i
  <2> QED
    BY <2>1, <2>3 DEF RowsEvolve
<1>4. ASSUME NEW t \in Tabs, StartCommit(t) PROVE RowsEvolve
  <2>1. PICK i \in Members :
          /\ rows[i].consumedAt = None
          /\ call[t].admits => call[t].row = i
          /\ Members' = Members
          /\ \A j \in Members \ {i} : rows'[j] = rows[j]
          /\ rows'[i] = [rows[i] EXCEPT
               !.admittedAt = IF call[t].admits THEN call[t].at ELSE @,
               !.consumedAt = call[t].at, !.attempt = attemptCount[Cand(t)] + 1]
    BY <1>4, CommitRows
  <2>2. rows[i] \in Membership
    BY MemberType DEF IInv
  <2>3. call[t].admits => rows[i].admittedAt = None
    BY <1>4, <2>1 DEF StartCommit, At, IInv, CallInv, TabInv
  <2>4. /\ rows'[i].candidate = rows[i].candidate
        /\ rows'[i].joinedAt = rows[i].joinedAt
        /\ rows'[i].joinOrder = rows[i].joinOrder
        /\ ~call[t].admits => rows'[i].admittedAt = rows[i].admittedAt
    BY <2>1, <2>2 DEF Membership
  <2> QED
    BY <2>1, <2>3, <2>4 DEF RowsEvolve
<1> QED
  BY <1>1, <1>2, <1>3, <1>4, RowsChange

-----------------------------------------------------------------------------
(* What the calls in flight rely on *)

\* A row stays active until it is consumed.
LEMMA ActiveEvolve ==
  ASSUME IInv, RowsEvolve, NEW c, NEW i \in ActiveOf(c), rows'[i].consumedAt = None
  PROVE  i \in ActiveOf(c)'
BY DEF RowsEvolve, ActiveOf

\* A call keeps what it relies on while others act, as long as they leave its
\* lock alone and, while it holds that lock, its candidate's memberships
\* unconsumed and its own uncommitted admission unmade.
LEMMA OtherTab ==
  ASSUME IInv, RowsEvolve, NEW u \in Tabs, call'[u] = call[u],
         lock[Cand(u)] = u => lock'[Cand(u)] = u,
         lock[Cand(u)] = u =>
           \A i \in ActiveOf(Cand(u)) : rows'[i].consumedAt = None,
         call[u].pc = "commit" /\ call[u].admits =>
           rows'[call[u].row].admittedAt = None
  PROVE  TabInv(u)'
<1>1. TabInv(u)
  BY DEF IInv, CallInv
<1>2. Cand(u)' = Cand(u)
  BY DEF Cand
<1>3. call[u].pc \in {"anchor", "ordinal", "admit"} =>
        /\ call[u].row \in Members'
        /\ rows'[call[u].row].candidate = Cand(u)
        /\ call[u].start => rows'[call[u].row].consumedAt = None
  BY <1>1 DEF TabInv, RowsEvolve, InTransaction, ActiveOf
<1>4. call[u].start /\ call[u].pc \in InTransaction => lock'[Cand(u)] = u
  BY <1>1 DEF TabInv
<1>5. ASSUME call[u].pc = "commit" PROVE lock[Cand(u)] = u
  BY <1>1, <1>5 DEF TabInv, InTransaction
<1>6. ASSUME call[u].pc = "commit", ~call[u].admits
      PROVE  \E i \in ActiveOf(Cand(u))' : rows'[i].admittedAt # None
  <2>1. PICK i \in ActiveOf(Cand(u)) : rows[i].admittedAt # None
    BY <1>1, <1>6 DEF TabInv
  <2>2. i \in ActiveOf(Cand(u))'
    BY <1>5, <1>6, ActiveEvolve
  <2> QED
    BY <2>1, <2>2 DEF RowsEvolve, ActiveOf
<1>7. ASSUME call[u].pc = "commit", call[u].admits
      PROVE  call[u].row \in ActiveOf(Cand(u))'
  BY <1>1, <1>5, <1>7, ActiveEvolve DEF TabInv
<1> QED
  BY <1>1, <1>2, <1>3, <1>4, <1>6, <1>7 DEF TabInv

Elsewhere(t) == \A u \in Tabs \ {t} : call'[u] = call[u]

LocksKept(t) == \A u \in Tabs \ {t} : lock[Cand(u)] = u => lock'[Cand(u)] = u

\* A step of one request leaves the others alone.
LEMMA GotoElsewhere ==
  ASSUME TypeOK, NEW t \in Tabs, NEW s, Goto(t, s)
  PROVE  Elsewhere(t) /\ call'[t] = [call[t] EXCEPT !.pc = s]
BY DEF TypeOK, Goto, Elsewhere

\* A request that ends leaves the others alone and has nothing to keep.
LEMMA FinishTab ==
  ASSUME TypeOK, NEW t \in Tabs, Finish(t)
  PROVE  Elsewhere(t) /\ call'[t] = NoCall /\ TabInv(t)'
BY DEF TypeOK, Finish, Elsewhere, TabInv, NoCall, InTransaction

\* Releasing one's own lock keeps the locks of the others.
LEMMA UnlockKeeps ==
  ASSUME TypeOK, NEW t \in Tabs, Unlock(t), lock[Cand(t)] = t
  PROVE  LocksKept(t)
BY TabFacts DEF TypeOK, Unlock, LocksKept

\* Not touching the locks keeps them.
LEMMA SameLock ==
  ASSUME NEW t \in Tabs, lock' = lock
  PROVE  LocksKept(t)
BY DEF LocksKept

\* A step of one tab that leaves the rows alone.
LEMMA QuietStep ==
  ASSUME IInv, NEW t \in Tabs, rows' = rows, Elsewhere(t), LocksKept(t), TabInv(t)'
  PROVE  CallInv'
<1>1. RowsEvolve
  BY SameRows
<1>2. ASSUME NEW u \in Tabs \ {t} PROVE TabInv(u)'
  <2>1. call'[u] = call[u] /\ (lock[Cand(u)] = u => lock'[Cand(u)] = u)
    BY DEF Elsewhere, LocksKept
  <2>2. \A i \in ActiveOf(Cand(u)) : rows'[i].consumedAt = None
    BY DEF ActiveOf
  <2>3. call[u].pc = "commit" /\ call[u].admits => rows'[call[u].row].admittedAt = None
    BY DEF IInv, CallInv, TabInv
  <2> QED
    BY <1>1, <2>1, <2>2, <2>3, OtherTab
<1> QED
  BY <1>2 DEF CallInv

\* A start that is not admitted preserves what every request knows.
LEMMA CallInvNotAdmitted ==
  ASSUME IInv, NEW t \in Tabs, NotAdmitted(t), rows' = rows,
         call[t].pc \in InTransaction
  PROVE  CallInv'
<1>1. Elsewhere(t) /\ TabInv(t)'
  BY FinishTab DEF NotAdmitted, Refuse, IInv
<1>2. LocksKept(t)
  BY UnlockKeeps, SameLock DEF NotAdmitted, Refuse, IInv, CallInv, TabInv
<1> QED
  BY <1>1, <1>2, QuietStep

\* Every step preserves what every request knows of the rows it has read.
LEMMA CallInvStep ==
  ASSUME IInv, [Next]_vars
  PROVE  CallInv'
<1> USE DEF At
<1>t. TypeOK /\ \A t \in Tabs : TabInv(t)
  BY DEF IInv, CallInv
<1>1. ASSUME NEW t \in Tabs, Poll(t) PROVE CallInv'
  <2>1. Elsewhere(t) /\ call'[t] = [NoCall EXCEPT !.pc = "check", !.at = now]
    BY <1>1, <1>t DEF Poll, TypeOK, Elsewhere
  <2>2. TabInv(t)'
    BY <2>1 DEF TabInv, NoCall, InTransaction
  <2> QED
    BY <1>1, <2>1, <2>2, SameLock, QuietStep DEF Poll
<1>2. ASSUME NEW t \in Tabs, StartRequest(t) PROVE CallInv'
  <2>1. /\ Elsewhere(t)
        /\ call'[t] = [NoCall EXCEPT !.pc = "lock", !.start = TRUE, !.at = now]
    BY <1>2, <1>t DEF StartRequest, TypeOK, Elsewhere
  <2>2. TabInv(t)'
    BY <2>1 DEF TabInv, NoCall, InTransaction
  <2> QED
    BY <1>2, <2>1, <2>2, SameLock, QuietStep DEF StartRequest
<1>3. ASSUME NEW t \in Tabs, CheckAttempt(t) PROVE CallInv'
  <2>1. CASE Finish(t)
    BY <1>3, <1>t, <2>1, FinishTab, SameLock, QuietStep DEF CheckAttempt
  <2>2. CASE Goto(t, "join")
    <3>1. Elsewhere(t) /\ call'[t] = [call[t] EXCEPT !.pc = "join"]
      BY <1>t, <2>2, GotoElsewhere
    <3>2. ~call[t].start
      BY <1>3, <1>t DEF CheckAttempt, TabInv
    <3>3. call[t] \in Call
      BY <1>t DEF TypeOK
    <3>4. TabInv(t)'
      BY <3>1, <3>2, <3>3 DEF TabInv, Call, InTransaction
    <3> QED
      BY <1>3, <3>1, <3>4, SameLock, QuietStep DEF CheckAttempt
  <2> QED
    BY <1>3, <2>1, <2>2 DEF CheckAttempt
<1>4. ASSUME NEW t \in Tabs, JoinActive(t) PROVE CallInv'
  <2>1. PICK s \in {"find", "reread"} : Goto(t, s)
    BY <1>4 DEF JoinActive
  <2>2. Elsewhere(t) /\ call'[t] = [call[t] EXCEPT !.pc = s]
    BY <1>t, <2>1, GotoElsewhere
  <2>3. ~call[t].start
    BY <1>4, <1>t DEF JoinActive, TabInv
  <2>4. call[t] \in Call
    BY <1>t DEF TypeOK
  <2>5. TabInv(t)'
    BY <2>2, <2>3, <2>4 DEF TabInv, Call, InTransaction
  <2>6. CASE rows' = rows
    BY <1>4, <2>2, <2>5, <2>6, SameLock, QuietStep DEF JoinActive
  <2>7. CASE rows' # rows
    <3>1. \A j \in Members : rows'[j] = rows[j]
      BY <1>4, <2>7, JoinRows
    <3>2. RowsEvolve
      BY RowsEvolveStep
    <3>3. ASSUME NEW u \in Tabs \ {t} PROVE TabInv(u)'
      <4>1. call'[u] = call[u] /\ lock' = lock
        BY <1>4, <2>2 DEF Elsewhere, JoinActive
      <4>2. \A i \in ActiveOf(Cand(u)) : rows'[i].consumedAt = None
        BY <3>1 DEF ActiveOf
      <4>3. call[u].pc = "commit" /\ call[u].admits => rows'[call[u].row].admittedAt = None
        BY <1>t, <3>1 DEF TabInv, ActiveOf
      <4> QED
        BY <3>2, <4>1, <4>2, <4>3, OtherTab
    <3> QED
      BY <2>5, <3>3 DEF CallInv
  <2> QED
    BY <2>6, <2>7
<1>5. ASSUME NEW t \in Tabs, JoinReread(t) PROVE CallInv'
  <2>1. CASE Finish(t)
    BY <1>5, <1>t, <2>1, FinishTab, SameLock, QuietStep DEF JoinReread
  <2>2. ~call[t].start /\ call[t] \in Call
    BY <1>5, <1>t DEF JoinReread, TabInv, TypeOK
  <2>3. CASE Goto(t, "find")
    <3>1. Elsewhere(t) /\ call'[t] = [call[t] EXCEPT !.pc = "find"]
      BY <1>t, <2>3, GotoElsewhere
    <3>2. TabInv(t)'
      BY <2>2, <3>1 DEF TabInv, Call, InTransaction
    <3> QED
      BY <1>5, <3>1, <3>2, SameLock, QuietStep DEF JoinReread
  <2>4. CASE call' = [call EXCEPT ![t].pc = "join", ![t].tries = @ + 1]
    <3>1. Elsewhere(t) /\ call'[t].pc = "join" /\ call'[t].start = call[t].start
      BY <1>t, <2>2, <2>4 DEF TypeOK, Elsewhere, Call
    <3>2. TabInv(t)'
      BY <2>2, <3>1 DEF TabInv, InTransaction
    <3> QED
      BY <1>5, <3>1, <3>2, SameLock, QuietStep DEF JoinReread
  <2> QED
    BY <1>5, <2>1, <2>3, <2>4 DEF JoinReread
<1>6. ASSUME NEW t \in Tabs, StartLock(t) PROVE CallInv'
  <2>1. CASE Finish(t) /\ UNCHANGED lock
    BY <1>6, <1>t, <2>1, FinishTab, SameLock, QuietStep DEF StartLock
  <2>2. CASE Goto(t, "find") /\ lock' = [lock EXCEPT ![Cand(t)] = t]
    <3>1. Elsewhere(t) /\ call'[t] = [call[t] EXCEPT !.pc = "find"]
      BY <1>t, <2>2, GotoElsewhere
    <3>2. lock'[Cand(t)] = t /\ LocksKept(t)
      BY <1>6, <1>t, <2>2, TabFacts, AdmissionAssumption DEF StartLock, LocksKept, TypeOK
    <3>3. call[t] \in Call
      BY <1>t DEF TypeOK
    <3>4. TabInv(t)'
      BY <3>1, <3>2, <3>3 DEF TabInv, Call, InTransaction
    <3> QED
      BY <1>6, <3>1, <3>2, <3>4, QuietStep DEF StartLock
  <2> QED
    BY <1>6, <2>1, <2>2 DEF StartLock
<1>7. ASSUME NEW t \in Tabs, FindActive(t) PROVE CallInv'
  <2>1. CASE NotAdmitted(t)
    BY <1>7, <2>1, CallInvNotAdmitted DEF FindActive, InTransaction
  <2>2. call[t] \in Call
    BY <1>t DEF TypeOK
  <2>3. call[t].start => lock[Cand(t)] = t
    BY <1>7, <1>t DEF FindActive, TabInv, InTransaction
  <2>4. ASSUME NEW i \in ActiveOf(Cand(t)), rows[i].admittedAt # None, UNCHANGED lock,
               IF call[t].start THEN Goto(t, "commit") ELSE Finish(t)
        PROVE  CallInv'
    <3>1. CASE Finish(t)
      BY <1>7, <1>t, <2>4, <3>1, FinishTab, SameLock, QuietStep DEF FindActive
    <3>2. CASE call[t].start /\ Goto(t, "commit")
      <4>1. Elsewhere(t) /\ call'[t] = [call[t] EXCEPT !.pc = "commit"]
        BY <1>t, <3>2, GotoElsewhere
      <4>2. ~call[t].admits
        BY <1>7 DEF FindActive, IInv, ScheduleInv, TabOnSchedule
      <4>3. rows' = rows /\ ActiveOf(Cand(t))' = ActiveOf(Cand(t))
        BY <1>7 DEF FindActive, ActiveOf, Members, Cand
      <4>4. TabInv(t)'
        BY <2>2, <2>3, <2>4, <3>2, <4>1, <4>2, <4>3 DEF TabInv, Call, InTransaction
      <4> QED
        BY <2>4, <4>1, <4>3, <4>4, SameLock, QuietStep
    <3> QED
      BY <2>4, <3>1, <3>2
  <2>5. ASSUME NEW i \in ActiveOf(Cand(t)), UNCHANGED lock,
               call' = [call EXCEPT ![t].pc = "anchor", ![t].row = i]
        PROVE  CallInv'
    <3>1. /\ Elsewhere(t)
          /\ call'[t].pc = "anchor" /\ call'[t].row = i /\ call'[t].start = call[t].start
      BY <1>t, <2>2, <2>5 DEF TypeOK, Elsewhere, Call
    <3>2. /\ rows' = rows /\ Members' = Members
          /\ i \in Members /\ rows[i].candidate = Cand(t) /\ rows[i].consumedAt = None
      BY <1>7, <2>5 DEF FindActive, Members, ActiveOf
    <3>3. TabInv(t)'
      BY <2>3, <2>5, <3>1, <3>2 DEF TabInv, InTransaction
    <3> QED
      BY <2>5, <3>1, <3>2, <3>3, SameLock, QuietStep
  <2> QED
    BY <1>7, <2>1, <2>4, <2>5 DEF FindActive
<1>8. ASSUME NEW t \in Tabs, ReadAnchor(t) PROVE CallInv'
  <2>1. PICK r :
          call' = [call EXCEPT ![t].pc = "ordinal", ![t].released = r]
    BY <1>8 DEF ReadAnchor
  <2>2. call[t] \in Call
    BY <1>t DEF TypeOK
  <2>3. /\ Elsewhere(t)
        /\ call'[t].pc = "ordinal" /\ call'[t].row = call[t].row
        /\ call'[t].start = call[t].start
    BY <1>t, <2>1, <2>2 DEF TypeOK, Elsewhere, Call
  <2>4. rows' = rows /\ lock' = lock /\ Members' = Members
    BY <1>8 DEF ReadAnchor, Members
  <2>5. TabInv(t)'
    BY <1>8, <1>t, <2>3, <2>4 DEF TabInv, InTransaction, ReadAnchor
  <2> QED
    BY <2>3, <2>4, <2>5, SameLock, QuietStep
<1>9. ASSUME NEW t \in Tabs, ReadOrdinal(t) PROVE CallInv'
  <2>1. CASE NotAdmitted(t)
    BY <1>9, <2>1, CallInvNotAdmitted DEF ReadOrdinal, InTransaction
  <2>2. CASE Goto(t, "admit") /\ UNCHANGED lock
    <3>1. Elsewhere(t) /\ call'[t] = [call[t] EXCEPT !.pc = "admit"]
      BY <1>t, <2>2, GotoElsewhere
    <3>2. call[t] \in Call
      BY <1>t DEF TypeOK
    <3>3. rows' = rows /\ Members' = Members
      BY <1>9 DEF ReadOrdinal, Members
    <3>4. TabInv(t)'
      BY <1>9, <1>t, <2>2, <3>1, <3>2, <3>3 DEF TabInv, Call, InTransaction, ReadOrdinal
    <3> QED
      BY <2>2, <3>1, <3>3, <3>4, SameLock, QuietStep
  <2> QED
    BY <1>9, <2>1, <2>2 DEF ReadOrdinal
<1>10. ASSUME NEW t \in Tabs, AdmitOnce(t) PROVE CallInv'
  <2>1. call[t] \in Call
    BY <1>t DEF TypeOK
  <2>2. CASE ~call[t].start /\ rows' = rows
    BY <1>10, <1>t, <2>2, FinishTab, SameLock, QuietStep DEF AdmitOnce
  <2>3. CASE ~call[t].start /\ rows' # rows
    <3> DEFINE i == call[t].row
    <3>1. /\ i \in Members
          /\ \A j \in Members \ {i} : rows'[j] = rows[j]
          /\ rows'[i] = [rows[i] EXCEPT !.admittedAt = call[t].at]
      BY <1>10, <2>3, AdmitRows
    <3>2. rows'[i].consumedAt = rows[i].consumedAt
      BY <1>t, <3>1, MemberType DEF Membership
    <3> HIDE DEF i
    <3>3. Elsewhere(t) /\ TabInv(t)' /\ lock' = lock
      BY <1>10, <1>t, <2>3, FinishTab DEF AdmitOnce
    <3>4. RowsEvolve
      BY RowsEvolveStep
    <3>5. ASSUME NEW u \in Tabs \ {t} PROVE TabInv(u)'
      <4>1. call'[u] = call[u]
        BY <3>3 DEF Elsewhere
      <4>2. \A j \in ActiveOf(Cand(u)) : rows'[j].consumedAt = None
        BY <3>1, <3>2 DEF ActiveOf
      <4>3. call[u].pc = "commit" /\ call[u].admits => call[u].row # i
        BY <1>10 DEF AdmitOnce, RowHeld, i
      <4>4. call[u].pc = "commit" /\ call[u].admits => rows'[call[u].row].admittedAt = None
        BY <1>t, <3>1, <4>3 DEF TabInv, ActiveOf
      <4> QED
        BY <3>3, <3>4, <4>1, <4>2, <4>4, OtherTab
    <3> QED
      BY <3>3, <3>5 DEF CallInv
  <2>4. CASE call[t].start /\ rows[call[t].row].admittedAt = None
    <3>1. /\ Elsewhere(t) /\ rows' = rows /\ lock' = lock
          /\ call'[t].pc = "commit" /\ call'[t].admits /\ call'[t].start
          /\ call'[t].row = call[t].row
      BY <1>10, <1>t, <2>1, <2>4 DEF AdmitOnce, TypeOK, Elsewhere, Call
    <3>2. lock[Cand(t)] = t /\ call[t].row \in ActiveOf(Cand(t))
      BY <1>10, <1>t, <2>4 DEF AdmitOnce, TabInv, InTransaction, ActiveOf
    <3>3. ActiveOf(Cand(t))' = ActiveOf(Cand(t))
      BY <3>1 DEF ActiveOf, Members, Cand
    <3>4. TabInv(t)'
      BY <2>4, <3>1, <3>2, <3>3 DEF TabInv, InTransaction
    <3> QED
      BY <3>1, <3>4, SameLock, QuietStep
  <2>5. CASE call[t].start /\ rows[call[t].row].admittedAt # None
    <3>1. Elsewhere(t) /\ TabInv(t)' /\ rows' = rows /\ Unlock(t)
      BY <1>10, <1>t, <2>5, FinishTab DEF AdmitOnce, Refuse
    <3>2. lock[Cand(t)] = t
      BY <1>10, <1>t, <2>5 DEF AdmitOnce, TabInv, InTransaction
    <3> QED
      BY <1>t, <3>1, <3>2, UnlockKeeps, QuietStep
  <2> QED
    BY <2>2, <2>3, <2>4, <2>5
<1>11. ASSUME NEW t \in Tabs, StartCommit(t) PROVE CallInv'
  <2>1. PICK i \in Members :
          /\ ActiveOf(Cand(t)) = {i}
          /\ \A j \in Members \ {i} : rows'[j] = rows[j]
    BY <1>11, CommitRows
  <2>2. lock[Cand(t)] = t /\ Unlock(t)
    BY <1>11, <1>t DEF StartCommit, TabInv, InTransaction
  <2>3. LocksKept(t)
    BY <1>t, <2>2, UnlockKeeps
  <2>4. Elsewhere(t) /\ TabInv(t)'
    BY <1>11, <1>t, FinishTab DEF StartCommit
  <2>5. RowsEvolve
    BY RowsEvolveStep
  <2>6. ASSUME NEW u \in Tabs \ {t} PROVE TabInv(u)'
    <3>1. call'[u] = call[u] /\ (lock[Cand(u)] = u => lock'[Cand(u)] = u)
      BY <2>3, <2>4 DEF Elsewhere, LocksKept
    <3>2. ASSUME lock[Cand(u)] = u, NEW j \in ActiveOf(Cand(u)) PROVE rows'[j] = rows[j]
      <4>1. Cand(u) # Cand(t)
        BY <2>2, <3>2
      <4>2. j # i
        BY <2>1, <4>1 DEF ActiveOf
      <4> QED
        BY <2>1, <4>2 DEF ActiveOf
    <3>3. lock[Cand(u)] = u => \A j \in ActiveOf(Cand(u)) : rows'[j].consumedAt = None
      BY <3>2 DEF ActiveOf
    <3>4. call[u].pc = "commit" /\ call[u].admits => rows'[call[u].row].admittedAt = None
      BY <1>t, <3>2 DEF TabInv, InTransaction
    <3> QED
      BY <2>5, <3>1, <3>3, <3>4, OtherTab
  <2> QED
    BY <2>4, <2>6 DEF CallInv
<1>12. ASSUME NEW t \in Tabs, CutOff(t) PROVE CallInv'
  <2>1. Elsewhere(t) /\ TabInv(t)' /\ rows' = rows
    BY <1>12, <1>t, FinishTab DEF CutOff
  <2>2. LocksKept(t)
    BY <1>12, <1>t, TabFacts DEF CutOff, LocksKept, TypeOK
  <2> QED
    BY <2>1, <2>2, QuietStep
<1>13. CASE UNCHANGED <<rows, lock, call>>
  BY <1>13, <1>t DEF CallInv, TabInv, ActiveOf, Members, Cand
<1> QED
  BY <1>1, <1>2, <1>3, <1>4, <1>5, <1>6, <1>7, <1>8, <1>9, <1>10, <1>11, <1>12, <1>13
     DEF Next, Step, EndAttempt, Tick, vars

-----------------------------------------------------------------------------
(* The ledger of memberships and attempts *)

\* Every step preserves the facts about memberships and attempts.
LEMMA LedgerStep ==
  ASSUME IInv, [Next]_vars
  PROVE  LedgerInv'
<1>t. TypeOK /\ LedgerInv
  BY DEF IInv
<1>1. CASE rows' = rows /\ attemptCount' = attemptCount
  <2>1. Members' = Members
    BY <1>1 DEF Members
  <2> QED
    BY <1>1, <1>t, <2>1 DEF LedgerInv, AttemptsAdmitted
<1>2. ASSUME NEW t \in Tabs, JoinActive(t), rows' # rows PROVE LedgerInv'
  <2>1. PICK i \in Ids \ Members :
          /\ Members' = Members \cup {i}
          /\ \A j \in Members : rows'[j] = rows[j]
          /\ ActiveOf(Cand(t)) = {}
          /\ rows'[i] = [candidate |-> Cand(t), joinedAt |-> call[t].at,
               admittedAt |-> None, consumedAt |-> None, attempt |-> None,
               joinOrder |-> Cardinality(Members)]
    BY <1>2, JoinRows
  <2>2. /\ rows'[i].candidate = Cand(t) /\ rows'[i].consumedAt = None
        /\ rows'[i].attempt = None
    BY <2>1
  <2>3. attemptCount' = attemptCount
    BY <1>2 DEF JoinActive
  <2>4. ASSUME NEW c \in Candidates, NEW k \in 1..attemptCount[c]
        PROVE  \E m \in Members' :
                 /\ rows'[m].candidate = c /\ rows'[m].attempt = k
                 /\ \A j \in Members' : rows'[j].candidate = c /\ rows'[j].attempt = k => j = m
    <3>1. k # None
      BY AdmissionAssumption
    <3> QED
      BY <1>t, <2>1, <2>2, <3>1 DEF LedgerInv, AttemptsAdmitted
  <2>5. \A j \in Members :
          rows[j].candidate = Cand(t) => rows[j].consumedAt # None
    BY <2>1 DEF ActiveOf
  <2>6. AttemptsAdmitted'
    BY <1>t, <2>1, <2>2, <2>3, <2>4 DEF LedgerInv, AttemptsAdmitted
  <2> QED
    BY <1>t, <2>1, <2>2, <2>5, <2>6 DEF LedgerInv
<1>3. ASSUME NEW t \in Tabs, AdmitOnce(t), rows' # rows PROVE LedgerInv'
  <2> DEFINE i == call[t].row
  <2>1. /\ i \in Members /\ rows[i].consumedAt = None /\ Members' = Members
        /\ \A j \in Members \ {i} : rows'[j] = rows[j]
        /\ rows'[i] = [rows[i] EXCEPT !.admittedAt = call[t].at]
    BY <1>3, AdmitRows
  <2>2. /\ rows'[i].candidate = rows[i].candidate
        /\ rows'[i].consumedAt = None /\ rows'[i].attempt = rows[i].attempt
    BY <1>t, <2>1, MemberType DEF Membership
  <2>3. attemptCount' = attemptCount
    BY <1>3 DEF AdmitOnce
  <2> HIDE DEF i
  <2>4. ASSUME NEW j \in Members
        PROVE  /\ rows'[j].candidate = rows[j].candidate
               /\ rows'[j].consumedAt = rows[j].consumedAt
               /\ rows'[j].attempt = rows[j].attempt
               /\ rows[j].consumedAt # None => rows'[j].admittedAt = rows[j].admittedAt
    <3>1. CASE j = i
      BY <2>1, <2>2, <3>1
    <3>2. CASE j # i
      <4>1. rows'[j] = rows[j]
        BY <2>1, <3>2
      <4> QED
        BY <4>1
    <3> QED
      BY <3>1, <3>2
  <2>5. AttemptsAdmitted'
    BY <1>t, <2>1, <2>3, <2>4 DEF LedgerInv, AttemptsAdmitted
  <2> QED
    BY <1>t, <2>1, <2>4, <2>5 DEF LedgerInv
<1>4. ASSUME NEW t \in Tabs, StartCommit(t) PROVE LedgerInv'
  <2> DEFINE c == Cand(t)
             n == attemptCount[c] + 1
  <2>1. PICK i \in Members :
          /\ ActiveOf(c) = {i}
          /\ rows[i].candidate = c /\ rows[i].consumedAt = None
          /\ call[t].admits => call[t].row = i
          /\ ~call[t].admits => rows[i].admittedAt # None
          /\ Members' = Members
          /\ \A j \in Members \ {i} : rows'[j] = rows[j]
          /\ rows'[i] = [rows[i] EXCEPT
               !.admittedAt = IF call[t].admits THEN call[t].at ELSE @,
               !.consumedAt = call[t].at, !.attempt = n]
    BY <1>4, CommitRows
  <2>2. call[t].at \in Nat /\ c \in Candidates /\ attemptCount[c] \in Nat
    BY <1>t, TabFacts DEF TypeOK, Call
  <2>3. rows[i] \in Membership
    BY <1>t, MemberType
  <2>4. /\ rows'[i].candidate = c
        /\ rows'[i].consumedAt = call[t].at /\ rows'[i].attempt = n
        /\ rows'[i].admittedAt # None
    BY <2>1, <2>2, <2>3, AdmissionAssumption DEF Membership
  <2>5. attemptCount' = [attemptCount EXCEPT ![c] = n]
    BY <1>4 DEF StartCommit
  <2>6. /\ attemptCount'[c] = n
        /\ \A d \in Candidates \ {c} : attemptCount'[d] = attemptCount[d]
    BY <1>t, <2>2, <2>5 DEF TypeOK
  <2>7. n \in Nat /\ n # None /\ call[t].at # None /\ n >= 1
    BY <2>2, AdmissionAssumption
  <2> HIDE DEF c, n
  <2>8. \A j \in Members : rows[j].candidate \in Candidates
    BY <1>t, MemberType DEF Membership
  <2>9. \A j \in Members :
          rows[j].candidate = c /\ rows[j].attempt # None =>
            rows[j].attempt \in 1..attemptCount[c]
    BY <1>t DEF LedgerInv, AttemptsAdmitted
  <2>10. n = attemptCount[c] + 1
    BY DEF n
  <2>11. ASSUME NEW j \in Members, rows'[j].consumedAt # None
         PROVE  /\ rows'[j].attempt \in 1..attemptCount'[rows'[j].candidate]
                /\ rows'[j].admittedAt # None
    <3>1. CASE j = i
      BY <2>4, <2>6, <2>7, <3>1
    <3>2. CASE j # i /\ rows[j].candidate = c
      BY <1>t, <2>1, <2>2, <2>6, <2>10, <2>11, <3>2 DEF LedgerInv, AttemptsAdmitted
    <3>3. CASE j # i /\ rows[j].candidate # c
      BY <1>t, <2>1, <2>6, <2>8, <2>11, <3>3 DEF LedgerInv, AttemptsAdmitted
    <3> QED
      BY <3>1, <3>2, <3>3
  <2>12. ASSUME NEW d \in Candidates, NEW k \in 1..attemptCount'[d]
         PROVE  \E m \in Members :
                  /\ rows'[m].candidate = d /\ rows'[m].attempt = k
                  /\ \A j \in Members : rows'[j].candidate = d /\ rows'[j].attempt = k => j = m
    <3>1. CASE d = c /\ k = n
      <4>1. \A j \in Members \ {i} : rows[j].candidate = c => rows[j].attempt # n
        BY <2>2, <2>7, <2>9, <2>10
      <4>2. \A j \in Members : rows'[j].candidate = d /\ rows'[j].attempt = k => j = i
        <5>1. SUFFICES ASSUME NEW j \in Members, j # i,
                              rows'[j].candidate = d, rows'[j].attempt = k
                       PROVE  FALSE
          OBVIOUS
        <5>2. rows'[j] = rows[j]
          BY <2>1, <5>1
        <5> QED
          BY <3>1, <4>1, <5>1, <5>2
      <4>3. rows'[i].candidate = d /\ rows'[i].attempt = k
        BY <2>4, <3>1
      <4> QED
        BY <4>2, <4>3
    <3>2. CASE d = c /\ k # n
      <4>1. k \in 1..attemptCount[c]
        BY <2>2, <2>6, <2>10, <3>2
      <4>2. PICK m \in Members :
              /\ rows[m].candidate = c /\ rows[m].attempt = k
              /\ \A j \in Members : rows[j].candidate = c /\ rows[j].attempt = k => j = m
        BY <1>t, <2>2, <4>1 DEF LedgerInv, AttemptsAdmitted
      <4>3. rows[i].attempt = None
        BY <1>t, <2>1 DEF LedgerInv
      <4>4. m # i
        BY <4>1, <4>2, <4>3, AdmissionAssumption
      <4>5. ASSUME NEW j \in Members, rows'[j].candidate = d, rows'[j].attempt = k
            PROVE  j = m
        <5>1. j # i
          BY <2>4, <3>2, <4>5
        <5>2. rows'[j] = rows[j]
          BY <2>1, <5>1
        <5> QED
          BY <3>2, <4>2, <4>5, <5>2
      <4>6. rows'[m] = rows[m]
        BY <2>1, <4>4
      <4> QED
        BY <3>2, <4>2, <4>5, <4>6
    <3>3. CASE d # c
      <4>1. PICK m \in Members :
              /\ rows[m].candidate = d /\ rows[m].attempt = k
              /\ \A j \in Members : rows[j].candidate = d /\ rows[j].attempt = k => j = m
        BY <1>t, <2>6, <3>3 DEF LedgerInv, AttemptsAdmitted
      <4>2. m # i
        BY <2>1, <3>3, <4>1
      <4>3. ASSUME NEW j \in Members, rows'[j].candidate = d, rows'[j].attempt = k
            PROVE  j = m
        <5>1. j # i
          BY <2>4, <3>3, <4>3
        <5>2. rows'[j] = rows[j]
          BY <2>1, <5>1
        <5> QED
          BY <4>1, <4>3, <5>2
      <4>4. rows'[m] = rows[m]
        BY <2>1, <4>2
      <4> QED
        BY <4>1, <4>3, <4>4
    <3> QED
      BY <3>1, <3>2, <3>3
  <2>13. AttemptsAdmitted'
    BY <2>1, <2>11, <2>12 DEF AttemptsAdmitted
  <2>14. \A j, m \in Members :
           /\ rows'[j].candidate = rows'[m].candidate
           /\ rows'[j].consumedAt = None /\ rows'[m].consumedAt = None
           => j = m
    <3>1. SUFFICES ASSUME NEW j \in Members, NEW m \in Members,
                          rows'[j].candidate = rows'[m].candidate,
                          rows'[j].consumedAt = None, rows'[m].consumedAt = None
                   PROVE  j = m
      OBVIOUS
    <3>2. j # i /\ m # i
      BY <2>4, <2>7, <3>1
    <3>3. rows'[j] = rows[j] /\ rows'[m] = rows[m]
      BY <2>1, <3>2
    <3> QED
      BY <1>t, <3>1, <3>3 DEF LedgerInv
  <2>15. ASSUME NEW j \in Members PROVE rows'[j].consumedAt = None <=> rows'[j].attempt = None
    <3>1. CASE j = i
      BY <2>4, <2>7, <3>1
    <3>2. CASE j # i
      <4>1. rows'[j] = rows[j]
        BY <2>1, <3>2
      <4> QED
        BY <1>t, <4>1 DEF LedgerInv
    <3> QED
      BY <3>1, <3>2
  <2> QED
    BY <2>1, <2>13, <2>14, <2>15 DEF LedgerInv
<1>5. \/ rows' = rows /\ attemptCount' = attemptCount
      \/ \E t \in Tabs :
           \/ JoinActive(t) /\ rows' # rows
           \/ AdmitOnce(t) /\ rows' # rows
           \/ StartCommit(t)
  BY DEF Next, Step, vars, Poll, StartRequest, CheckAttempt, JoinActive, JoinReread,
         StartLock, FindActive, ReadAnchor, ReadOrdinal, AdmitOnce, CutOff, EndAttempt, Tick
<1> QED
  BY <1>1, <1>2, <1>3, <1>4, <1>5

-----------------------------------------------------------------------------
(* The schedule *)

\* Who had joined before a row does not change afterwards.
LEMMA AheadEvolve ==
  ASSUME IInv, RowsEvolve, NEW j \in Members
  PROVE  AheadAtJoin(j)' = AheadAtJoin(j)
<1>1. rows[j].joinOrder < Cardinality(Members)
  BY DEF IInv, ScheduleInv
<1>2. rows[j].joinOrder \in Nat /\ Cardinality(Members) \in Nat
  BY MemberType, MembersFinite DEF IInv, Membership
<1>3. \A i \in Members' \ Members : ~(rows'[i].joinOrder < rows'[j].joinOrder)
  BY <1>1, <1>2 DEF RowsEvolve
<1>4. \A i \in Members : i \in AheadAtJoin(j)' <=> i \in AheadAtJoin(j)
  BY DEF RowsEvolve, AheadAtJoin, Ahead
<1>5. AheadAtJoin(j)' \subseteq Members
  BY <1>3 DEF AheadAtJoin
<1>6. AheadAtJoin(j) \subseteq Members
  BY DEF AheadAtJoin
<1> QED
  BY <1>4, <1>5, <1>6

\* A row that was due at some time stays due at that time.
LEMMA DueEvolve ==
  ASSUME IInv, RowsEvolve, NEW j \in Members, NEW at, Due(j, at)
  PROVE  Due(j, at)'
<1>1. AheadAtJoin(j)' = AheadAtJoin(j)
  BY AheadEvolve
<1>2. PICK i \in Members :
        BatchNumber(Cardinality(AheadAtJoin(j)) + 1) <= ReleasedBatches(rows[i].joinedAt, at)
  BY DEF Due
<1>3. i \in Members' /\ rows'[i].joinedAt = rows[i].joinedAt
  BY DEF RowsEvolve
<1>4. BatchNumber(Cardinality(AheadAtJoin(j)') + 1) <= ReleasedBatches(rows'[i].joinedAt, at)
  BY <1>1, <1>2, <1>3
<1> QED
  BY <1>3, <1>4 DEF Due, BatchNumber, ReleasedBatches

\* Rows are numbered in the order they were inserted.
LEMMA JoinOrderStep ==
  ASSUME IInv, [Next]_vars
  PROVE  \A j \in Members' : rows'[j].joinOrder < Cardinality(Members')
<1>1. \A j \in Members : rows[j].joinOrder < Cardinality(Members)
  BY DEF IInv, ScheduleInv
<1>2. RowsEvolve
  BY RowsEvolveStep
<1>3. CASE Members' = Members
  BY <1>1, <1>2, <1>3 DEF RowsEvolve
<1>4. ASSUME NEW t \in Tabs, JoinActive(t), rows' # rows
      PROVE  \A j \in Members' : rows'[j].joinOrder < Cardinality(Members')
  <2>1. PICK i \in Ids \ Members : Members' = Members \cup {i}
    BY <1>4, JoinRows
  <2>2. i \notin Members /\ Cardinality(Members') = Cardinality(Members) + 1
    BY <2>1, MembersFinite, FS_AddElement
  <2>3. ASSUME NEW j \in Members' PROVE rows'[j].joinOrder < Cardinality(Members')
    <3>1. CASE j \in Members
      <4>1. rows'[j].joinOrder = rows[j].joinOrder /\ rows[j].joinOrder \in Nat
        BY <1>2, <3>1, MemberType DEF RowsEvolve, IInv, Membership
      <4> QED
        BY <1>1, <2>2, <3>1, <4>1, MembersFinite
    <3>2. CASE j \notin Members
      <4>1. rows'[j].joinOrder = Cardinality(Members)
        BY <1>2, <2>3, <3>2 DEF RowsEvolve
      <4> QED
        BY <2>2, <4>1, MembersFinite
    <3> QED
      BY <3>1, <3>2
  <2> QED
    BY <2>3
<1>5. ASSUME NEW t \in Tabs, AdmitOnce(t), rows' # rows PROVE Members' = Members
  BY <1>5, AdmitRows
<1>6. ASSUME NEW t \in Tabs, StartCommit(t) PROVE Members' = Members
  BY <1>6, CommitRows
<1>7. rows' = rows => Members' = Members
  BY DEF Members
<1> QED
  BY <1>3, <1>4, <1>5, <1>6, <1>7, RowsChange

\* A decision that goes with the ordinal over all memberships goes with the one
\* over those that were there at the join.
LEMMA OrdinalIsDue ==
  ASSUME IInv, NEW t \in Tabs, call[t].pc = "ordinal",
         ~(BatchNumber(scheduleOrdinal(call[t].row)) > call[t].released)
  PROVE  Due(call[t].row, call[t].at)
<1> DEFINE j == call[t].row
           a == Cardinality(AheadAtJoin(j))
           b == Cardinality(AllAhead(j))
<1>1. AheadAtJoin(j) \subseteq AllAhead(j) /\ AllAhead(j) \subseteq Members
  BY DEF AheadAtJoin, AllAhead
<1>2. IsFiniteSet(AllAhead(j)) /\ b \in Nat
  BY <1>1, MembersFinite, FS_Subset, FS_CardinalityType
<1>3. a \in Nat /\ a <= b
  BY <1>1, <1>2, FS_Subset, FS_CardinalityType
<1> HIDE DEF a, b
<1>4. BatchNumber(a + 1) <= BatchNumber(b + 1)
  BY <1>2, <1>3, BatchNumberMonotone
<1>5. ~(BatchNumber(b + 1) > call[t].released)
  BY DEF scheduleOrdinal, b
<1>6. PICK i \in Members : call[t].released = ReleasedBatches(rows[i].joinedAt, call[t].at)
  BY DEF IInv, ScheduleInv, TabOnSchedule
<1>7. call[t].released \in Nat
  BY DEF IInv, TypeOK, Call
<1>8. a + 1 + BatchSize - 1 \in Nat /\ b + 1 + BatchSize - 1 \in Nat
  BY <1>2, <1>3, AdmissionAssumption
<1>9. BatchNumber(a + 1) \in Int /\ BatchNumber(b + 1) \in Int
  BY <1>8, AdmissionAssumption DEF BatchNumber
<1> HIDE DEF j
<1>10. BatchNumber(a + 1) <= call[t].released
  BY <1>4, <1>5, <1>7, <1>9
<1> QED
  BY <1>6, <1>10 DEF Due, a, j

\* A decision on the next state's call is one on its row and time.
LEMMA DueOfCall ==
  ASSUME NEW CONSTANT j, NEW CONSTANT at, NEW CONSTANT u,
         call'[u].row = j, call'[u].at = at, Due(j, at)'
  PROVE  Due(call[u].row, call[u].at)'
BY DEF Due, AheadAtJoin, Ahead, Members, BatchNumber, ReleasedBatches

\* A request that has decided to admit keeps a decision that is on schedule.
LEMMA TabsOnScheduleStep ==
  ASSUME IInv, [Next]_vars, NEW u \in Tabs
  PROVE  TabOnSchedule(u)'
<1>t. TypeOK /\ TabInv(u) /\ TabOnSchedule(u) /\ call[u] \in Call
  BY DEF IInv, CallInv, ScheduleInv, TypeOK
<1>e. RowsEvolve
  BY RowsEvolveStep
<1>m. call[u].pc = "admit" \/ call[u].admits => call[u].row \in Members
  BY <1>t DEF TabInv, TabOnSchedule, ActiveOf
<1>d. ASSUME NEW CONSTANT j, NEW CONSTANT at, j = call[u].row, at = call[u].at,
             call[u].pc = "admit" \/ call[u].admits
      PROVE  Due(j, at)'
  <2>1. j \in Members /\ Due(j, at)
    BY <1>t, <1>m, <1>d DEF TabOnSchedule
  <2> QED
    BY <1>e, <2>1, DueEvolve
<1>o. ASSUME NEW i \in Members
      PROVE  i \in Members' /\ rows'[i].joinedAt = rows[i].joinedAt
  BY <1>e DEF RowsEvolve
<1>1. CASE call'[u] = call[u]
  <2>1. call[u].pc = "ordinal" =>
          \E i \in Members' : call[u].released = ReleasedBatches(rows'[i].joinedAt, call[u].at)
    BY <1>t, <1>o DEF TabOnSchedule
  <2>2. ASSUME call[u].pc = "admit" \/ call[u].admits
        PROVE  Due(call[u].row, call[u].at)'
    <3>1. PICK j, at : j = call[u].row /\ at = call[u].at
      OBVIOUS
    <3>2. Due(j, at)'
      BY <1>d, <2>2, <3>1
    <3> QED
      BY <1>1, <3>1, <3>2, DueOfCall
  <2>3. call[u].admits => call[u].pc = "commit"
    BY <1>t DEF TabOnSchedule
  <2> QED
    BY <1>1, <2>1, <2>2, <2>3 DEF TabOnSchedule, ReleasedBatches
<1>2. CASE call'[u].pc \notin {"ordinal", "admit"} /\ ~call'[u].admits
  BY <1>2 DEF TabOnSchedule
<1>3. CASE ReadAnchor(u)
  <2>1. PICK i \in Members :
          call' = [call EXCEPT
            ![u].pc = "ordinal",
            ![u].released = ReleasedBatches(rows[i].joinedAt, call[u].at)]
    BY <1>3 DEF ReadAnchor
  <2>2. /\ call'[u].pc = "ordinal" /\ call'[u].at = call[u].at
        /\ call'[u].released = ReleasedBatches(rows[i].joinedAt, call[u].at)
        /\ call'[u].admits = call[u].admits
    BY <1>t, <2>1 DEF TypeOK, Call
  <2>3. ~call[u].admits
    BY <1>3, <1>t DEF ReadAnchor, At, TabOnSchedule
  <2>4. i \in Members' /\ rows'[i].joinedAt = rows[i].joinedAt
    BY <1>o
  <2>5. call'[u].released = ReleasedBatches(rows'[i].joinedAt, call'[u].at)
    BY <2>2, <2>4
  <2> QED
    BY <2>2, <2>3, <2>4, <2>5 DEF TabOnSchedule, ReleasedBatches
<1>4. CASE ReadOrdinal(u) /\ Goto(u, "admit")
  <2>1. call'[u] = [call[u] EXCEPT !.pc = "admit"]
    BY <1>4, <1>t, GotoElsewhere
  <2>2. /\ call'[u].pc = "admit" /\ call'[u].row = call[u].row
        /\ call'[u].at = call[u].at /\ call'[u].admits = call[u].admits
    BY <1>t, <2>1 DEF Call
  <2>3. ~call[u].admits /\ call[u].pc = "ordinal"
    BY <1>4, <1>t DEF ReadOrdinal, At, TabOnSchedule
  <2>4. ~(BatchNumber(scheduleOrdinal(call[u].row)) > call[u].released)
    <3>1. SUFFICES ASSUME NotAdmitted(u) PROVE FALSE
      BY <1>4 DEF ReadOrdinal
    <3>2. call'[u] = NoCall
      BY <1>t, <3>1, FinishTab DEF NotAdmitted, Refuse
    <3> QED
      BY <2>2, <3>2 DEF NoCall
  <2>5. Due(call[u].row, call[u].at)
    BY <2>3, <2>4, OrdinalIsDue
  <2>6. call[u].row \in Members
    BY <1>t, <2>3 DEF TabInv
  <2>7. PICK j, at : j = call[u].row /\ at = call[u].at
    OBVIOUS
  <2>8. Due(call[u].row, call[u].at)'
    <3>1. j \in Members /\ Due(j, at)
      BY <2>5, <2>6, <2>7
    <3>2. Due(j, at)'
      BY <1>e, <3>1, DueEvolve
    <3> QED
      BY <2>2, <2>7, <3>2, DueOfCall
  <2> QED
    BY <2>2, <2>3, <2>8 DEF TabOnSchedule
<1>5. CASE AdmitOnce(u) /\ call[u].start /\ rows[call[u].row].admittedAt = None
  <2>1. /\ call'[u].pc = "commit" /\ call'[u].row = call[u].row /\ call'[u].at = call[u].at
        /\ call[u].pc = "admit"
    BY <1>5, <1>t DEF AdmitOnce, At, TypeOK, Call
  <2>2. PICK j, at : j = call[u].row /\ at = call[u].at
    OBVIOUS
  <2>3. Due(j, at)'
    BY <1>d, <2>1, <2>2
  <2>4. Due(call[u].row, call[u].at)'
    BY <2>1, <2>2, <2>3, DueOfCall
  <2> QED
    BY <2>1, <2>4 DEF TabOnSchedule
<1>6. \/ call'[u] = call[u]
      \/ call'[u].pc \notin {"ordinal", "admit"} /\ ~call'[u].admits
      \/ ReadAnchor(u)
      \/ ReadOrdinal(u) /\ Goto(u, "admit")
      \/ AdmitOnce(u) /\ call[u].start /\ rows[call[u].row].admittedAt = None
  <2>1. call[u].pc # "commit" => ~call[u].admits
    BY <1>t DEF TabOnSchedule
  <2>2. ASSUME NEW t \in Tabs, Elsewhere(t), t # u PROVE call'[u] = call[u]
    BY <2>2 DEF Elsewhere
  <2>3. ASSUME NEW t \in Tabs, Finish(t)
        PROVE  \/ call'[u] = call[u]
               \/ call'[u].pc \notin {"ordinal", "admit"} /\ ~call'[u].admits
    BY <1>t, <2>2, <2>3, FinishTab DEF NoCall
  <2>4. ASSUME NEW t \in Tabs, NEW s, Goto(t, s), s \notin {"ordinal", "admit"},
               call[t].pc # "commit"
        PROVE  \/ call'[u] = call[u]
               \/ call'[u].pc \notin {"ordinal", "admit"} /\ ~call'[u].admits
    <3>1. CASE t # u
      BY <1>t, <2>2, <2>4, <3>1, GotoElsewhere
    <3>2. CASE t = u
      <4>1. call'[u] = [call[u] EXCEPT !.pc = s]
        BY <1>t, <2>4, <3>2, GotoElsewhere
      <4>2. call'[u].pc = s /\ call'[u].admits = call[u].admits
        BY <1>t, <4>1 DEF Call
      <4> QED
        BY <2>1, <2>4, <3>2, <4>2
    <3> QED
      BY <3>1, <3>2
  <2>5. ASSUME NEW t \in Tabs, NEW s, Goto(t, s), t # u PROVE call'[u] = call[u]
    BY <1>t, <2>2, <2>5, GotoElsewhere
  <2>6. CASE UNCHANGED call
    BY <2>6
  <2>7. ASSUME NEW t \in Tabs, Poll(t) \/ StartRequest(t)
        PROVE  \/ call'[u] = call[u]
               \/ call'[u].pc \notin {"ordinal", "admit"} /\ ~call'[u].admits
    BY <1>t, <2>7 DEF Poll, StartRequest, TypeOK, NoCall
  <2>8. ASSUME NEW t \in Tabs, CheckAttempt(t) \/ JoinActive(t) \/ StartLock(t) PROVE <1>6
    BY <2>3, <2>4, <2>8 DEF CheckAttempt, JoinActive, StartLock, At
  <2>9. ASSUME NEW t \in Tabs, JoinReread(t) PROVE <1>6
    <3>1. CASE call' = [call EXCEPT ![t].pc = "join", ![t].tries = @ + 1]
      BY <1>t, <2>1, <2>9, <3>1 DEF JoinReread, At, TypeOK, Call
    <3> QED
      BY <2>3, <2>4, <2>9, <3>1 DEF JoinReread, At
  <2>10. ASSUME NEW t \in Tabs, FindActive(t) PROVE <1>6
    <3>1. ASSUME NEW i, call' = [call EXCEPT ![t].pc = "anchor", ![t].row = i] PROVE <1>6
      BY <1>t, <2>1, <2>10, <3>1 DEF FindActive, At, TypeOK, Call
    <3> QED
      BY <2>3, <2>4, <2>10, <3>1 DEF FindActive, At, NotAdmitted, Refuse
  <2>11. ASSUME NEW t \in Tabs, ReadAnchor(t) PROVE <1>6
    BY <1>t, <2>11 DEF ReadAnchor, TypeOK
  <2>12. ASSUME NEW t \in Tabs, ReadOrdinal(t) PROVE <1>6
    BY <2>3, <2>5, <2>12 DEF ReadOrdinal, NotAdmitted, Refuse
  <2>13. ASSUME NEW t \in Tabs, AdmitOnce(t) PROVE <1>6
    <3>1. CASE Finish(t)
      BY <2>3, <3>1
    <3>2. CASE /\ call[t].start /\ rows[call[t].row].admittedAt = None
               /\ call' = [call EXCEPT ![t].pc = "commit", ![t].admits = TRUE]
      BY <1>t, <2>13, <3>2 DEF TypeOK
    <3> QED
      BY <2>13, <3>1, <3>2 DEF AdmitOnce, Refuse
  <2>14. ASSUME NEW t \in Tabs, StartCommit(t) \/ CutOff(t) PROVE <1>6
    BY <2>3, <2>14 DEF StartCommit, CutOff
  <2> QED
    BY <2>6, <2>7, <2>8, <2>9, <2>10, <2>11, <2>12, <2>13, <2>14
       DEF Next, Step, EndAttempt, Tick, vars
<1> QED
  BY <1>1, <1>2, <1>3, <1>4, <1>5, <1>6

\* Every admission that is written was due when it was decided.
LEMMA AdmissionsOnScheduleStep ==
  ASSUME IInv, [Next]_vars
  PROVE  (\A j \in Members : rows[j].admittedAt # None => Due(j, rows[j].admittedAt))'
<1>e. RowsEvolve
  BY RowsEvolveStep
<1>s. \A j \in Members : rows[j].admittedAt # None => Due(j, rows[j].admittedAt)
  BY DEF IInv, ScheduleInv
<1> SUFFICES ASSUME NEW CONSTANT j, NEW CONSTANT at,
                    j \in Members', rows'[j].admittedAt = at, at # None
             PROVE  Due(j, at)'
  BY DEF Due, AheadAtJoin, Ahead, Members, BatchNumber, ReleasedBatches
<1>1. CASE j \in Members /\ rows[j].admittedAt = at
  BY <1>1, <1>e, <1>s, DueEvolve
<1>2. ASSUME NEW t \in Tabs, JoinActive(t), rows' # rows
      PROVE  j \in Members /\ rows[j].admittedAt = at
  <2>1. PICK i \in Ids \ Members :
          /\ Members' = Members \cup {i}
          /\ \A m \in Members : rows'[m] = rows[m]
          /\ rows'[i] = [candidate |-> Cand(t), joinedAt |-> call[t].at,
               admittedAt |-> None, consumedAt |-> None, attempt |-> None,
               joinOrder |-> Cardinality(Members)]
    BY <1>2, JoinRows
  <2>2. rows'[i].admittedAt = None
    BY <2>1
  <2> QED
    BY <2>1, <2>2
<1>3. ASSUME NEW t \in Tabs, AdmitOnce(t), rows' # rows PROVE Due(j, at)'
  <2>1. /\ call[t].row \in Members /\ Members' = Members
        /\ \A m \in Members \ {call[t].row} : rows'[m] = rows[m]
        /\ rows'[call[t].row] = [rows[call[t].row] EXCEPT !.admittedAt = call[t].at]
    BY <1>3, AdmitRows
  <2>2. CASE j # call[t].row
    BY <1>1, <2>1, <2>2
  <2>3. CASE j = call[t].row
    <3>1. rows[j] \in Membership
      BY <2>1, <2>3, MemberType DEF IInv
    <3>2. at = call[t].at
      BY <2>1, <2>3, <3>1 DEF Membership
    <3>3. Due(j, at)
      BY <1>3, <2>3, <3>2 DEF AdmitOnce, At, IInv, ScheduleInv, TabOnSchedule
    <3> QED
      BY <1>e, <2>1, <2>3, <3>3, DueEvolve
  <2> QED
    BY <2>2, <2>3
<1>4. ASSUME NEW t \in Tabs, StartCommit(t) PROVE Due(j, at)'
  <2>1. PICK i \in Members :
          /\ call[t].admits => call[t].row = i
          /\ Members' = Members
          /\ \A m \in Members \ {i} : rows'[m] = rows[m]
          /\ rows'[i] = [rows[i] EXCEPT
               !.admittedAt = IF call[t].admits THEN call[t].at ELSE @,
               !.consumedAt = call[t].at, !.attempt = attemptCount[Cand(t)] + 1]
    BY <1>4, CommitRows
  <2>2. rows[i] \in Membership
    BY MemberType DEF IInv
  <2>3. rows'[i].admittedAt = IF call[t].admits THEN call[t].at ELSE rows[i].admittedAt
    BY <2>1, <2>2 DEF Membership
  <2>4. CASE j # i \/ ~call[t].admits
    BY <1>1, <2>1, <2>3, <2>4
  <2>5. CASE j = i /\ call[t].admits
    <3>1. Due(j, at)
      BY <2>1, <2>3, <2>5, ZenonT(30) DEF IInv, ScheduleInv, TabOnSchedule
    <3> QED
      BY <1>e, <2>5, <3>1, DueEvolve
  <2> QED
    BY <2>4, <2>5
<1>5. CASE rows' = rows
  BY <1>1, <1>5 DEF Members
<1> QED
  BY <1>1, <1>2, <1>3, <1>4, <1>5, RowsChange

-----------------------------------------------------------------------------
(* Order and time *)

\* No two rows get the same number.
LEMMA NumberedApartStep ==
  ASSUME IInv, [Next]_vars
  PROVE  \A i, j \in Members' : rows'[i].joinOrder = rows'[j].joinOrder => i = j
<1>1. \A i, j \in Members : rows[i].joinOrder = rows[j].joinOrder => i = j
  BY DEF IInv, OrderInv
<1>2. RowsEvolve
  BY RowsEvolveStep
<1>3. CASE Members' = Members
  BY <1>1, <1>2, <1>3 DEF RowsEvolve
<1>4. ASSUME NEW t \in Tabs, JoinActive(t), rows' # rows
      PROVE  \A i, j \in Members' : rows'[i].joinOrder = rows'[j].joinOrder => i = j
  <2>1. PICK k \in Ids \ Members : Members' = Members \cup {k}
    BY <1>4, JoinRows
  <2>2. rows'[k].joinOrder = Cardinality(Members)
    BY <1>2, <2>1 DEF RowsEvolve
  <2>3. \A i \in Members : /\ rows'[i].joinOrder = rows[i].joinOrder
                           /\ rows[i].joinOrder \in Nat
                           /\ rows[i].joinOrder < Cardinality(Members)
    BY <1>2, MemberType DEF RowsEvolve, IInv, Membership, ScheduleInv
  <2> QED
    BY <1>1, <2>1, <2>2, <2>3, MembersFinite
<1>5. ASSUME NEW t \in Tabs, AdmitOnce(t), rows' # rows PROVE Members' = Members
  BY <1>5, AdmitRows
<1>6. ASSUME NEW t \in Tabs, StartCommit(t) PROVE Members' = Members
  BY <1>6, CommitRows
<1>7. rows' = rows => Members' = Members
  BY DEF Members
<1> QED
  BY <1>3, <1>4, <1>5, <1>6, <1>7, RowsChange

\* A request is dated when it is made.
LEMMA CallTimes ==
  ASSUME TypeOK, [Next]_vars, NEW u \in Tabs
  PROVE  call'[u].at \in {call[u].at, 0, now}
<1> USE DEF TypeOK
<1>1. call[u] \in Call /\ NoCall.at = 0
  BY DEF NoCall
<1>2. ASSUME NEW t \in Tabs, NEW c, call' = [call EXCEPT ![t] = c],
             c.at \in {call[t].at, 0, now}
      PROVE  call'[u].at \in {call[u].at, 0, now}
  BY <1>2
<1>3. \A t \in Tabs : Finish(t) => call'[u].at \in {call[u].at, 0, now}
  BY <1>1, <1>2 DEF Finish
<1>4. ASSUME NEW t \in Tabs, NEW s, Goto(t, s)
      PROVE  call'[u].at \in {call[u].at, 0, now}
  <2>1. [call[t] EXCEPT !.pc = s].at = call[t].at
    BY DEF Call
  <2> QED
    BY <1>2, <1>4, <2>1 DEF Goto
<1>5. ASSUME NEW t \in Tabs, Poll(t) \/ StartRequest(t)
      PROVE  call'[u].at \in {call[u].at, 0, now}
  <2>1. CASE Poll(t)
    <3>1. [NoCall EXCEPT !.pc = "check", !.at = now].at = now
      BY DEF NoCall
    <3> QED
      BY <1>2, <2>1, <3>1 DEF Poll
  <2>2. CASE StartRequest(t)
    <3>1. [NoCall EXCEPT !.pc = "lock", !.start = TRUE, !.at = now].at = now
      BY DEF NoCall
    <3> QED
      BY <1>2, <2>2, <3>1 DEF StartRequest
  <2> QED
    BY <1>5, <2>1, <2>2
<1>6. ASSUME NEW t \in Tabs, CheckAttempt(t) \/ JoinActive(t) \/ StartLock(t)
      PROVE  call'[u].at \in {call[u].at, 0, now}
  BY <1>3, <1>4, <1>6 DEF CheckAttempt, JoinActive, StartLock
<1>7. ASSUME NEW t \in Tabs, JoinReread(t)
      PROVE  call'[u].at \in {call[u].at, 0, now}
  <2>1. [call[t] EXCEPT !.pc = "join", !.tries = @ + 1].at = call[t].at
    BY DEF Call
  <2>2. \/ \E s : Goto(t, s)
        \/ Finish(t)
        \/ call' = [call EXCEPT ![t] = [call[t] EXCEPT !.pc = "join", !.tries = @ + 1]]
    BY <1>7 DEF JoinReread
  <2> QED
    BY <1>2, <1>3, <1>4, <2>1, <2>2
<1>8. ASSUME NEW t \in Tabs, FindActive(t)
      PROVE  call'[u].at \in {call[u].at, 0, now}
  <2>1. \A i : [call[t] EXCEPT !.pc = "anchor", !.row = i].at = call[t].at
    BY DEF Call
  <2>2. \/ \E s : Goto(t, s)
        \/ Finish(t)
        \/ \E i : call' = [call EXCEPT ![t] = [call[t] EXCEPT !.pc = "anchor", !.row = i]]
    BY <1>8 DEF FindActive, NotAdmitted, Refuse
  <2> QED
    BY <1>2, <1>3, <1>4, <2>1, <2>2
<1>9. ASSUME NEW t \in Tabs, ReadAnchor(t)
      PROVE  call'[u].at \in {call[u].at, 0, now}
  <2>1. \A n : [call[t] EXCEPT !.pc = "ordinal", !.released = n].at = call[t].at
    BY DEF Call
  <2>2. \E n : call' = [call EXCEPT ![t] = [call[t] EXCEPT !.pc = "ordinal", !.released = n]]
    BY <1>9 DEF ReadAnchor
  <2> QED
    BY <1>2, <2>1, <2>2
<1>10. ASSUME NEW t \in Tabs, ReadOrdinal(t) \/ StartCommit(t) \/ CutOff(t)
       PROVE  call'[u].at \in {call[u].at, 0, now}
  BY <1>3, <1>4, <1>10 DEF ReadOrdinal, NotAdmitted, Refuse, StartCommit, CutOff
<1>11. ASSUME NEW t \in Tabs, AdmitOnce(t)
       PROVE  call'[u].at \in {call[u].at, 0, now}
  <2>1. [call[t] EXCEPT !.pc = "commit", !.admits = TRUE].at = call[t].at
    BY DEF Call
  <2>2. \/ Finish(t)
        \/ call' = [call EXCEPT ![t] = [call[t] EXCEPT !.pc = "commit", !.admits = TRUE]]
    BY <1>11 DEF AdmitOnce, Refuse
  <2> QED
    BY <1>2, <1>3, <2>1, <2>2
<1>12. call' = call => call'[u].at \in {call[u].at, 0, now}
  OBVIOUS
<1> QED
  BY <1>5, <1>6, <1>7, <1>8, <1>9, <1>10, <1>11, <1>12
     DEF Next, Step, EndAttempt, Tick, vars

\* The clock never goes back.
LEMMA ClockStep ==
  ASSUME TypeOK, [Next]_vars
  PROVE  now' \in Nat /\ now <= now'
<1>1. now' = now \/ now' = now + 1
  BY DEF Next, Step, vars, Poll, StartRequest, CheckAttempt, JoinActive, JoinReread,
         StartLock, FindActive, ReadAnchor, ReadOrdinal, AdmitOnce, StartCommit,
         CutOff, EndAttempt, Tick
<1> QED
  BY <1>1 DEF TypeOK

\* Whenever an admission is written, it is dated with a request's time.
LEMMA AdmissionTimes ==
  ASSUME IInv, [Next]_vars, NEW j \in Members', rows'[j].admittedAt # None
  PROVE  \/ j \in Members /\ rows[j].admittedAt # None
            /\ rows'[j].admittedAt = rows[j].admittedAt
         \/ \E t \in Tabs : rows'[j].admittedAt = call[t].at
<1>1. CASE j \in Members /\ rows[j].admittedAt # None
  BY <1>1, RowsEvolveStep DEF RowsEvolve
<1>2. CASE j \in Members /\ rows[j].admittedAt = None
  <2>1. rows'[j] # rows[j] /\ rows' # rows /\ rows[j] \in Membership
    BY <1>2, MemberType DEF IInv
  <2>2. ASSUME NEW t \in Tabs, JoinActive(t) PROVE FALSE
    BY <1>2, <2>1, <2>2, JoinRows
  <2>3. ASSUME NEW t \in Tabs, AdmitOnce(t) PROVE rows'[j].admittedAt = call[t].at
    BY <1>2, <2>1, <2>3, AdmitRows DEF Membership
  <2>4. ASSUME NEW t \in Tabs, StartCommit(t) PROVE rows'[j].admittedAt = call[t].at
    <3>1. PICK i \in Members :
            /\ ~call[t].admits => rows[i].admittedAt # None
            /\ \A m \in Members \ {i} : rows'[m] = rows[m]
            /\ rows'[i] = [rows[i] EXCEPT
                 !.admittedAt = IF call[t].admits THEN call[t].at ELSE @,
                 !.consumedAt = call[t].at, !.attempt = attemptCount[Cand(t)] + 1]
      BY <2>4, CommitRows
    <3>2. i = j /\ call[t].admits
      BY <1>2, <2>1, <3>1
    <3>3. rows'[j] = [rows[j] EXCEPT
            !.admittedAt = IF call[t].admits THEN call[t].at ELSE @,
            !.consumedAt = call[t].at, !.attempt = attemptCount[Cand(t)] + 1]
      BY <3>1, <3>2
    <3>4. rows'[j].admittedAt = IF call[t].admits THEN call[t].at ELSE rows[j].admittedAt
      BY <2>1, <3>3 DEF Membership
    <3> QED
      BY <3>2, <3>4
  <2> QED
    BY <2>1, <2>2, <2>3, <2>4, RowsChange
<1>3. CASE j \notin Members
  <2>1. rows' # rows
    BY <1>3 DEF Members
  <2>2. ASSUME NEW t \in Tabs, JoinActive(t) PROVE FALSE
    <3>1. PICK i \in Ids \ Members :
            /\ Members' = Members \cup {i}
            /\ rows'[i] = [candidate |-> Cand(t), joinedAt |-> call[t].at,
                 admittedAt |-> None, consumedAt |-> None, attempt |-> None,
                 joinOrder |-> Cardinality(Members)]
      BY <2>1, <2>2, JoinRows
    <3> QED
      BY <1>3, <3>1
  <2>3. ASSUME NEW t \in Tabs, AdmitOnce(t) \/ StartCommit(t) PROVE Members' = Members
    BY <2>1, <2>3, AdmitRows, CommitRows
  <2> QED
    BY <1>3, <2>1, <2>2, <2>3, RowsChange
<1> QED
  BY <1>1, <1>2, <1>3

\* Every step keeps the numbers apart and the dates in the past.
LEMMA OrderStep ==
  ASSUME IInv, [Next]_vars
  PROVE  OrderInv'
<1>1. TypeOK /\ OrderInv
  BY DEF IInv
<1>2. now \in Nat /\ now' \in Nat /\ now <= now'
  BY <1>1, ClockStep DEF TypeOK
<1>3. ASSUME NEW u \in Tabs PROVE call'[u].at <= now'
  <2>1. call'[u].at \in {call[u].at, 0, now} /\ call[u].at \in Nat /\ call[u].at <= now
    BY <1>1, CallTimes DEF OrderInv, TypeOK, Call
  <2> QED
    BY <1>2, <2>1
<1>4. ASSUME NEW j \in Members', rows'[j].admittedAt # None
      PROVE  rows'[j].admittedAt <= now'
  <2>1. CASE /\ j \in Members /\ rows[j].admittedAt # None
             /\ rows'[j].admittedAt = rows[j].admittedAt
    <3>1. rows[j].admittedAt \in Nat /\ rows[j].admittedAt <= now
      BY <1>1, <2>1, MemberType DEF OrderInv, Membership
    <3> QED
      BY <1>2, <2>1, <3>1
  <2>2. ASSUME NEW t \in Tabs, rows'[j].admittedAt = call[t].at
        PROVE  rows'[j].admittedAt <= now'
    <3>1. call[t].at \in Nat /\ call[t].at <= now
      BY <1>1 DEF OrderInv, TypeOK, Call
    <3> QED
      BY <1>2, <2>2, <3>1
  <2> QED
    BY <1>4, <2>1, <2>2, AdmissionTimes
<1> QED
  BY <1>3, <1>4, NumberedApartStep DEF OrderInv

-----------------------------------------------------------------------------
(* The theorems *)

\* The invariant holds initially.
LEMMA InvInit ==
  Init => IInv
<1> SUFFICES ASSUME Init PROVE IInv
  OBVIOUS
<1>1. TypeOK
  BY TypeInit
<1>2. Members = {}
  BY DEF Init, Members
<1>3. CallInv
  BY DEF Init, CallInv, TabInv, NoCall, InTransaction
<1>4. \A c \in Candidates : 1..attemptCount[c] = {}
  BY DEF Init
<1>5. LedgerInv
  BY <1>2, <1>4 DEF LedgerInv, AttemptsAdmitted
<1>6. ScheduleInv
  BY <1>2 DEF ScheduleInv, TabOnSchedule, Init, NoCall
<1>7. OrderInv
  BY <1>2 DEF OrderInv, Init, NoCall
<1> QED
  BY <1>1, <1>3, <1>5, <1>6, <1>7 DEF IInv

\* Every step preserves the invariant.
LEMMA InvStep ==
  IInv /\ [Next]_vars => IInv'
<1> SUFFICES ASSUME IInv, [Next]_vars PROVE IInv'
  OBVIOUS
<1>1. TypeOK'
  BY TypeStep DEF IInv
<1>2. CallInv' /\ LedgerInv'
  BY CallInvStep, LedgerStep
<1>3. ScheduleInv'
  BY JoinOrderStep, TabsOnScheduleStep, AdmissionsOnScheduleStep DEF ScheduleInv
<1>4. OrderInv'
  BY OrderStep
<1> QED
  BY <1>1, <1>2, <1>3, <1>4 DEF IInv

\* The invariant holds in every reachable state.
LEMMA Inductive ==
  Spec => []IInv
BY InvInit, InvStep, PTL DEF Spec

\* The rows of exam_admissions and the locals of the handlers keep their types.
THEOREM TypeCorrect ==
  Spec => []TypeOK
<1>1. IInv => TypeOK
  BY DEF IInv
<1> QED
  BY <1>1, Inductive, PTL

\* Attempts and consumed memberships correspond one to one, and each membership
\* was admitted first: the gate and the consumption in the start transaction
\* hold against any number of tabs, polls, rollbacks and retakes.
THEOREM EveryAttemptAdmitted ==
  Spec => []AttemptsAdmitted
<1>1. IInv => AttemptsAdmitted
  BY DEF IInv, LedgerInv
<1> QED
  BY <1>1, Inductive, PTL

\* reconcileAdmission never admits ahead of the schedule, although it decides on
\* reads that are statements old.
THEOREM NobodyAheadOfSchedule ==
  Spec => []AdmittedOnSchedule
<1>1. IInv => AdmittedOnSchedule
  BY DEF IInv, ScheduleInv, AdmittedOnSchedule, Due
<1> QED
  BY <1>1, Inductive, PTL

\* While joins are committed in the order of their times, the released batches
\* hold everyone admitted: the admitted member that joined last has all the
\* others ahead, and was admitted no earlier than its ordinal's batch.
THEOREM BatchCapCorrect ==
  Spec => []BatchCapHeld
<1>1. IInv => BatchCapHeld
  <2> SUFFICES ASSUME IInv, JoinsInOrder, Admitted # {}
               PROVE  \E i \in Members :
                        Cardinality(Admitted)
                          <= BatchSize * ReleasedBatches(rows[i].joinedAt, now)
    BY DEF BatchCapHeld
  <2> DEFINE order == [i \in Admitted |-> rows[i].joinOrder]
  <2>1. Admitted \subseteq Members /\ IsFiniteSet(Admitted)
    BY MembersFinite, FS_Subset DEF Admitted
  <2>2. \A i \in Members : rows[i] \in Membership /\ rows[i].joinOrder \in Nat
    BY MemberType DEF IInv, Membership
  <2>3. PICK j \in Admitted : \A i \in Admitted : rows[i].joinOrder <= rows[j].joinOrder
    <3>1. \A i \in Admitted : order[i] = rows[i].joinOrder /\ order[i] \in Nat
      BY <2>1, <2>2
    <3> HIDE DEF order
    <3>2. \E j \in Admitted : \A i \in Admitted : order[i] <= order[j]
      BY <2>1, <3>1, LastOfFinite
    <3> QED
      BY <3>1, <3>2
  <2>4. Admitted \ {j} \subseteq AheadAtJoin(j)
    <3>1. ASSUME NEW i \in Admitted, i # j PROVE i \in AheadAtJoin(j)
      <4>1. rows[i].joinOrder # rows[j].joinOrder
        BY <2>1, <3>1 DEF IInv, OrderInv
      <4>2. rows[i].joinOrder < rows[j].joinOrder
        BY <2>1, <2>2, <2>3, <3>1, <4>1
      <4> QED
        BY <2>1, <3>1, <4>2 DEF JoinsInOrder, AheadAtJoin
    <3> QED
      BY <3>1
  <2> DEFINE n == Cardinality(AheadAtJoin(j))
  <2>5. IsFiniteSet(AheadAtJoin(j)) /\ n \in Nat
    BY MembersFinite, FS_Subset, FS_CardinalityType DEF AheadAtJoin
  <2>6. Cardinality(Admitted) <= n + 1
    <3>1. Cardinality(Admitted \ {j}) = Cardinality(Admitted) - 1
      BY <2>1, FS_RemoveElement
    <3>2. Cardinality(Admitted \ {j}) <= n
      BY <2>4, <2>5, FS_Subset
    <3>3. Cardinality(Admitted) \in Nat
      BY <2>1, FS_CardinalityType
    <3> HIDE DEF n
    <3> QED
      BY <2>5, <3>1, <3>2, <3>3
  <2>7. /\ rows[j].admittedAt \in Nat /\ rows[j].admittedAt <= now /\ now \in Nat
        /\ Due(j, rows[j].admittedAt)
    BY <2>1, <2>2 DEF Admitted, IInv, OrderInv, ScheduleInv, TypeOK, Membership
  <2>8. PICK i \in Members :
          BatchNumber(n + 1) <= ReleasedBatches(rows[i].joinedAt, rows[j].admittedAt)
    BY <2>7 DEF Due
  <2> DEFINE released == ReleasedBatches(rows[i].joinedAt, now)
  <2>9. rows[i].joinedAt \in Nat
    BY <2>2 DEF Membership
  <2>10. /\ ReleasedBatches(rows[i].joinedAt, rows[j].admittedAt) <= released
         /\ ReleasedBatches(rows[i].joinedAt, rows[j].admittedAt) \in Nat
         /\ released \in Nat
    BY <2>7, <2>9, ReleasedMonotone, ReleasedType
  <2> HIDE DEF released, n
  <2>11. BatchNumber(n + 1) \in Int
    <3>1. n + 1 + BatchSize - 1 \in Nat
      BY <2>5, AdmissionAssumption
    <3> QED
      BY <3>1, AdmissionAssumption DEF BatchNumber
  <2>12. BatchNumber(n + 1) <= released
    BY <2>8, <2>10, <2>11
  <2>13. n + 1 <= BatchSize * released
    BY <2>5, <2>10, <2>12, BatchHolds
  <2>14. BatchSize * released \in Nat /\ Cardinality(Admitted) \in Nat
    BY <2>1, <2>10, FS_CardinalityType, AdmissionAssumption, SMT
  <2>15. Cardinality(Admitted) <= BatchSize * released
    <3> DEFINE cap == BatchSize * released
    <3>1. cap \in Nat /\ n + 1 <= cap
      BY <2>13, <2>14
    <3> HIDE DEF cap
    <3>2. Cardinality(Admitted) <= cap
      BY <2>5, <2>6, <2>14, <3>1
    <3> QED
      BY <3>2 DEF cap
  <2> QED
    BY <2>15 DEF released
<1> QED
  BY <1>1, Inductive, PTL

\* admitOnce and consumeActive write once.
THEOREM WrittenOnce ==
  Spec => AdmissionWrittenOnce
<1>1. IInv /\ [Next]_vars =>
        [\A i \in Members :
           /\ rows'[i] # None
           /\ rows'[i].candidate = rows[i].candidate /\ rows'[i].joinedAt = rows[i].joinedAt
           /\ rows[i].admittedAt # None => rows'[i].admittedAt = rows[i].admittedAt
           /\ rows[i].consumedAt # None => rows'[i] = rows[i]]_vars
  <2> SUFFICES ASSUME IInv, [Next]_vars
               PROVE  \A i \in Members :
                        /\ rows'[i] # None
                        /\ rows'[i].candidate = rows[i].candidate
                        /\ rows'[i].joinedAt = rows[i].joinedAt
                        /\ rows[i].admittedAt # None => rows'[i].admittedAt = rows[i].admittedAt
                        /\ rows[i].consumedAt # None => rows'[i] = rows[i]
    OBVIOUS
  <2>1. RowsEvolve
    BY RowsEvolveStep
  <2>2. \A i \in Members' : rows'[i] # None
    BY DEF Members
  <2> QED
    BY <2>1, <2>2 DEF RowsEvolve
<1> QED
  BY <1>1, Inductive, PTL DEF Spec, AdmissionWrittenOnce
=============================================================================
