--------------------------- MODULE Authority_proofs ---------------------------
(***************************************************************************)
(* Proofs about accounts and role assignments, for any accounts, roles,    *)
(* requests and bounds.                                                    *)
(***************************************************************************)
EXTENDS Authority, FiniteSetTheorems, TLAPS

-----------------------------------------------------------------------------
(* The inductive invariant *)

\* An account without a row has no assignments; its cached role is the primary.
Coherent(row, rows) ==
  /\ row = None => rows = NoAssignments
  /\ \A x \in ActivePrimary(rows) : row # None /\ row.role = x

\* The account administrates, or would if PATCH /candidates/:id enabled it.
Administrates(u, row, rows) ==
  row # None /\ "Admin" \in Active(rows) /\ (row.active \/ u \in Profiled)

Exclusive(u, row, rows) ==
  u \notin Profiled /\ row # None /\ row.active
    => ~("Admin" \in Active(rows) /\ "Maintainer" \in Active(rows))

CoherentAll(us, as) == \A u \in Users : Coherent(us[u], as[u])
SomeAdministrates(us, as) == \E u \in Users : Administrates(u, us[u], as[u])
ExclusiveAll(us, as) == \A u \in Users : Exclusive(u, us[u], as[u])

\* The tables as the transaction of request q sees them.
UsersSeen(us, q) == IF q.writes THEN [us EXCEPT ![q.cmd.user] = q.row] ELSE us
RowsSeen(as, q) == [as EXCEPT ![q.cmd.user] = q.rows]

Locking(q) == q.pc \in {"mutate", "check", "commit"}
Changed(q) == q.pc \in {"check", "commit"}

\* What the handler of a request may rely on, given the tables.
GoodRequest(us, as, q) ==
  /\ q.pc # "idle" => q.cmd \in Command /\ WellFormed(q.cmd)
  /\ Changed(q) => q.cmd.user \notin Profiled \/ us[q.cmd.user] # None
  /\ Changed(q) => CoherentAll(UsersSeen(us, q), RowsSeen(as, q))
  /\ q.pc = "commit" \/ (q.pc = "check" /\ q.cmd.op \in {"create", "assign", "promote", "activate"})
       => SomeAdministrates(UsersSeen(us, q), RowsSeen(as, q))
  /\ q.pc = "commit" => ExclusiveAll(UsersSeen(us, q), RowsSeen(as, q))

GoodTables(us, as) ==
  CoherentAll(us, as) /\ SomeAdministrates(us, as) /\ ExclusiveAll(us, as)

IInv ==
  /\ TypeOK
  /\ \A r \in Requests : Locking(req[r]) => lock = r
  /\ GoodTables(user, asg)
  /\ \A r \in Requests : GoodRequest(user, asg, req[r])

-----------------------------------------------------------------------------
(* The rows of one account *)

\* What the handlers demote, disable or enable are rows of the account.
LEMMA RowsTyped ==
  ASSUME NEW a \in Assignments
  PROVE  /\ \A x \in Rows(a) : x \in Roles /\ a[x] \in Assignment /\ a[x] # None
         /\ \A x \in Roles : x \notin Rows(a) => a[x] = None
         /\ \A x \in Active(a) : x \in Rows(a) /\ a[x].active
         /\ \A x \in ActivePrimary(a) : x \in Rows(a) /\ a[x].active /\ a[x].primary
         /\ Flagged(a) \subseteq Rows(a) /\ ActivePrimary(a) \subseteq Rows(a)
BY AuthorityAssumption DEF Assignments, Rows, Active, Flagged, ActivePrimary

\* Demoting changes no active role.
LEMMA DemoteRows ==
  ASSUME NEW a \in Assignments, NEW S, S \subseteq Rows(a)
  PROVE  /\ Demote(a, S) \in Assignments
         /\ Rows(Demote(a, S)) = Rows(a)
         /\ Active(Demote(a, S)) = Active(a)
         /\ ActivePrimary(Demote(a, S)) \subseteq ActivePrimary(a)
         /\ \A x \in Roles : Demote(a, S)[x] # None => Demote(a, S)[x].active = a[x].active
<1>1. \A x \in Roles : /\ Demote(a, S)[x] \in Assignment \cup {None}
                       /\ Demote(a, S)[x] = None <=> a[x] = None
                       /\ a[x] # None => Demote(a, S)[x].active = a[x].active
                       /\ a[x] # None /\ Demote(a, S)[x].primary => a[x].primary
  <2> SUFFICES ASSUME NEW x \in Roles
               PROVE  /\ Demote(a, S)[x] \in Assignment \cup {None}
                      /\ Demote(a, S)[x] = None <=> a[x] = None
                      /\ a[x] # None => Demote(a, S)[x].active = a[x].active
                      /\ a[x] # None /\ Demote(a, S)[x].primary => a[x].primary
    OBVIOUS
  <2>1. CASE x \in S
    <3>1. a[x] \in Assignment /\ a[x] # None
      BY <2>1, RowsTyped
    <3>2. Demote(a, S)[x] = [a[x] EXCEPT !.primary = FALSE]
      BY <2>1 DEF Demote
    <3>3. /\ [a[x] EXCEPT !.primary = FALSE] \in Assignment
          /\ [a[x] EXCEPT !.primary = FALSE].primary = FALSE
          /\ [a[x] EXCEPT !.primary = FALSE].active = a[x].active
      BY <3>1 DEF Assignment
    <3> QED BY <3>1, <3>2, <3>3, AuthorityAssumption
  <2>2. CASE x \notin S
    BY <2>2 DEF Demote, Assignments
  <2> QED BY <2>1, <2>2
<1>2. Demote(a, S) \in Assignments
  BY <1>1 DEF Demote, Assignments
<1>3. Rows(Demote(a, S)) = Rows(a)
  BY <1>1 DEF Rows
<1>4. Active(Demote(a, S)) = Active(a)
  BY <1>1, <1>3 DEF Active, Rows
<1>5. ActivePrimary(Demote(a, S)) \subseteq ActivePrimary(a)
  BY <1>1, <1>3, <1>4 DEF ActivePrimary, Flagged, Rows
<1> QED BY <1>1, <1>2, <1>3, <1>4, <1>5

\* Disabling makes no role primary.
LEMMA DisableRows ==
  ASSUME NEW a \in Assignments, NEW S, S \subseteq Rows(a)
  PROVE  /\ Disable(a, S) \in Assignments
         /\ Rows(Disable(a, S)) = Rows(a)
         /\ ActivePrimary(Disable(a, S)) \subseteq ActivePrimary(a)
<1>1. \A x \in Roles : /\ Disable(a, S)[x] \in Assignment \cup {None}
                       /\ Disable(a, S)[x] = None <=> a[x] = None
                       /\ a[x] # None /\ Disable(a, S)[x].active => a[x].active
                       /\ a[x] # None => Disable(a, S)[x].primary = a[x].primary
  <2> SUFFICES ASSUME NEW x \in Roles
               PROVE  /\ Disable(a, S)[x] \in Assignment \cup {None}
                      /\ Disable(a, S)[x] = None <=> a[x] = None
                      /\ a[x] # None /\ Disable(a, S)[x].active => a[x].active
                      /\ a[x] # None => Disable(a, S)[x].primary = a[x].primary
    OBVIOUS
  <2>1. CASE x \in S
    <3>1. a[x] \in Assignment /\ a[x] # None
      BY <2>1, RowsTyped
    <3>2. Disable(a, S)[x] = [a[x] EXCEPT !.active = FALSE]
      BY <2>1 DEF Disable
    <3>3. /\ [a[x] EXCEPT !.active = FALSE] \in Assignment
          /\ [a[x] EXCEPT !.active = FALSE].active = FALSE
          /\ [a[x] EXCEPT !.active = FALSE].primary = a[x].primary
      BY <3>1 DEF Assignment
    <3> QED BY <3>1, <3>2, <3>3, AuthorityAssumption
  <2>2. CASE x \notin S
    BY <2>2 DEF Disable, Assignments
  <2> QED BY <2>1, <2>2
<1>2. Disable(a, S) \in Assignments
  BY <1>1 DEF Disable, Assignments
<1>3. Rows(Disable(a, S)) = Rows(a)
  BY <1>1 DEF Rows
<1>4. ActivePrimary(Disable(a, S)) \subseteq ActivePrimary(a)
  BY <1>1, <1>3 DEF ActivePrimary, Active, Flagged, Rows
<1> QED BY <1>2, <1>3, <1>4

\* Enabling one role leaves the others.
LEMMA EnableRow ==
  ASSUME NEW a \in Assignments, NEW x \in Rows(a)
  PROVE  Enable(a, x) \in Assignments /\ Active(a) \subseteq Active(Enable(a, x))
<1>1. x \in Roles /\ a[x] \in Assignment /\ a[x] # None
  BY RowsTyped
<1>2. Enable(a, x) \in Assignments
  BY <1>1 DEF Enable, Assignments, Assignment
<1>3. ASSUME NEW y \in Active(a) PROVE y \in Active(Enable(a, x))
  <2>1. y \in Roles /\ a[y] # None /\ a[y].active
    BY RowsTyped
  <2>2. CASE y = x
    <3>1. Enable(a, x)[x] = [a[x] EXCEPT !.primary = TRUE, !.active = TRUE]
      BY <1>1 DEF Enable, Assignments
    <3>2. Enable(a, x)[x] \in Assignment /\ Enable(a, x)[x].active
      BY <1>1, <3>1 DEF Assignment
    <3> QED BY <2>2, <1>1, <3>2, AuthorityAssumption DEF Active, Rows
  <2>3. CASE y # x
    BY <2>1, <2>3 DEF Enable, Assignments, Active, Rows
  <2> QED BY <2>2, <2>3
<1> QED BY <1>2, <1>3

\* A new row takes nothing away, and is primary only if it says so.
LEMMA InsertRow ==
  ASSUME NEW a \in Assignments, NEW x \in Roles, NEW p \in BOOLEAN
  PROVE  /\ Insert(a, x, p) \in Assignments
         /\ Insert(a, x, p)[x].primary = p /\ Insert(a, x, p)[x] # None
         /\ x \notin Rows(a) => Active(a) \subseteq Active(Insert(a, x, p))
         /\ ~p => ActivePrimary(Insert(a, x, p)) \subseteq ActivePrimary(a)
<1> DEFINE g == Granted(p, Cardinality(Rows(a)) + 1)
<1>1. Cardinality(Rows(a)) \in Nat
  BY AuthorityAssumption, FS_Subset, FS_CardinalityType DEF Rows
<1>2. g \in Assignment /\ g # None /\ g.primary = p
  <2>1. g \in Assignment /\ g.primary = p
    BY <1>1 DEF Granted, Assignment
  <2> QED BY <2>1, AuthorityAssumption
<1> HIDE DEF g
<1>3. /\ Insert(a, x, p) \in Assignments
      /\ Insert(a, x, p)[x] = g
      /\ \A y \in Roles : y # x => Insert(a, x, p)[y] = a[y]
  <2>1. Insert(a, x, p) = [a EXCEPT ![x] = g]
    BY DEF Insert, g
  <2> QED BY <1>2, <2>1 DEF Assignments
<1>4. x \notin Rows(a) => Active(a) \subseteq Active(Insert(a, x, p))
  BY <1>3, RowsTyped DEF Active, Rows
<1>5. ~p => ActivePrimary(Insert(a, x, p)) \subseteq ActivePrimary(a)
  BY <1>2, <1>3 DEF ActivePrimary, Active, Flagged, Rows
<1> QED BY <1>2, <1>3, <1>4, <1>5

\* assignWithinTransaction
LEMMA AssignRowFacts ==
  ASSUME NEW a \in Assignments, NEW x \in Roles, NEW p \in BOOLEAN
  PROVE  /\ AssignRow(a, x, p) \in Assignments
         /\ AssignRow(a, x, p)[x].primary = p
         /\ a[x] = None => Active(a) \subseteq Active(AssignRow(a, x, p))
         /\ ~p => ActivePrimary(AssignRow(a, x, p)) \subseteq ActivePrimary(a)
<1> DEFINE d == IF p THEN Demote(a, Flagged(a)) ELSE a
<1>1. d \in Assignments /\ Rows(d) = Rows(a) /\ Active(d) = Active(a)
  BY DemoteRows, RowsTyped
<1>2. AssignRow(a, x, p) = Insert(d, x, p)
  BY DEF AssignRow
<1>3. a[x] = None => x \notin Rows(d)
  BY <1>1 DEF Rows
<1> HIDE DEF d
<1>4. /\ Insert(d, x, p) \in Assignments /\ Insert(d, x, p)[x].primary = p
      /\ a[x] = None => Active(a) \subseteq Active(Insert(d, x, p))
      /\ ~p => ActivePrimary(Insert(d, x, p)) \subseteq ActivePrimary(d)
  BY <1>1, <1>3, InsertRow
<1>5. ~p => d = a
  BY DEF d
<1> QED BY <1>2, <1>4, <1>5
\* ensurePrimaryAssignmentWithinTransaction
LEMMA EnsurePrimaryTyped ==
  ASSUME NEW a \in Assignments, NEW x \in Roles
  PROVE  EnsurePrimary(a, x) \in Assignments
<1> DEFINE d == Demote(a, ActivePrimary(a))
<1>1. d \in Assignments /\ Rows(d) = Rows(a)
  BY DemoteRows, RowsTyped
<1>2. EnsurePrimary(a, x) = IF x \in Rows(a) THEN Enable(d, x) ELSE Insert(d, x, TRUE)
  BY DEF EnsurePrimary
<1> HIDE DEF d
<1>3. x \in Rows(a) => Enable(d, x) \in Assignments
  BY <1>1, EnableRow
<1>4. Insert(d, x, TRUE) \in Assignments
  BY <1>1, InsertRow
<1> QED BY <1>2, <1>3, <1>4

\* replacePrimaryRoleWithinTransaction
LEMMA ReplacePrimaryTyped ==
  ASSUME NEW a \in Assignments, NEW x \in Roles
  PROVE  ReplacePrimary(a, x) \in Assignments
<1>1. Disable(a, ActivePrimary(a)) \in Assignments
  BY DisableRows, RowsTyped
<1> QED BY <1>1, EnsurePrimaryTyped DEF ReplacePrimary

\* setPrimaryWithinTransaction disables no role.
LEMMA SetPrimaryFacts ==
  ASSUME NEW a \in Assignments, NEW x \in Rows(a)
  PROVE  SetPrimary(a, x) \in Assignments /\ Active(a) \subseteq Active(SetPrimary(a, x))
<1> DEFINE d == Demote(a, Flagged(a))
<1>1. d \in Assignments /\ Rows(d) = Rows(a) /\ Active(d) = Active(a)
  BY DemoteRows, RowsTyped
<1>2. SetPrimary(a, x) = Enable(d, x)
  BY DEF SetPrimary
<1> HIDE DEF d
<1> QED BY <1>1, <1>2, EnableRow

\* promoteNextActiveForUser
LEMMA PromoteNextTyped ==
  ASSUME NEW a \in Assignments
  PROVE  PromoteNext(a) \in Assignments
<1>1. ASSUME NEW x \in Oldest(a) PROVE [a[x] EXCEPT !.primary = TRUE] \in Assignment
  <2>1. a[x] \in Assignment
    BY RowsTyped DEF Oldest
  <2> QED BY <2>1 DEF Assignment
<1> QED BY <1>1 DEF PromoteNext, Assignments

\* Deactivating a row that is not primary makes no role primary.
LEMMA DeactivateRowFacts ==
  ASSUME NEW a \in Assignments, NEW x \in Rows(a)
  PROVE  /\ DeactivateRow(a, x) \in Assignments
         /\ ~a[x].primary => ActivePrimary(DeactivateRow(a, x)) \subseteq ActivePrimary(a)
<1> DEFINE d == Disable(a, {x})
<1>1. d \in Assignments /\ ActivePrimary(d) \subseteq ActivePrimary(a)
  BY DisableRows
<1>2. DeactivateRow(a, x) = IF a[x].primary THEN PromoteNext(d) ELSE d
  BY DEF DeactivateRow
<1> HIDE DEF d
<1> QED BY <1>1, <1>2, PromoteNextTyped

\* Activating a row disables no role, and makes one primary only if it has the flag.
LEMMA ActivateRowFacts ==
  ASSUME NEW a \in Assignments, NEW x \in Rows(a), ~a[x].active
  PROVE  /\ ActivateRow(a, x) \in Assignments
         /\ Active(a) \subseteq Active(ActivateRow(a, x))
         /\ ~a[x].primary => ActivePrimary(ActivateRow(a, x)) \subseteq ActivePrimary(a)
<1> DEFINE d == IF a[x].primary THEN Demote(a, ActivePrimary(a)) ELSE a
           e == [d EXCEPT ![x] = [d[x] EXCEPT !.active = TRUE]]
<1>1. d \in Assignments /\ Rows(d) = Rows(a) /\ Active(d) = Active(a)
  BY DemoteRows, RowsTyped
<1>2. ActivateRow(a, x) = e
  BY DEF ActivateRow
<1>3. ~a[x].primary => d = a
  OBVIOUS
<1>4. a[x] \in Assignment /\ x \in Roles
  BY RowsTyped
<1> HIDE DEF d
<1>5. d[x] \in Assignment /\ d[x] # None
  BY <1>1, RowsTyped
<1>6. /\ [d[x] EXCEPT !.active = TRUE] \in Assignment
      /\ [d[x] EXCEPT !.active = TRUE].primary = d[x].primary
      /\ [d[x] EXCEPT !.active = TRUE].active
  BY <1>5 DEF Assignment
<1>7. [d[x] EXCEPT !.active = TRUE] # None
  BY <1>6, AuthorityAssumption
<1>8. /\ e \in Assignments /\ e[x] = [d[x] EXCEPT !.active = TRUE]
      /\ \A y \in Roles : y # x => e[y] = d[y]
  BY <1>1, <1>4, <1>6 DEF Assignments
<1> HIDE DEF e
<1>9. Active(d) \subseteq Active(e)
  BY <1>1, <1>6, <1>7, <1>8, RowsTyped DEF Active, Rows
<1>10. ~a[x].primary => ActivePrimary(e) \subseteq ActivePrimary(a)
  BY <1>3, <1>6, <1>8 DEF ActivePrimary, Active, Flagged, Rows
<1> QED BY <1>1, <1>2, <1>8, <1>9, <1>10

\* Removing a row that is not primary makes no role primary.
LEMMA RemoveRowFacts ==
  ASSUME NEW a \in Assignments, NEW x \in Rows(a)
  PROVE  /\ RemoveRow(a, x) \in Assignments
         /\ ~a[x].primary => ActivePrimary(RemoveRow(a, x)) \subseteq ActivePrimary(a)
<1> DEFINE d == [y \in Roles |->
             CASE y = x -> None
               [] y # x /\ a[y] # None /\ a[y].rank > a[x].rank -> [a[y] EXCEPT !.rank = @ - 1]
               [] OTHER -> a[y]]
<1>1. RemoveRow(a, x) = IF a[x].primary THEN PromoteNext(d) ELSE d
  BY DEF RemoveRow
<1>2. a[x] \in Assignment
  BY RowsTyped
<1>3. ASSUME NEW y \in Roles
      PROVE  /\ d[y] \in Assignment \cup {None}
             /\ d[y] # None => /\ a[y] # None
                                /\ d[y].active = a[y].active
                                /\ d[y].primary = a[y].primary
  <2>1. CASE y # x /\ a[y] # None /\ a[y].rank > a[x].rank
    <3>1. a[y] \in Assignment /\ d[y] = [a[y] EXCEPT !.rank = a[y].rank - 1]
      BY <2>1 DEF Assignments
    <3>2. a[y].rank \in Nat /\ a[x].rank \in Nat
      BY <1>2, <3>1 DEF Assignment
    <3>3. a[y].rank - 1 \in Nat
      BY <2>1, <3>2
    <3>4. /\ [a[y] EXCEPT !.rank = a[y].rank - 1] \in Assignment
          /\ [a[y] EXCEPT !.rank = a[y].rank - 1].active = a[y].active
          /\ [a[y] EXCEPT !.rank = a[y].rank - 1].primary = a[y].primary
      BY <3>1, <3>3 DEF Assignment
    <3> QED BY <2>1, <3>1, <3>4
  <2>2. CASE ~(y # x /\ a[y] # None /\ a[y].rank > a[x].rank)
    BY <2>2 DEF Assignments
  <2> QED BY <2>1, <2>2
<1>4. d \in Assignments
  BY <1>3 DEF Assignments
<1> HIDE DEF d
<1>5. ActivePrimary(d) \subseteq ActivePrimary(a)
  BY <1>3 DEF ActivePrimary, Active, Flagged, Rows
<1> QED BY <1>1, <1>4, <1>5, PromoteNextTyped

\* syncUsersRoleFromPrimary writes the primary role, and only that.
LEMMA SyncedFacts ==
  ASSUME NEW row \in UserRow, NEW a \in Assignments
  PROVE  /\ Synced(row, a) \in UserRow /\ Synced(row, a).active = row.active
         /\ IndexHolds(a) => \A x \in ActivePrimary(a) : Synced(row, a).role = x
<1> DEFINE c == CHOOSE x \in ActivePrimary(a) : TRUE
<1>1. CASE ActivePrimary(a) = {}
  BY <1>1 DEF Synced
<1>2. CASE ActivePrimary(a) # {}
  <2>1. c \in ActivePrimary(a)
    BY <1>2
  <2>2. c \in Roles
    BY <2>1, RowsTyped
  <2>3. Synced(row, a) = [row EXCEPT !.role = c]
    BY <1>2 DEF Synced
  <2> HIDE DEF c
  <2>4. /\ [row EXCEPT !.role = c] \in UserRow /\ [row EXCEPT !.role = c].active = row.active
        /\ [row EXCEPT !.role = c].role = c
    BY <2>2 DEF UserRow
  <2> QED BY <2>1, <2>3, <2>4 DEF IndexHolds
<1> QED BY <1>1, <1>2
-----------------------------------------------------------------------------
(* Requests and tables *)

\* The parts of a command.
LEMMA CommandParts ==
  ASSUME NEW c \in Command
  PROVE  c.op \in Ops /\ c.user \in Users /\ c.role \in Roles \cup {None}
         /\ c.flag \in BOOLEAN \cup {None} /\ c # None
BY AuthorityAssumption DEF Command

\* A request with no handler asks for nothing.
LEMMA IdleGood ==
  /\ Idle \in ReqType
  /\ ~Locking(Idle) /\ ~Changed(Idle)
  /\ \A us, as : GoodRequest(us, as, Idle)
<1>1. NoAssignments \in Assignments
  BY DEF NoAssignments, Assignments
<1>2. Idle \in ReqType
  BY <1>1 DEF Idle, ReqType
<1>3. Idle.pc = "idle"
  BY DEF Idle
<1> QED BY <1>2, <1>3 DEF Locking, Changed, GoodRequest

\* A step of one request that leaves the tables alone, and either gives the lock
\* up or keeps it.
LEMMA RequestStep ==
  ASSUME IInv, NEW r \in Requests, NEW q \in ReqType,
         req' = [req EXCEPT ![r] = q], GoodRequest(user, asg, q),
         UNCHANGED <<user, asg, sent>>,
         \/ lock' = lock /\ (Locking(q) => lock = r)
         \/ ~Locking(q) /\ lock' = IF lock = r THEN None ELSE lock
  PROVE  IInv'
<1>1. TypeOK'
  BY DEF IInv, TypeOK
<1>2. \A s \in Requests : Locking(req'[s]) => lock' = s
  <2> TAKE s \in Requests
  <2>1. CASE s = r
    BY <2>1 DEF IInv, TypeOK
  <2>2. CASE s # r
    BY <2>2 DEF IInv, TypeOK
  <2> QED BY <2>1, <2>2
<1>3. \A s \in Requests : GoodRequest(user, asg, req'[s])
  BY DEF IInv, TypeOK
<1> QED BY <1>1, <1>2, <1>3 DEF IInv

\* A handler that ends or fails needs nothing more.
LEMMA AnswerStep ==
  ASSUME IInv, NEW r \in Requests, Answer(r)
  PROVE  IInv'
BY RequestStep, IdleGood DEF Answer, Release

LEMMA RefusedStep ==
  ASSUME IInv, NEW r \in Requests, req[r].pc \in {"mutate", "check"},
         NEW error \in {"active_primary_unique", "username_unique", "user_foreign_key",
           "role_unique", "profile_foreign_key", "postcondition"},
         Refused(r, error)
  PROVE  IInv'
<1> DEFINE q == [req[r] EXCEPT !.pc = "failed", !.error = error]
<1>1. req[r] \in ReqType /\ GoodRequest(user, asg, req[r])
  BY DEF IInv, TypeOK
<1>2. q \in ReqType /\ q.pc = "failed" /\ q.cmd = req[r].cmd
  BY <1>1 DEF ReqType
<1>3. req' = [req EXCEPT ![r] = q]
  BY DEF Refused, IInv, TypeOK
<1> HIDE DEF q
<1>4. GoodRequest(user, asg, q) /\ ~Locking(q)
  BY <1>1, <1>2 DEF GoodRequest, Locking, Changed
<1> QED BY <1>2, <1>3, <1>4, RequestStep DEF Refused, Release

\* A command that has changed its account: the account stays coherent, and a
\* command that is not checked for it takes no administrator away.
LEMMA WrittenStep ==
  ASSUME IInv, NEW r \in Requests, At(r, "mutate"),
         NEW row \in UserRow \cup {None}, NEW rows \in Assignments, NEW writes \in BOOLEAN,
         Written(r, row, rows, writes),
         NEW seen, seen = IF writes THEN row ELSE user[Target(r)],
         Target(r) \notin Profiled \/ user[Target(r)] # None,
         IndexHolds(rows) => Coherent(seen, rows),
         req[r].cmd.op \in {"create", "assign", "promote", "activate"} =>
           (Administrates(Target(r), user[Target(r)], asg[Target(r)])
              => Administrates(Target(r), seen, rows))
  PROVE  IInv'
<1> DEFINE q == [req[r] EXCEPT !.pc = "check", !.row = row, !.rows = rows, !.writes = writes]
           t == Target(r)
<1>1. CASE ~IndexHolds(rows)
  <2>1. Refused(r, "active_primary_unique")
    BY <1>1 DEF Written
  <2> QED BY <2>1, RefusedStep DEF At
<1>2. CASE IndexHolds(rows)
  <2>1. /\ req[r] \in ReqType /\ GoodRequest(user, asg, req[r]) /\ lock = r
        /\ user \in [Users -> UserRow \cup {None}] /\ asg \in [Users -> Assignments]
    BY DEF IInv, TypeOK, At, Locking
  <2>2. /\ q \in ReqType /\ q.pc = "check" /\ q.cmd = req[r].cmd
        /\ q.row = row /\ q.rows = rows /\ q.writes = writes
    BY <2>1 DEF ReqType
  <2>3. req' = [req EXCEPT ![r] = q] /\ UNCHANGED <<user, asg, lock, sent>>
    BY <1>2 DEF Written, IInv, TypeOK
  <2>4. req[r].cmd \in Command /\ WellFormed(req[r].cmd) /\ t \in Users
    BY <2>1, CommandParts DEF GoodRequest, At, Target
  <2> HIDE DEF q
  <2>5. /\ UsersSeen(user, q)[t] = seen /\ RowsSeen(asg, q)[t] = rows
        /\ \A u \in Users : u # t => UsersSeen(user, q)[u] = user[u]
                                     /\ RowsSeen(asg, q)[u] = asg[u]
    BY <2>1, <2>2, <2>4 DEF UsersSeen, RowsSeen, Target
  <2> HIDE DEF t
  <2>6. GoodTables(user, asg)
    BY DEF IInv
  <2>7. CoherentAll(UsersSeen(user, q), RowsSeen(asg, q))
    BY <1>2, <2>5, <2>6 DEF CoherentAll, GoodTables
  <2>8. req[r].cmd.op \in {"create", "assign", "promote", "activate"}
          => SomeAdministrates(UsersSeen(user, q), RowsSeen(asg, q))
    BY <2>4, <2>5, <2>6 DEF SomeAdministrates, GoodTables, t
  <2>9. GoodRequest(user, asg, q)
    BY <2>2, <2>4, <2>7, <2>8 DEF GoodRequest, Target, t
  <2> QED BY <2>1, <2>2, <2>3, <2>9, RequestStep
<1> QED BY <1>1, <1>2

\* The state in which a handler changes its account.
LEMMA MutateState ==
  ASSUME IInv, NEW r \in Requests, At(r, "mutate")
  PROVE  /\ req[r].cmd \in Command /\ WellFormed(req[r].cmd) /\ req[r] \in ReqType
         /\ Target(r) \in Users /\ Role(r) \in Roles \cup {None}
         /\ asg[Target(r)] \in Assignments /\ user[Target(r)] \in UserRow \cup {None}
         /\ Coherent(user[Target(r)], asg[Target(r)])
         /\ \A x \in Roles : asg[Target(r)][x] # None
              => user[Target(r)] # None /\ user[Target(r)] \in UserRow /\ x \in Rows(asg[Target(r)])
<1>1. req[r] \in ReqType /\ GoodRequest(user, asg, req[r])
  BY DEF IInv, TypeOK
<1>2. req[r].cmd \in Command /\ WellFormed(req[r].cmd)
  BY <1>1 DEF GoodRequest, At
<1>3. Target(r) \in Users /\ Role(r) \in Roles \cup {None}
  BY <1>2, CommandParts DEF Target, Role
<1>4. /\ asg[Target(r)] \in Assignments /\ user[Target(r)] \in UserRow \cup {None}
      /\ Coherent(user[Target(r)], asg[Target(r)])
  BY <1>3 DEF IInv, TypeOK, GoodTables, CoherentAll
<1>5. \A x \in Roles : NoAssignments[x] = None
  BY DEF NoAssignments
<1> QED BY <1>1, <1>2, <1>3, <1>4, <1>5 DEF Coherent, Rows

\* A change that the cache follows leaves the account coherent.
LEMMA SyncedStep ==
  ASSUME IInv, NEW r \in Requests, At(r, "mutate"), NEW rows \in Assignments,
         user[Target(r)] # None,
         WrittenAndSynced(r, user[Target(r)], rows),
         req[r].cmd.op \in {"create", "assign", "promote", "activate"} =>
           Active(asg[Target(r)]) \subseteq Active(rows)
  PROVE  IInv'
<1> DEFINE row == Synced(user[Target(r)], rows)
           writes == ActivePrimary(rows) # {}
           seen == IF writes THEN row ELSE user[Target(r)]
<1>1. user[Target(r)] \in UserRow
  BY MutateState
<1>2. /\ row \in UserRow /\ row.active = user[Target(r)].active
      /\ IndexHolds(rows) => \A x \in ActivePrimary(rows) : row.role = x
  BY <1>1, SyncedFacts
<1>3. seen # None /\ seen.active = user[Target(r)].active
  BY <1>1, <1>2, AuthorityAssumption
<1>4. IndexHolds(rows) => Coherent(seen, rows)
  BY <1>2, <1>3 DEF Coherent
<1>5. Written(r, row, rows, writes) /\ writes \in BOOLEAN
  BY DEF WrittenAndSynced
<1>6. req[r].cmd.op \in {"create", "assign", "promote", "activate"} =>
        (Administrates(Target(r), user[Target(r)], asg[Target(r)])
           => Administrates(Target(r), seen, rows))
  BY <1>3 DEF Administrates
<1> HIDE DEF row, writes
<1> QED BY <1>2, <1>4, <1>5, <1>6, WrittenStep

\* A change of a row that is not primary, with the cache left alone.
LEMMA SecondaryStep ==
  ASSUME IInv, NEW r \in Requests, At(r, "mutate"), NEW rows \in Assignments,
         user[Target(r)] # None,
         Written(r, None, rows, FALSE),
         ActivePrimary(rows) \subseteq ActivePrimary(asg[Target(r)]),
         req[r].cmd.op \in {"create", "assign", "promote", "activate"} =>
           Active(asg[Target(r)]) \subseteq Active(rows)
  PROVE  IInv'
<1> DEFINE seen == user[Target(r)]
<1>1. Coherent(seen, rows)
  BY MutateState DEF Coherent
<1>2. req[r].cmd.op \in {"create", "assign", "promote", "activate"} =>
        (Administrates(Target(r), user[Target(r)], asg[Target(r)])
           => Administrates(Target(r), seen, rows))
  BY DEF Administrates
<1> QED BY <1>1, <1>2, WrittenStep
-----------------------------------------------------------------------------
(* The changes under the lock *)

LEMMA CreateStep ==
  ASSUME IInv, NEW r \in Requests, Create(r)
  PROVE  IInv'
<1> DEFINE row == [active |-> TRUE, role |-> Role(r)]
           rows == AssignRow(NoAssignments, Role(r), TRUE)
<1>1. At(r, "mutate") /\ req[r].cmd.op = "create"
  BY DEF Create, Op
<1>2. Role(r) \in Roles /\ Target(r) \notin Profiled
  BY <1>1, MutateState DEF WellFormed, Role, Target
<1>3. CASE user[Target(r)] # None
  BY <1>1, <1>3, RefusedStep DEF Create, At
<1>4. CASE user[Target(r)] = None
  <2>1. NoAssignments \in Assignments /\ Rows(NoAssignments) = {}
    BY DEF NoAssignments, Assignments, Rows
  <2>2. rows \in Assignments
    BY <1>2, <2>1, AssignRowFacts
  <2>3. row \in UserRow /\ row # None /\ row.role = Role(r)
    <3>1. row \in UserRow /\ row.role = Role(r)
      BY <1>2 DEF UserRow
    <3> QED BY <3>1, AuthorityAssumption
  <2>4. \A x \in ActivePrimary(rows) : x = Role(r)
    <3>1. Flagged(NoAssignments) = {}
      BY <2>1 DEF Flagged
    <3>2. Demote(NoAssignments, {}) = NoAssignments
      BY DEF Demote, NoAssignments
    <3>3. rows = [NoAssignments EXCEPT ![Role(r)] = Granted(TRUE, Cardinality(Rows(NoAssignments)) + 1)]
      BY <3>1, <3>2 DEF AssignRow, Insert
    <3>4. \A x \in Roles : x # Role(r) => rows[x] = None
      BY <3>3 DEF NoAssignments
    <3> HIDE DEF rows
    <3> QED BY <2>2, <3>4, RowsTyped
  <2>5. Written(r, row, rows, TRUE)
    BY <1>4 DEF Create
  <2> HIDE DEF row, rows
  <2>6. Coherent(row, rows)
    BY <2>3, <2>4 DEF Coherent
  <2>7. ~Administrates(Target(r), user[Target(r)], asg[Target(r)])
    BY <1>4 DEF Administrates
  <2> QED BY <1>1, <1>2, <2>2, <2>3, <2>5, <2>6, <2>7, WrittenStep
<1> QED BY <1>3, <1>4

LEMMA AssignStep ==
  ASSUME IInv, NEW r \in Requests, Assign(r)
  PROVE  IInv'
<1> DEFINE a == asg[Target(r)]
           rows == AssignRow(a, Role(r), req[r].cmd.flag)
<1>1. At(r, "mutate") /\ req[r].cmd.op = "assign"
  BY DEF Assign, Op
<1>2. Role(r) \in Roles /\ req[r].cmd.flag \in BOOLEAN /\ a \in Assignments
  BY <1>1, MutateState, CommandParts DEF WellFormed, Role
<1>3. CASE user[Target(r)] = None
  BY <1>1, <1>3, RefusedStep DEF Assign, At
<1>4. CASE user[Target(r)] # None /\ a[Role(r)] # None
  <2>1. Refused(r, "role_unique")
    BY <1>4 DEF Assign
  <2> QED BY <1>1, <2>1, RefusedStep DEF At
<1>5. CASE user[Target(r)] # None /\ a[Role(r)] = None
  <2>1. SyncedIfPrimary(r, rows[Role(r)], rows)
    BY <1>5 DEF Assign
  <2>2. /\ rows \in Assignments /\ rows[Role(r)].primary = req[r].cmd.flag
        /\ Active(a) \subseteq Active(rows)
        /\ ~req[r].cmd.flag => ActivePrimary(rows) \subseteq ActivePrimary(a)
    BY <1>2, <1>5, AssignRowFacts
  <2> HIDE DEF rows
  <2>3. CASE req[r].cmd.flag
    <3>1. WrittenAndSynced(r, user[Target(r)], rows)
      BY <2>1, <2>2, <2>3 DEF SyncedIfPrimary
    <3> QED BY <1>1, <1>5, <2>2, <3>1, SyncedStep
  <2>4. CASE ~req[r].cmd.flag
    <3>1. Written(r, None, rows, FALSE)
      BY <2>1, <2>2, <2>4 DEF SyncedIfPrimary
    <3> QED BY <1>1, <1>5, <2>2, <2>4, <3>1, SecondaryStep
  <2> QED BY <2>3, <2>4
<1> QED BY <1>3, <1>4, <1>5

LEMMA PromoteStep ==
  ASSUME IInv, NEW r \in Requests, Promote(r)
  PROVE  IInv'
<1> DEFINE a == asg[Target(r)]
<1>1. At(r, "mutate") /\ req[r].cmd.op = "promote"
  BY DEF Promote, Op
<1>2. Role(r) \in Roles /\ a \in Assignments
  BY <1>1, MutateState DEF WellFormed, Role
<1>3. CASE a[Role(r)] = None
  BY <1>3, AnswerStep DEF Promote
<1>4. CASE a[Role(r)] # None
  <2>1. Role(r) \in Rows(a) /\ user[Target(r)] # None
    BY <1>1, <1>2, <1>4, MutateState
  <2>2. WrittenAndSynced(r, user[Target(r)], SetPrimary(a, Role(r)))
    BY <1>4 DEF Promote
  <2>3. SetPrimary(a, Role(r)) \in Assignments /\ Active(a) \subseteq Active(SetPrimary(a, Role(r)))
    BY <1>2, <2>1, SetPrimaryFacts
  <2> QED BY <1>1, <2>1, <2>2, <2>3, SyncedStep
<1> QED BY <1>3, <1>4

\* The commands on a row the account has, by what they do to its rows.
LEMMA RowStep ==
  ASSUME IInv, NEW r \in Requests, At(r, "mutate"), NEW rows \in Assignments,
         Role(r) \in Roles, asg[Target(r)][Role(r)] # None,
         SyncedIfPrimary(r, asg[Target(r)][Role(r)], rows),
         ~asg[Target(r)][Role(r)].primary
           => ActivePrimary(rows) \subseteq ActivePrimary(asg[Target(r)]),
         req[r].cmd.op \in {"create", "assign", "promote", "activate"} =>
           Active(asg[Target(r)]) \subseteq Active(rows)
  PROVE  IInv'
<1>1. user[Target(r)] # None
  BY MutateState
<1>2. CASE asg[Target(r)][Role(r)].primary
  BY <1>1, <1>2, SyncedStep DEF SyncedIfPrimary
<1>3. CASE ~asg[Target(r)][Role(r)].primary
  BY <1>1, <1>3, SecondaryStep DEF SyncedIfPrimary
<1> QED BY <1>2, <1>3

LEMMA ActivateStep ==
  ASSUME IInv, NEW r \in Requests, Activate(r)
  PROVE  IInv'
<1> DEFINE a == asg[Target(r)]
<1>1. At(r, "mutate") /\ req[r].cmd.op = "activate"
  BY DEF Activate, Op
<1>2. Role(r) \in Roles /\ a \in Assignments
  BY <1>1, MutateState DEF WellFormed, Role
<1>3. CASE a[Role(r)] = None \/ a[Role(r)].active
  BY <1>3, AnswerStep DEF Activate
<1>4. CASE ~(a[Role(r)] = None \/ a[Role(r)].active)
  <2>1. Role(r) \in Rows(a)
    BY <1>2, <1>4 DEF Rows
  <2>2. SyncedIfPrimary(r, a[Role(r)], ActivateRow(a, Role(r)))
    BY <1>4 DEF Activate
  <2> QED BY <1>1, <1>2, <1>4, <2>1, <2>2, ActivateRowFacts, RowStep
<1> QED BY <1>3, <1>4

LEMMA DeactivateStep ==
  ASSUME IInv, NEW r \in Requests, Deactivate(r)
  PROVE  IInv'
<1> DEFINE a == asg[Target(r)]
<1>1. At(r, "mutate") /\ req[r].cmd.op = "deactivate"
  BY DEF Deactivate, Op
<1>2. Role(r) \in Roles /\ a \in Assignments
  BY <1>1, MutateState DEF WellFormed, Role
<1>3. CASE a[Role(r)] = None
  BY <1>3, AnswerStep DEF Deactivate
<1>4. CASE a[Role(r)] # None
  <2>1. Role(r) \in Rows(a)
    BY <1>2, <1>4 DEF Rows
  <2>2. SyncedIfPrimary(r, a[Role(r)], DeactivateRow(a, Role(r)))
    BY <1>4 DEF Deactivate
  <2> QED BY <1>1, <1>2, <1>4, <2>1, <2>2, DeactivateRowFacts, RowStep
<1> QED BY <1>3, <1>4

LEMMA RemoveStep ==
  ASSUME IInv, NEW r \in Requests, Remove(r)
  PROVE  IInv'
<1> DEFINE a == asg[Target(r)]
<1>1. At(r, "mutate") /\ req[r].cmd.op = "remove"
  BY DEF Remove, Op
<1>2. Role(r) \in Roles /\ a \in Assignments
  BY <1>1, MutateState DEF WellFormed, Role
<1>3. CASE a[Role(r)] = None
  BY <1>3, AnswerStep DEF Remove
<1>4. CASE a[Role(r)] # None
  <2>1. Role(r) \in Rows(a)
    BY <1>2, <1>4 DEF Rows
  <2>2. SyncedIfPrimary(r, a[Role(r)], RemoveRow(a, Role(r)))
    BY <1>4 DEF Remove
  <2> QED BY <1>1, <1>2, <1>4, <2>1, <2>2, RemoveRowFacts, RowStep
<1> QED BY <1>3, <1>4

LEMMA PatchStep ==
  ASSUME IInv, NEW r \in Requests, Patch(r)
  PROVE  IInv'
<1> DEFINE c == req[r].cmd
           changed == IF c.flag = None THEN user[c.user] ELSE [user[c.user] EXCEPT !.active = c.flag]
           rows == IF c.role # None /\ c.role # req[r].seen
                   THEN ReplacePrimary(asg[c.user], c.role) ELSE asg[c.user]
           row == Synced(changed, rows)
<1>1. At(r, "mutate") /\ c.op = "patch" /\ c.user = Target(r)
  BY DEF Patch, Op, Target
<1>2. CASE user[c.user] = None
  BY <1>2, AnswerStep DEF Patch
<1>3. CASE user[c.user] # None
  <2>1. /\ user[c.user] \in UserRow /\ asg[c.user] \in Assignments
        /\ c.flag \in BOOLEAN \cup {None} /\ c.role \in Roles \cup {None}
    BY <1>1, <1>3, MutateState, CommandParts
  <2>2. changed \in UserRow
    BY <2>1 DEF UserRow
  <2>3. rows \in Assignments
    BY <2>1, ReplacePrimaryTyped
  <2>4. Written(r, row, rows, TRUE)
    BY <1>3 DEF Patch
  <2> HIDE DEF changed, rows
  <2>5. row \in UserRow /\ (IndexHolds(rows) => \A x \in ActivePrimary(rows) : row.role = x)
    BY <2>2, <2>3, SyncedFacts
  <2>6. IndexHolds(rows) => Coherent(row, rows)
    BY <2>5, AuthorityAssumption DEF Coherent
  <2> HIDE DEF row
  <2> QED BY <1>1, <1>3, <2>3, <2>4, <2>5, <2>6, WrittenStep
<1> QED BY <1>2, <1>3

LEMMA DeleteStep ==
  ASSUME IInv, NEW r \in Requests, Delete(r)
  PROVE  IInv'
<1>1. At(r, "mutate") /\ req[r].cmd.op = "delete"
  BY DEF Delete, Op
<1>2. CASE Target(r) \in Profiled
  BY <1>1, <1>2, RefusedStep DEF Delete, At
<1>3. CASE Target(r) \notin Profiled
  <2>1. NoAssignments \in Assignments /\ ActivePrimary(NoAssignments) = {}
    BY DEF NoAssignments, Assignments, ActivePrimary, Active, Rows
  <2>2. Coherent(None, NoAssignments)
    BY <2>1 DEF Coherent
  <2>3. Written(r, None, NoAssignments, TRUE)
    BY <1>3 DEF Delete
  <2> QED BY <1>1, <1>3, <2>1, <2>2, <2>3, WrittenStep
<1> QED BY <1>2, <1>3
-----------------------------------------------------------------------------
(* The other steps *)

LEMMA SendStep ==
  ASSUME IInv, NEW r \in Requests, NEW c \in Command, Send(r, c)
  PROVE  IInv'
<1> DEFINE seen == IF c.op = "patch" THEN user[c.user].role ELSE None
           q == [Idle EXCEPT !.pc = "lock", !.cmd = c, !.seen = seen]
<1>1. seen \in Roles \cup {None}
  <2>1. c.op = "patch" => user[c.user] \in UserRow
    BY CommandParts DEF Send, Found, IInv, TypeOK
  <2> QED BY <2>1 DEF UserRow
<1>2. q \in ReqType /\ q.pc = "lock" /\ q.cmd = c
  <2> HIDE DEF seen
  <2> QED BY <1>1, IdleGood DEF ReqType
<1>3. GoodRequest(user, asg, q) /\ ~Locking(q)
  <2> HIDE DEF q
  <2> QED BY <1>2 DEF GoodRequest, Locking, Changed, Send
<1>4. /\ user \in [Users -> UserRow \cup {None}] /\ asg \in [Users -> Assignments]
      /\ lock \in Requests \cup {None} /\ req \in [Requests -> ReqType]
      /\ sent \in 0..MaxCommands /\ MaxCommands \in Nat
  BY AuthorityAssumption DEF IInv, TypeOK
<1>5. req' = [req EXCEPT ![r] = q] /\ UNCHANGED <<user, asg, lock>> /\ sent' = sent + 1 /\ sent < MaxCommands
  BY DEF Send
<1> HIDE DEF q, seen
<1>6. TypeOK'
  BY <1>2, <1>4, <1>5 DEF TypeOK
<1>7. \A s \in Requests : Locking(req'[s]) => lock' = s
  BY <1>3, <1>4, <1>5 DEF IInv
<1>8. \A s \in Requests : GoodRequest(user, asg, req'[s])
  BY <1>3, <1>4, <1>5 DEF IInv
<1> QED BY <1>5, <1>6, <1>7, <1>8 DEF IInv

LEMMA AcquireStep ==
  ASSUME IInv, NEW r \in Requests, Acquire(r)
  PROVE  IInv'
<1> DEFINE q == [req[r] EXCEPT !.pc = "mutate"]
<1>1. /\ req[r] \in ReqType /\ req \in [Requests -> ReqType] /\ GoodRequest(user, asg, req[r])
      /\ req[r].pc = "lock" /\ lock = None /\ lock' = r
  BY DEF IInv, TypeOK, Acquire, At
<1>2. q \in ReqType /\ q.pc = "mutate" /\ q.cmd = req[r].cmd
  BY <1>1 DEF ReqType
<1>3. req' = [req EXCEPT ![r] = q] /\ UNCHANGED <<user, asg, sent>>
  BY DEF Acquire
<1> HIDE DEF q
<1>4. GoodRequest(user, asg, q)
  BY <1>1, <1>2 DEF GoodRequest, Changed
<1>5. TypeOK'
  BY <1>1, <1>2, <1>3 DEF IInv, TypeOK
<1>6. \A s \in Requests : s # r => ~Locking(req[s])
  BY <1>1, AuthorityAssumption DEF IInv
<1>7. \A s \in Requests : Locking(req'[s]) => lock' = s
  BY <1>1, <1>3, <1>6
<1>8. \A s \in Requests : GoodRequest(user, asg, req'[s])
  BY <1>1, <1>3, <1>4 DEF IInv
<1> QED BY <1>3, <1>5, <1>7, <1>8 DEF IInv

\* What the views of the model are in terms of the request.
LEMMA Views ==
  ASSUME NEW r \in Requests
  PROVE  UserView(r) = UsersSeen(user, req[r]) /\ AsgView(r) = RowsSeen(asg, req[r])
BY DEF UserView, UsersSeen, AsgView, RowsSeen, Target

\* The views have the types of the tables.
LEMMA ViewsTyped ==
  ASSUME IInv, NEW r \in Requests, req[r].pc # "idle"
  PROVE  /\ UserView(r) \in [Users -> UserRow \cup {None}]
         /\ AsgView(r) \in [Users -> Assignments]
<1>1. /\ req[r] \in ReqType
      /\ user \in [Users -> UserRow \cup {None}] /\ asg \in [Users -> Assignments]
  BY DEF IInv, TypeOK
<1>2. req[r].row \in UserRow \cup {None} /\ req[r].rows \in Assignments
  BY <1>1 DEF ReqType
<1> QED BY <1>1, <1>2 DEF UserView, AsgView

LEMMA CheckStep ==
  ASSUME IInv, NEW r \in Requests, Check(r)
  PROVE  IInv'
<1>1. At(r, "check")
  BY DEF Check
<1>2. CASE ~PostconditionHolds(r)
  BY <1>1, <1>2, RefusedStep DEF Check, At
<1>3. CASE PostconditionHolds(r)
  <2> DEFINE q == [req[r] EXCEPT !.pc = "commit"]
             us == UserView(r)
             as == AsgView(r)
  <2>1. req[r] \in ReqType /\ GoodRequest(user, asg, req[r]) /\ lock = r
    BY <1>1 DEF IInv, TypeOK, At, Locking
  <2>2. /\ q \in ReqType /\ q.pc = "commit" /\ q.cmd = req[r].cmd
        /\ q.row = req[r].row /\ q.rows = req[r].rows /\ q.writes = req[r].writes
    BY <2>1 DEF ReqType
  <2>3. req' = [req EXCEPT ![r] = q] /\ UNCHANGED <<user, asg, lock, sent>>
    BY <1>3 DEF Check
  <2> HIDE DEF q
  <2>4. /\ UsersSeen(user, q) = us /\ RowsSeen(asg, q) = as
        /\ UsersSeen(user, req[r]) = us /\ RowsSeen(asg, req[r]) = as
    BY <2>2, Views DEF UsersSeen, RowsSeen
  <2>5. /\ us \in [Users -> UserRow \cup {None}] /\ as \in [Users -> Assignments]
        /\ req[r].cmd \in Command
    BY <1>1, <2>1, ViewsTyped DEF At, GoodRequest
  <2>6. Dual(us, as) = {} /\ (GuardsAdmins(r) => Admins(us, as) # {})
    BY <1>3 DEF PostconditionHolds
  <2> HIDE DEF us, as
  <2>7. ExclusiveAll(us, as)
    BY <2>6 DEF ExclusiveAll, Exclusive, Dual, Holds
  <2>8. Admins(us, as) # {} => SomeAdministrates(us, as)
    BY DEF Admins, Holds, SomeAdministrates, Administrates
  <2>9. ~GuardsAdmins(r) => req[r].cmd.op \in {"create", "assign", "promote", "activate"}
    BY <2>5, CommandParts DEF GuardsAdmins, Ops
  <2>10. SomeAdministrates(us, as)
    BY <1>1, <2>1, <2>4, <2>6, <2>8, <2>9 DEF GoodRequest, At
  <2>11. GoodRequest(user, asg, q)
    BY <1>1, <2>1, <2>2, <2>4, <2>7, <2>10 DEF GoodRequest, At, Changed
  <2> QED BY <2>1, <2>2, <2>3, <2>11, RequestStep
<1> QED BY <1>2, <1>3

LEMMA CommitStep ==
  ASSUME IInv, NEW r \in Requests, Commit(r)
  PROVE  IInv'
<1>1. /\ req[r].pc = "commit" /\ lock = r /\ GoodRequest(user, asg, req[r])
      /\ req \in [Requests -> ReqType] /\ sent \in 0..MaxCommands
  BY DEF Commit, At, IInv, Locking, TypeOK
<1>2. user' = UsersSeen(user, req[r]) /\ asg' = RowsSeen(asg, req[r])
  BY Views DEF Commit
<1>3. user' \in [Users -> UserRow \cup {None}] /\ asg' \in [Users -> Assignments]
  BY <1>1, ViewsTyped DEF Commit
<1>4. lock' = None /\ req' = [req EXCEPT ![r] = Idle] /\ sent' = sent
  BY <1>1 DEF Commit, Release
<1>5. GoodTables(user', asg')
  BY <1>1, <1>2 DEF GoodRequest, GoodTables, Changed
<1>6. \A s \in Requests : s # r => ~Locking(req[s])
  BY <1>1 DEF IInv
<1>7. \A s \in Requests : ~Locking(req'[s])
  BY <1>1, <1>4, <1>6, IdleGood
<1>8. ASSUME NEW s \in Requests PROVE GoodRequest(user', asg', req'[s])
  <2>1. CASE s = r
    BY <1>1, <1>4, <2>1, IdleGood
  <2>2. CASE s # r
    <3>1. req'[s] = req[s] /\ ~Locking(req[s]) /\ GoodRequest(user, asg, req[s])
      BY <1>1, <1>4, <1>6, <2>2 DEF IInv
    <3> QED BY <3>1 DEF GoodRequest, Locking, Changed
  <2> QED BY <2>1, <2>2
<1>9. TypeOK'
  BY <1>1, <1>3, <1>4, IdleGood DEF TypeOK
<1> QED BY <1>5, <1>7, <1>8, <1>9 DEF IInv
\* A step outside the lock on an account with a profile, whose row no open
\* transaction has written: every table that is good stays good.
LEMMA OutsideStep ==
  ASSUME IInv, NEW u \in Profiled, NEW row \in UserRow, NEW rows \in Assignments,
         user' = [user EXCEPT ![u] = row], asg' = [asg EXCEPT ![u] = rows],
         UNCHANGED <<lock, req, sent>>,
         Coherent(row, rows),
         user[u] # None => /\ rows = asg[u]
                           /\ row.role = user[u].role
                           /\ RowFree(u)
  PROVE  IInv'
<1>1. /\ user \in [Users -> UserRow \cup {None}] /\ asg \in [Users -> Assignments]
      /\ req \in [Requests -> ReqType] /\ u \in Users /\ row # None
  BY AuthorityAssumption DEF IInv, TypeOK
<1>2. TypeOK'
  BY <1>1 DEF IInv, TypeOK
<1>3. /\ user'[u] = row /\ asg'[u] = rows
      /\ \A v \in Users : v # u => user'[v] = user[v] /\ asg'[v] = asg[v]
  BY <1>1
<1>4. GoodTables(user', asg')
  <2>1. CoherentAll(user', asg')
    BY <1>3 DEF IInv, GoodTables, CoherentAll
  <2>2. SomeAdministrates(user', asg')
    BY <1>1, <1>3 DEF IInv, GoodTables, SomeAdministrates, Administrates
  <2>3. ExclusiveAll(user', asg')
    BY <1>3 DEF IInv, GoodTables, ExclusiveAll, Exclusive
  <2> QED BY <2>1, <2>2, <2>3 DEF GoodTables
<1>5. ASSUME NEW r \in Requests PROVE GoodRequest(user', asg', req'[r])
  <2> DEFINE q == req[r]
  <2>1. q \in ReqType /\ GoodRequest(user, asg, q) /\ req'[r] = q
    BY <1>1 DEF IInv
  <2>2. CASE ~Changed(q)
    BY <2>1, <2>2 DEF GoodRequest, Changed
  <2>3. CASE Changed(q)
    <3> DEFINE us == UsersSeen(user, q)
               as == RowsSeen(asg, q)
               usN == UsersSeen(user', q)
               asN == RowsSeen(asg', q)
               t == q.cmd.user
    <3>1. q.pc # "idle" /\ q.cmd \in Command /\ WellFormed(q.cmd) /\ t \in Users
      BY <2>1, <2>3, CommandParts DEF GoodRequest, Changed
    <3>2. t = u => user[u] # None /\ ~q.writes
      BY <2>1, <2>3, <3>1 DEF GoodRequest, RowFree, Changed, Target
    <3>3. /\ \A v \in Users : v # u => usN[v] = us[v] /\ asN[v] = as[v]
          /\ usN[u] = row
          /\ us[u] = user[u]
      BY <1>1, <1>3, <3>1, <3>2 DEF UsersSeen, RowsSeen
    <3>4. user[u] # None => asN[u] = as[u] /\ row.role = us[u].role
      BY <1>1, <1>3, <3>1, <3>3 DEF RowsSeen
    <3>5. user[u] = None => asN[u] = rows
      BY <1>1, <1>3, <3>1, <3>2 DEF RowsSeen
    <3>6. CoherentAll(us, as)
      BY <2>1, <2>3 DEF GoodRequest
    <3>7. t \notin Profiled \/ user'[t] # None
      BY <1>1, <1>3, <2>1, <2>3 DEF GoodRequest
    <3> HIDE DEF us, as, usN, asN
    <3>8. Coherent(usN[u], asN[u])
      <4>1. CASE user[u] = None
        BY <3>3, <3>5, <4>1
      <4>2. CASE user[u] # None
        BY <1>1, <3>3, <3>4, <3>6, <4>2 DEF CoherentAll, Coherent
      <4> QED BY <4>1, <4>2
    <3>9. CoherentAll(usN, asN)
      BY <3>3, <3>6, <3>8 DEF CoherentAll
    <3>10. SomeAdministrates(us, as) => SomeAdministrates(usN, asN)
      BY <1>1, <3>3, <3>4 DEF SomeAdministrates, Administrates
    <3>11. ExclusiveAll(us, as) => ExclusiveAll(usN, asN)
      BY <3>3 DEF ExclusiveAll, Exclusive
    <3> QED BY <2>1, <3>1, <3>7, <3>9, <3>10, <3>11 DEF GoodRequest, us, as, usN, asN
  <2> QED BY <2>2, <2>3
<1>6. \A r \in Requests : Locking(req'[r]) => lock' = r
  BY DEF IInv
<1> QED BY <1>2, <1>4, <1>5, <1>6 DEF IInv

LEMMA CreateCandidateStep ==
  ASSUME IInv, NEW u \in Users, CreateCandidate(u)
  PROVE  IInv'
<1> DEFINE row == [active |-> TRUE, role |-> "Candidate"]
           rows == AssignRow(NoAssignments, "Candidate", TRUE)
<1>1. "Candidate" \in Roles
  BY AuthorityAssumption
<1>2. NoAssignments \in Assignments /\ Rows(NoAssignments) = {}
  BY DEF NoAssignments, Assignments, Rows
<1>3. rows \in Assignments
  BY <1>1, <1>2, AssignRowFacts
<1>4. row \in UserRow /\ row.role = "Candidate"
  BY <1>1 DEF UserRow
<1>5. \A x \in ActivePrimary(rows) : x = "Candidate"
  <2>1. Flagged(NoAssignments) = {} /\ Demote(NoAssignments, {}) = NoAssignments
    BY <1>2 DEF Flagged, Demote, NoAssignments
  <2>2. rows = [NoAssignments EXCEPT !["Candidate"] = Granted(TRUE, Cardinality(Rows(NoAssignments)) + 1)]
    BY <2>1 DEF AssignRow, Insert
  <2>3. \A x \in Roles : x # "Candidate" => rows[x] = None
    BY <2>2 DEF NoAssignments
  <2> HIDE DEF rows
  <2> QED BY <1>3, <2>3, RowsTyped
<1>6. /\ u \in Profiled /\ user[u] = None /\ UNCHANGED <<lock, req, sent>>
      /\ user' = [user EXCEPT ![u] = row] /\ asg' = [asg EXCEPT ![u] = rows]
  BY DEF CreateCandidate
<1> HIDE DEF row, rows
<1>7. Coherent(row, rows)
  BY <1>4, <1>5, AuthorityAssumption DEF Coherent
<1> QED BY <1>3, <1>4, <1>6, <1>7, OutsideStep

LEMMA PatchCandidateStep ==
  ASSUME IInv, NEW u \in Users, NEW b \in BOOLEAN, PatchCandidate(u, b)
  PROVE  IInv'
<1> DEFINE row == [user[u] EXCEPT !.active = b]
<1>1. /\ user[u] \in UserRow /\ user \in [Users -> UserRow \cup {None}]
      /\ asg \in [Users -> Assignments] /\ Coherent(user[u], asg[u])
  BY DEF PatchCandidate, IInv, TypeOK, GoodTables, CoherentAll
<1>2. row \in UserRow /\ row.role = user[u].role
  BY <1>1 DEF UserRow
<1>3. /\ u \in Profiled /\ user[u] # None /\ RowFree(u) /\ UNCHANGED <<asg, lock, req, sent>>
      /\ user' = [user EXCEPT ![u] = row]
  BY DEF PatchCandidate
<1>4. asg' = [asg EXCEPT ![u] = asg[u]]
  BY <1>1, <1>3
<1> HIDE DEF row
<1>5. Coherent(row, asg[u])
  BY <1>1, <1>2, <1>3, AuthorityAssumption DEF Coherent
<1>6. asg[u] \in Assignments
  BY <1>1
<1> QED BY <1>2, <1>3, <1>4, <1>5, <1>6, OutsideStep

-----------------------------------------------------------------------------
(* The theorems *)

LEMMA InitIInv == Init => IInv
<1> SUFFICES ASSUME Init PROVE IInv
  OBVIOUS
<1>1. PICK a \in Users : Seed[a] = "Admin"
  BY AuthorityAssumption
<1>2. Granted(TRUE, 1) \in Assignment /\ Granted(TRUE, 1).active /\ Granted(TRUE, 1).primary
  BY DEF Granted, Assignment
<1>3. Granted(TRUE, 1) # None
  BY <1>2, AuthorityAssumption
<1>4. \A u \in Users : Seed[u] # None => Seed[u] \in Roles
  BY AuthorityAssumption
<1>5. \A u \in Users : asg[u] \in Assignments
  BY <1>2 DEF Init, Assignments
<1>6. \A u \in Users : user[u] \in UserRow \cup {None} /\ (user[u] = None => Seed[u] = None)
                      /\ (user[u] # None => user[u].role = Seed[u] /\ user[u].active)
  <2> SUFFICES ASSUME NEW u \in Users
               PROVE  user[u] \in UserRow \cup {None} /\ (user[u] = None => Seed[u] = None)
                      /\ (user[u] # None => user[u].role = Seed[u] /\ user[u].active)
    OBVIOUS
  <2>1. CASE Seed[u] = None
    BY <2>1 DEF Init
  <2>2. CASE Seed[u] # None
    <3>1. user[u] = [active |-> TRUE, role |-> Seed[u]]
      BY <2>2 DEF Init
    <3>2. user[u] \in UserRow /\ user[u].role = Seed[u] /\ user[u].active
      BY <1>4, <2>2, <3>1 DEF UserRow
    <3> QED BY <3>2, AuthorityAssumption
  <2> QED BY <2>1, <2>2
<1>7. TypeOK
  <2>1. user \in [Users -> UserRow \cup {None}]
    BY <1>6 DEF Init
  <2>2. asg \in [Users -> Assignments]
    BY <1>5 DEF Init
  <2>3. req \in [Requests -> ReqType] /\ lock \in Requests \cup {None}
    BY IdleGood DEF Init
  <2>4. sent \in 0..MaxCommands
    BY AuthorityAssumption DEF Init
  <2> QED BY <2>1, <2>2, <2>3, <2>4 DEF TypeOK
<1>8. ASSUME NEW u \in Users, NEW x \in Roles, asg[u][x] # None
      PROVE  x = Seed[u] /\ asg[u][x] = Granted(TRUE, 1)
  BY <1>8 DEF Init
<1>9. CoherentAll(user, asg)
  <2> SUFFICES ASSUME NEW u \in Users PROVE Coherent(user[u], asg[u])
    BY DEF CoherentAll
  <2>1. Seed[u] = None => asg[u] = NoAssignments
    BY AuthorityAssumption DEF Init, NoAssignments
  <2>2. \A x \in ActivePrimary(asg[u]) : x = Seed[u]
    BY <1>5, <1>8, RowsTyped
  <2>3. Seed[u] = None => ActivePrimary(asg[u]) = {}
    BY <2>1 DEF NoAssignments, ActivePrimary, Active, Rows
  <2> QED BY <1>6, <2>1, <2>2, <2>3 DEF Coherent
<1>10. SomeAdministrates(user, asg)
  <2>1. "Admin" \in Roles /\ asg[a]["Admin"] = Granted(TRUE, 1)
    BY <1>1, AuthorityAssumption DEF Init
  <2>2. "Admin" \in Active(asg[a])
    BY <1>2, <1>3, <2>1 DEF Active, Rows
  <2>3. user[a] # None /\ user[a].active
    BY <1>1, <1>6, AuthorityAssumption
  <2> QED BY <2>2, <2>3 DEF SomeAdministrates, Administrates
<1>11. ExclusiveAll(user, asg)
  <2> SUFFICES ASSUME NEW u \in Users, "Admin" \in Active(asg[u]), "Maintainer" \in Active(asg[u])
               PROVE  FALSE
    BY DEF ExclusiveAll, Exclusive
  <2>1. Seed[u] = "Admin" /\ Seed[u] = "Maintainer"
    BY <1>5, <1>8, RowsTyped
  <2> QED BY <2>1
<1>12. \A r \in Requests : ~Locking(req[r]) /\ GoodRequest(user, asg, req[r])
  BY IdleGood DEF Init
<1> QED BY <1>7, <1>9, <1>10, <1>11, <1>12 DEF IInv, GoodTables

LEMMA NextIInv == IInv /\ [Next]_vars => IInv'
<1> SUFFICES ASSUME IInv, [Next]_vars PROVE IInv'
  OBVIOUS
<1>1. CASE UNCHANGED vars
  BY <1>1 DEF vars, IInv, TypeOK
<1>2. ASSUME NEW r \in Requests, Step(r) PROVE IInv'
  BY <1>2, AcquireStep, CreateStep, AssignStep, PromoteStep, ActivateStep, DeactivateStep,
     RemoveStep, PatchStep, DeleteStep, CheckStep, CommitStep, AnswerStep DEF Step, Fail
<1>3. ASSUME NEW r \in Requests, Abort(r) PROVE IInv'
  BY <1>3, AnswerStep DEF Abort
<1>4. ASSUME NEW r \in Requests, NEW c \in Command, Send(r, c) PROVE IInv'
  BY <1>4, SendStep
<1>5. ASSUME NEW u \in Users, CreateCandidate(u) PROVE IInv'
  BY <1>5, CreateCandidateStep
<1>6. ASSUME NEW u \in Users, NEW b \in BOOLEAN, PatchCandidate(u, b) PROVE IInv'
  BY <1>6, PatchCandidateStep
<1> QED BY <1>1, <1>2, <1>3, <1>4, <1>5, <1>6 DEF Next

\* The inductive invariant: the tables, and the tables as every open transaction
\* sees them, are coherent, keep an administrator and keep the roles apart.
THEOREM Inductive == Spec => []IInv
BY InitIInv, NextIInv, PTL DEF Spec

\* The rows, the lock and the handlers keep their types.
THEOREM TypeCorrect == Spec => []TypeOK
<1>1. IInv => TypeOK
  BY DEF IInv
<1> QED BY <1>1, Inductive, PTL

\* mutateWithEffectiveAdminPostcondition: no overlapping commands take the last
\* administrator away; only PATCH /candidates/:id can have disabled one.
THEOREM AdminsStay == Spec => []AdminsRemain
<1>1. IInv => AdminsRemain
  BY AuthorityAssumption DEF IInv, GoodTables, SomeAdministrates, Administrates, AdminsRemain, Admins, Holds
<1> QED BY <1>1, Inductive, PTL

\* mutateWithAuthorityInvariants: no account outside the reach of
\* PATCH /candidates/:id is Admin and Maintainer at once.
THEOREM RolesApart == Spec => []RolesExclusive
<1>1. IInv => RolesExclusive
  BY DEF IInv, GoodTables, ExclusiveAll, Exclusive, RolesExclusive, Dual, Holds
<1> QED BY <1>1, Inductive, PTL

\* syncUsersRoleFromPrimary: the cached role is the primary active one.
THEOREM CacheCorrect == Spec => []CacheFollowsPrimary
<1>1. IInv => CacheFollowsPrimary
  BY DEF IInv, GoodTables, CoherentAll, Coherent, CacheFollowsPrimary
<1> QED BY <1>1, Inductive, PTL
=============================================================================
