------------------------------ MODULE Authority ------------------------------
(***************************************************************************)
(* Accounts and their role assignments: the tables users and               *)
(* user_role_assignments, the commands of routes/user.ts,                  *)
(* routes/roleAssignments.ts and routes/candidate.ts that change them, and *)
(* the transaction of authz/adminInvariant.ts and                          *)
(* authz/adminMaintainerExclusion.ts around most of these commands: take   *)
(* the organization's advisory lock, change, check the post-conditions,    *)
(* commit.  That transaction is READ COMMITTED: each of its statements     *)
(* reads what is committed by then, and its own writes.                    *)
(*                                                                         *)
(* The two commands of routes/candidate.ts run outside the lock, in a      *)
(* transaction of their own on one account, and are one step each.         *)
(***************************************************************************)
EXTENDS Naturals, FiniteSets

CONSTANTS
  None,
  Users,       \* accounts, those still to be created included
  Profiled,    \* accounts with a candidate profile
  Roles,       \* the assignable roles
  Seed,        \* user -> the role an account starts with, or None: no account yet
  Requests,    \* requests in progress
  MaxCommands  \* bound: commands sent under the lock

UserRow == [active: BOOLEAN, role: Roles]

\* A row of user_role_assignments; rank is its place in the order of created_at.
Assignment == [primary: BOOLEAN, active: BOOLEAN, rank: Nat]
Assignments == [Roles -> Assignment \cup {None}]

Ops == {"create", "assign", "promote", "activate", "deactivate", "remove", "patch", "delete"}

\* flag is isPrimary of an assign and isActive of a patch.  An assignment is named
\* by its account and role: a row removed and assigned again counts as the same.
Command == [op: Ops, user: Users, role: Roles \cup {None}, flag: BOOLEAN \cup {None}]

ASSUME AuthorityAssumption ==
  /\ {"Admin", "Maintainer", "Candidate"} \subseteq Roles /\ IsFiniteSet(Roles)
  /\ Profiled \subseteq Users
  /\ Seed \in [Users -> Roles \cup {None}]
  /\ \E u \in Users : Seed[u] = "Admin"
  /\ MaxCommands \in Nat
  /\ None \notin Roles /\ None \notin UserRow /\ None \notin Assignment
  /\ None \notin Requests /\ None \notin BOOLEAN /\ None \notin Command

VARIABLES
  user,  \* user -> its row of users, or None
  asg,   \* user -> role -> the row of user_role_assignments, or None
  lock,  \* the request that holds the advisory lock "authority-invariants"
  req,   \* request -> how far its handler is
  sent   \* commands sent

vars == <<user, asg, lock, req, sent>>

NoAssignments == [x \in Roles |-> None]

Granted(p, n) == [primary |-> p, active |-> TRUE, rank |-> n]

\* seen is the role read before the transaction; row and rows are what the
\* transaction writes; writes says that it has written the row of users.
Idle ==
  [pc |-> "idle", cmd |-> None, seen |-> None, row |-> None,
   rows |-> NoAssignments, writes |-> FALSE, error |-> "none"]

Init ==
  /\ user = [u \in Users |->
       IF Seed[u] = None THEN None ELSE [active |-> TRUE, role |-> Seed[u]]]
  /\ asg = [u \in Users |->
       [x \in Roles |-> IF x = Seed[u] THEN Granted(TRUE, 1) ELSE None]]
  /\ lock = None
  /\ req = [r \in Requests |-> Idle]
  /\ sent = 0

-----------------------------------------------------------------------------
(* The rows of one account *)

Rows(a) == {x \in Roles : a[x] # None}
Active(a) == {x \in Rows(a) : a[x].active}
Flagged(a) == {x \in Rows(a) : a[x].primary}
ActivePrimary(a) == Active(a) \cap Flagged(a)

Demote(a, S) == [x \in Roles |-> IF x \in S THEN [a[x] EXCEPT !.primary = FALSE] ELSE a[x]]
Disable(a, S) == [x \in Roles |-> IF x \in S THEN [a[x] EXCEPT !.active = FALSE] ELSE a[x]]
Enable(a, x) == [a EXCEPT ![x] = [@ EXCEPT !.primary = TRUE, !.active = TRUE]]
Insert(a, x, p) == [a EXCEPT ![x] = Granted(p, Cardinality(Rows(a)) + 1)]

\* assignWithinTransaction, for a role the account has no row of.
AssignRow(a, x, p) == Insert(IF p THEN Demote(a, Flagged(a)) ELSE a, x, p)

\* ensurePrimaryAssignmentWithinTransaction
EnsurePrimary(a, x) ==
  LET d == Demote(a, ActivePrimary(a)) IN
  IF x \in Rows(a) THEN Enable(d, x) ELSE Insert(d, x, TRUE)

\* replacePrimaryRoleWithinTransaction leaves the flag on the row it disables.
ReplacePrimary(a, x) == EnsurePrimary(Disable(a, ActivePrimary(a)), x)

SetPrimary(a, x) == Enable(Demote(a, Flagged(a)), x)

Oldest(a) == {x \in Active(a) : \A y \in Active(a) : a[x].rank <= a[y].rank}

\* promoteNextActiveForUser
PromoteNext(a) ==
  [x \in Roles |-> IF x \in Oldest(a) THEN [a[x] EXCEPT !.primary = TRUE] ELSE a[x]]

DeactivateRow(a, x) ==
  LET d == Disable(a, {x}) IN IF a[x].primary THEN PromoteNext(d) ELSE d

ActivateRow(a, x) ==
  LET d == IF a[x].primary THEN Demote(a, ActivePrimary(a)) ELSE a IN
  IF a[x].active THEN a ELSE [d EXCEPT ![x] = [@ EXCEPT !.active = TRUE]]

RemoveRow(a, x) ==
  LET d == [y \in Roles |->
        CASE y = x -> None
          [] y # x /\ a[y] # None /\ a[y].rank > a[x].rank -> [a[y] EXCEPT !.rank = @ - 1]
          [] OTHER -> a[y]]
  IN  IF a[x].primary THEN PromoteNext(d) ELSE d

\* syncUsersRoleFromPrimary
Synced(row, a) ==
  IF ActivePrimary(a) = {} THEN row
  ELSE [row EXCEPT !.role = CHOOSE x \in ActivePrimary(a) : TRUE]

\* The partial unique index user_role_assignments_active_primary_unique.
IndexHolds(a) == \A x, y \in ActivePrimary(a) : x = y

-----------------------------------------------------------------------------
(* What the rows mean *)

Holds(us, as, u, x) == us[u] # None /\ us[u].active /\ x \in Active(as[u])

\* countEffectiveActiveUsersWithRole(ctx, "Admin"), as a set
Admins(us, as) == {u \in Users : Holds(us, as, u, "Admin")}

\* findAdminMaintainerExclusionViolations
Dual(us, as) == {u \in Users : Holds(us, as, u, "Admin") /\ Holds(us, as, u, "Maintainer")}

\* deriveAssignmentAuthority finds an authority, and Admin is in it.
Authority(u) ==
  /\ user[u] # None /\ user[u].active
  /\ \E x \in Roles : ActivePrimary(asg[u]) = {x}
  /\ ~({"Admin", "Maintainer"} \subseteq Active(asg[u]))
IsAdmin(u) == Authority(u) /\ "Admin" \in Active(asg[u])

-----------------------------------------------------------------------------
(* Sending a command *)

At(r, pc) == req[r].pc = pc
Op(r, op) == At(r, "mutate") /\ req[r].cmd.op = op
Target(r) == req[r].cmd.user
Role(r) == req[r].cmd.role

\* Who sends it: an Admin, who cannot disable the own account; nobody in
\* particular for the acceptance of an invitation.
Permitted(c) ==
  \/ c.op = "create" /\ c.role # "Candidate"
  \/ \E a \in Users : IsAdmin(a) /\ (c.op = "patch" /\ c.flag = FALSE => a # c.user)

\* The body has what the command needs.
WellFormed(c) ==
  /\ c.op \notin {"patch", "delete"} => c.role # None
  /\ c.op = "create" => c.user \notin Profiled
  /\ c.op = "delete" => c.role = None
  /\ c.op = "assign" => c.flag # None
  /\ c.op \notin {"assign", "patch"} => c.flag = None

\* Read before the transaction: the handler answers 404 when there is nothing.
Found(c) ==
  /\ c.op \in {"assign", "patch", "delete"} => user[c.user] # None
  /\ c.op \in {"deactivate", "remove"} => asg[c.user][c.role] # None

Send(r, c) ==
  /\ At(r, "idle") /\ sent < MaxCommands
  /\ WellFormed(c) /\ Permitted(c) /\ Found(c)
  /\ req' = [req EXCEPT ![r] = [Idle EXCEPT
       !.pc = "lock", !.cmd = c,
       !.seen = IF c.op = "patch" THEN user[c.user].role ELSE None]]
  /\ sent' = sent + 1
  /\ UNCHANGED <<user, asg, lock>>

\* acquireOrganizationAdvisoryLock
Acquire(r) ==
  /\ At(r, "lock") /\ lock = None
  /\ lock' = r
  /\ req' = [req EXCEPT ![r].pc = "mutate"]
  /\ UNCHANGED <<user, asg, sent>>

\* COMMIT or ROLLBACK releases the lock.
Release(r) == lock' = IF lock = r THEN None ELSE lock

Answer(r) ==
  /\ Release(r)
  /\ req' = [req EXCEPT ![r] = Idle]
  /\ UNCHANGED <<user, asg, sent>>

-----------------------------------------------------------------------------
(* The change, one action per command.  A statement the database refuses    *)
(* ends the transaction.                                                    *)

Refused(r, error) ==
  /\ Release(r)
  /\ req' = [req EXCEPT ![r].pc = "failed", ![r].error = error]
  /\ UNCHANGED <<user, asg, sent>>

Written(r, row, rows, writes) ==
  IF IndexHolds(rows)
  THEN /\ req' = [req EXCEPT ![r].pc = "check", ![r].row = row,
                             ![r].rows = rows, ![r].writes = writes]
       /\ UNCHANGED <<user, asg, lock, sent>>
  ELSE Refused(r, "active_primary_unique")

\* The update of users.role in the same transaction.
WrittenAndSynced(r, row, rows) ==
  Written(r, Synced(row, rows), rows, ActivePrimary(rows) # {})

\* MUTANT of SyncedIfPrimary: the cache is not brought up to date.
Unsynced(r, x, rows) == Written(r, None, rows, FALSE)

\* The handlers update the cache when the row they touched has the flag.
SyncedIfPrimary(r, x, rows) ==
  IF x.primary THEN WrittenAndSynced(r, user[Target(r)], rows)
               ELSE Written(r, None, rows, FALSE)

\* POST /users and POST /invitations/accept; the name may have been taken.
Create(r) ==
  /\ Op(r, "create")
  /\ IF user[Target(r)] = None
     THEN Written(r, [active |-> TRUE, role |-> Role(r)],
                  AssignRow(NoAssignments, Role(r), TRUE), TRUE)
     ELSE Refused(r, "username_unique")

\* POST /users/:id/role-assignments
Assign(r) ==
  LET a == asg[Target(r)]
      rows == AssignRow(a, Role(r), req[r].cmd.flag) IN
  /\ Op(r, "assign")
  /\ CASE user[Target(r)] = None -> Refused(r, "user_foreign_key")
       [] user[Target(r)] # None /\ a[Role(r)] # None -> Refused(r, "role_unique")
       [] OTHER -> SyncedIfPrimary(r, rows[Role(r)], rows)

\* PATCH /role-assignments/:id with isPrimary: true
Promote(r) ==
  LET a == asg[Target(r)] IN
  /\ Op(r, "promote")
  /\ IF a[Role(r)] = None THEN Answer(r)
     ELSE WrittenAndSynced(r, user[Target(r)], SetPrimary(a, Role(r)))

\* PATCH /role-assignments/:id with isActive: true
Activate(r) ==
  LET a == asg[Target(r)] IN
  /\ Op(r, "activate")
  /\ IF a[Role(r)] = None \/ a[Role(r)].active THEN Answer(r)
     ELSE SyncedIfPrimary(r, a[Role(r)], ActivateRow(a, Role(r)))

\* PATCH /role-assignments/:id with isActive: false
Deactivate(r) ==
  LET a == asg[Target(r)] IN
  /\ Op(r, "deactivate")
  /\ IF a[Role(r)] = None THEN Answer(r)
     ELSE SyncedIfPrimary(r, a[Role(r)], DeactivateRow(a, Role(r)))

\* DELETE /role-assignments/:id
Remove(r) ==
  LET a == asg[Target(r)] IN
  /\ Op(r, "remove")
  /\ IF a[Role(r)] = None THEN Answer(r)
     ELSE SyncedIfPrimary(r, a[Role(r)], RemoveRow(a, Role(r)))

\* PATCH /users/:id: whether the role changes was decided by the earlier read.
Patch(r) ==
  LET c == req[r].cmd
      row == user[c.user]
      changed == IF c.flag = None THEN row ELSE [row EXCEPT !.active = c.flag]
      rows == IF c.role # None /\ c.role # req[r].seen
              THEN ReplacePrimary(asg[c.user], c.role) ELSE asg[c.user] IN
  /\ Op(r, "patch")
  /\ IF row = None THEN Answer(r)
     ELSE Written(r, Synced(changed, rows), rows, TRUE)

\* DELETE /users/:id: a candidate profile holds on to its account.
Delete(r) ==
  /\ Op(r, "delete")
  /\ IF Target(r) \in Profiled THEN Refused(r, "profile_foreign_key")
     ELSE Written(r, None, NoAssignments, TRUE)

-----------------------------------------------------------------------------
(* The post-conditions and the commit *)

\* The tables with what the transaction has written.
UserView(r) == IF req[r].writes THEN [user EXCEPT ![Target(r)] = req[r].row] ELSE user
AsgView(r) == [asg EXCEPT ![Target(r)] = req[r].rows]

GuardsAdmins(r) == req[r].cmd.op \in {"patch", "deactivate", "remove", "delete"}

\* MUTANT of PostconditionHolds: only the exclusion is checked.
ExclusionHolds(r) == Dual(UserView(r), AsgView(r)) = {}

\* MUTANT of PostconditionHolds: only the last administrator is checked.
AdminHolds(r) == GuardsAdmins(r) => Admins(UserView(r), AsgView(r)) # {}

PostconditionHolds(r) ==
  /\ Dual(UserView(r), AsgView(r)) = {}
  /\ GuardsAdmins(r) => Admins(UserView(r), AsgView(r)) # {}

Check(r) ==
  /\ At(r, "check")
  /\ IF PostconditionHolds(r)
     THEN /\ req' = [req EXCEPT ![r].pc = "commit"]
          /\ UNCHANGED <<user, asg, lock, sent>>
     ELSE Refused(r, "postcondition")

Commit(r) ==
  /\ At(r, "commit")
  /\ user' = UserView(r) /\ asg' = AsgView(r)
  /\ Release(r)
  /\ req' = [req EXCEPT ![r] = Idle]
  /\ UNCHANGED sent

\* The error is answered.
Fail(r) == At(r, "failed") /\ Answer(r)

\* The connection or the process is lost: nothing of the transaction stays.
Abort(r) == req[r].pc \in {"lock", "mutate", "check", "commit"} /\ Answer(r)

-----------------------------------------------------------------------------
(* Outside the lock *)

\* A row of users that a transaction has written is locked until it ends.
RowFree(u) ==
  \A r \in Requests : req[r].pc \in {"check", "commit"} /\ req[r].writes => Target(r) # u

\* POST /candidates and POST /candidates/import
CreateCandidate(u) ==
  /\ u \in Profiled /\ user[u] = None
  /\ \E a \in Users : IsAdmin(a)
  /\ user' = [user EXCEPT ![u] = [active |-> TRUE, role |-> "Candidate"]]
  /\ asg' = [asg EXCEPT ![u] = AssignRow(NoAssignments, "Candidate", TRUE)]
  /\ UNCHANGED <<lock, req, sent>>

\* PATCH /candidates/:id with isActive, by an Admin, of whatever account has
\* the profile.
PatchCandidate(u, active) ==
  /\ u \in Profiled /\ user[u] # None /\ RowFree(u)
  /\ \E a \in Users : IsAdmin(a)
  /\ user' = [user EXCEPT ![u].active = active]
  /\ UNCHANGED <<asg, lock, req, sent>>

-----------------------------------------------------------------------------

Step(r) ==
  \/ Acquire(r)
  \/ Create(r) \/ Assign(r) \/ Promote(r) \/ Activate(r)
  \/ Deactivate(r) \/ Remove(r) \/ Patch(r) \/ Delete(r)
  \/ Check(r) \/ Commit(r) \/ Fail(r)

Next ==
  \/ \E r \in Requests : Step(r) \/ Abort(r) \/ \E c \in Command : Send(r, c)
  \/ \E u \in Users : CreateCandidate(u) \/ \E b \in BOOLEAN : PatchCandidate(u, b)

Spec == Init /\ [][Next]_vars

-----------------------------------------------------------------------------
(* Properties *)

ReqType ==
  [pc: {"idle", "lock", "mutate", "check", "commit", "failed"},
   cmd: Command \cup {None}, seen: Roles \cup {None}, row: UserRow \cup {None},
   rows: Assignments, writes: BOOLEAN,
   error: {"none", "active_primary_unique", "username_unique", "user_foreign_key",
           "role_unique", "profile_foreign_key", "postcondition"}]

\* The rows of users and user_role_assignments, the lock and the handlers of
\* routes/user.ts and routes/roleAssignments.ts have their types.
TypeOK ==
  /\ user \in [Users -> UserRow \cup {None}]
  /\ asg \in [Users -> Assignments]
  /\ lock \in Requests \cup {None}
  /\ req \in [Requests -> ReqType]
  /\ sent \in 0..MaxCommands

\* mutateWithEffectiveAdminPostcondition: no commands, however they overlap,
\* take the last administrator away; only PATCH /candidates/:id, which runs
\* outside the lock, can have disabled an administrator nobody replaces.
AdminsRemain ==
  \/ Admins(user, asg) # {}
  \/ \E u \in Profiled : user[u] # None /\ ~user[u].active /\ "Admin" \in Active(asg[u])

\* mutateWithAuthorityInvariants: no two commands give an account half of
\* Admin and Maintainer each; only an account with a candidate profile can
\* have both, when PATCH /candidates/:id enables it again.
RolesExclusive == Dual(user, asg) \subseteq Profiled

\* syncUsersRoleFromPrimary: users.role is the role of the primary active
\* assignment after every command, whatever row it touched.
CacheFollowsPrimary ==
  \A u \in Users : \A x \in Roles :
    x \in ActivePrimary(asg[u]) => user[u] # None /\ user[u].role = x

\* What adminInvariant.ts says of every path that can change authority:
\* somebody can administrate.
SomeAdmin == Admins(user, asg) # {}

\* What userRoleAssignmentRepo.ts says of the rows of an account: who has an
\* active role has exactly one that is primary, so that the account can log in.
ExactlyOnePrimary ==
  \A u \in Users : Active(asg[u]) # {} => \E x \in Roles : ActivePrimary(asg[u]) = {x}

\* What schema/pg.ts says of the unique index: it is a backstop, since the
\* code demotes the other primary row before it promotes one.
IndexIsBackstop == \A r \in Requests : req[r].error # "active_primary_unique"
=============================================================================
