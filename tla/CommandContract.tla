--------------------------- MODULE CommandContract ---------------------------
(***************************************************************************)
(* What the dangerous staff commands on an attempt promise: force-submit,  *)
(* misconduct mark and operator time grant behave as if each delivery ran  *)
(* alone, at one instant between its arrival and its answer, and as if an  *)
(* operation id that has been used answered from what it recorded.         *)
(*                                                                         *)
(* CommandReceipts is the execution with its transactions, locks, retries  *)
(* and recovery; it implements this module.                                *)
(***************************************************************************)
EXTENDS Naturals

CONSTANTS
  None,
  Slots,        \* deliveries under way: one HTTP request each
  Ops,          \* operation ids chosen by the client
  Attempts,
  Manual,       \* the attempts whose frozen questions need manual grading
  Payloads,     \* canonical payloads; of a grant, the seconds it adds
  Times,        \* fastify.now() of a delivery
  MaxExtension, \* exam.closeAt less the deadline the attempt started with
  Commands      \* bound: the commands that are delivered

ReceiptKinds == {"force_submit", "misconduct_mark"}
Kinds == ReceiptKinds \cup {"time_grant"}

Command == [kind: Kinds, op: Ops, attempt: Attempts, payload: Payloads, at: Times]

\* Two tables, each with its unique index on (organization_id, operation_id).
Keys == {"receipts", "adjustments"} \X Ops
Key(c) == <<IF c.kind = "time_grant" THEN "adjustments" ELSE "receipts", c.op>>

Statuses == {"active", "submitted", "graded"}

\* The columns the commands touch: status with in_progress and disrupted as one,
\* the misconduct flag, and the deadline in seconds past its first value.
Attempt == [status: Statuses, flag: [at: Times, payload: Payloads] \cup {None},
            deadline: Nat]

\* What a command stores: the statuses around a force-submit, the deadlines
\* around a grant.
Row == [kind: Kinds, attempt: Attempts, payload: Payloads, at: Times,
        outcome: {"applied", "no_change", "granted"},
        beforeStatus: Statuses \cup {None}, afterStatus: Statuses \cup {None},
        beforeDeadline: Nat, afterDeadline: Nat]

Outcomes == {"applied", "no_change", "granted", "idempotent_replay", "conflict",
             "terminal", "error", "invariant_violation"}
Reply == [outcome: Outcomes, row: Row \cup {None}]

VARIABLES
  attempts, \* attempt -> Attempt
  ledger,   \* key -> the row of that table and operation id, or None
  audits,   \* key -> audit events that carry the operation id
  calls     \* slot -> its command and its answer

cvars == <<attempts, ledger, audits, calls>>

CInit ==
  /\ attempts = [a \in Attempts |-> [status |-> "active", flag |-> None, deadline |-> 0]]
  /\ ledger = [k \in Keys |-> None]
  /\ audits = [k \in Keys |-> 0]
  /\ calls = [s \in Slots |-> [cmd |-> None, reply |-> None]]

\* classifyAttemptCommandReplay, isSameOperatorGrantOperation: kind, attempt and
\* canonical payload agree.  The time of the delivery is no part of its identity.
SameCommand(row, c) ==
  row.kind = c.kind /\ row.attempt = c.attempt /\ row.payload = c.payload

\* A submission grades at once unless a question waits for a grader.
Submitted(a) == IF a \in Manual THEN "submitted" ELSE "graded"

\* The columns every command fills; what it does not have is blank.
RowOf(c, outcome) ==
  [kind |-> c.kind, attempt |-> c.attempt, payload |-> c.payload, at |-> c.at,
   outcome |-> outcome, beforeStatus |-> None, afterStatus |-> None,
   beforeDeadline |-> 0, afterDeadline |-> 0]

\* planForceSubmitExecution.
ForceSubmitRow(c, att) ==
  IF att.status = "active"
    THEN [RowOf(c, "applied") EXCEPT !.beforeStatus = att.status,
                                     !.afterStatus = Submitted(c.attempt)]
    ELSE [RowOf(c, "no_change") EXCEPT !.beforeStatus = att.status,
                                       !.afterStatus = att.status]

\* buildAppliedResultPayload: the flag holds the payload and the time.
MisconductRow(c) == RowOf(c, "applied")

\* The adjustment a grant inserts.
GrantRow(c, att) ==
  [RowOf(c, "granted") EXCEPT !.beforeDeadline = att.deadline,
                              !.afterDeadline = att.deadline + c.payload]

PlannedRow(c, att) ==
  CASE c.kind = "force_submit" -> ForceSubmitRow(c, att)
    [] c.kind = "misconduct_mark" -> MisconductRow(c)
    [] c.kind = "time_grant" -> GrantRow(c, att)

\* A grant is refused once the attempt ended or if it would pass exam.closeAt.
Permitted(c, att) ==
  c.kind = "time_grant" => att.status = "active" /\ att.deadline + c.payload <= MaxExtension

\* The attempt after the command: submitAttempt with grading, the misconduct
\* projection, the new deadline.
Effect(row, att) ==
  CASE row.kind = "force_submit" -> [att EXCEPT !.status = row.afterStatus]
    [] row.kind = "misconduct_mark" ->
         [att EXCEPT !.flag = [at |-> row.at, payload |-> row.payload]]
    [] row.kind = "time_grant" -> [att EXCEPT !.deadline = row.afterDeadline]

\* Only a real transition is audited.
Audited(row) == row.outcome # "no_change"

-----------------------------------------------------------------------------

Waiting(s) == calls[s].cmd # None /\ calls[s].reply = None

Answer(s, outcome, row) ==
  calls' = [calls EXCEPT ![s].reply = [outcome |-> outcome, row |-> row]]

Request(s) ==
  /\ ~Waiting(s)
  /\ \E c \in Commands : calls' = [calls EXCEPT ![s] = [cmd |-> c, reply |-> None]]
  /\ UNCHANGED <<attempts, ledger, audits>>

Execute(s) ==
  LET c == calls[s].cmd
      row == PlannedRow(c, attempts[c.attempt]) IN
  /\ Waiting(s)
  /\ ledger[Key(c)] = None
  /\ Permitted(c, attempts[c.attempt])
  /\ ledger' = [ledger EXCEPT ![Key(c)] = row]
  /\ attempts' = [attempts EXCEPT ![c.attempt] = Effect(row, @)]
  /\ audits' = IF Audited(row) THEN [audits EXCEPT ![Key(c)] = @ + 1] ELSE audits
  /\ Answer(s, row.outcome, row)

AnswerFromRow(s) ==
  LET c == calls[s].cmd
      row == ledger[Key(c)] IN
  /\ Waiting(s)
  /\ row # None
  /\ IF SameCommand(row, c) THEN Answer(s, "idempotent_replay", row)
                            ELSE Answer(s, "conflict", None)
  /\ UNCHANGED <<attempts, ledger, audits>>

\* A grant that finds the attempt over, or overdue: it ends the attempt and
\* records nothing.
Terminal(s) ==
  LET c == calls[s].cmd IN
  /\ Waiting(s)
  /\ c.kind = "time_grant"
  /\ attempts' = [attempts EXCEPT ![c.attempt].status =
                    IF @ = "active" THEN Submitted(c.attempt) ELSE @]
  /\ Answer(s, "terminal", None)
  /\ UNCHANGED <<ledger, audits>>

\* Refused, cut off or out of retries: nothing has happened.
Fail(s) ==
  /\ Waiting(s)
  /\ Answer(s, "error", None)
  /\ UNCHANGED <<attempts, ledger, audits>>

\* The candidate, the graders and the scanners move the attempt forward.
Advance(a) ==
  /\ \/ /\ attempts[a].status = "active"
        /\ attempts' = [attempts EXCEPT ![a].status = Submitted(a)]
     \/ /\ attempts[a].status = "submitted"
        /\ attempts' = [attempts EXCEPT ![a].status = "graded"]
  /\ UNCHANGED <<ledger, audits, calls>>

CNext ==
  \/ \E s \in Slots :
       Request(s) \/ Execute(s) \/ AnswerFromRow(s) \/ Terminal(s) \/ Fail(s)
  \/ \E a \in Attempts : Advance(a)

CSpec == CInit /\ [][CNext]_cvars
=============================================================================
