------------------------------- MODULE Incidents -------------------------------
(***************************************************************************)
(* The incidents of an exam: the commands of the staff                     *)
(* (packages/exam-engine/src/incidentCommands.ts), the incident that the   *)
(* heartbeat detector creates for every interruption episode               *)
(* (systemIncidentCommands.ts, apps/api/src/orchestrators/                 *)
(* systemIncidentDelivery.ts), and the recovery around each of them        *)
(* (incidentOperationRecovery.ts).                                         *)
(*                                                                         *)
(* A command is one REPEATABLE READ transaction: its plain reads see one   *)
(* snapshot and are one step, a row lock waits and fails with 40001 if the *)
(* row changed since, a unique index waits for uncommitted rows and counts *)
(* committed ones whether the snapshot shows them or not.                  *)
(***************************************************************************)
EXTENDS Naturals

CONSTANTS
  None,
  Slots,       \* handlers of requests and heartbeat cycles under way
  Incidents,   \* ids an incident may get
  Ops,         \* operation ids made by clients
  Episodes,    \* interruption episodes; also the operation id derived from each,
               \* which a client may supply as well
  Attempts,
  AttemptOf,   \* the attempt of an episode, or of an action of the staff
  Candidates,
  CandidateOf, \* the candidate of an attempt
  Actions,     \* time grants and force-submits that may be linked
  Severities,
  Commands,    \* the requests of the staff
  MaxRetries,  \* MAX_RETRIES of executeInTransaction
  MaxFaults    \* bound: transactions that fail, processes that stop

VARIABLES
  incidents,  \* exam_incidents
  events,     \* exam_incident_events, by operation id
  links,      \* the three link tables
  detected,   \* episodes in the ledger
  job,        \* slot -> the command it executes
  todo,       \* slot -> episodes its heartbeat cycle has still to deliver
  faults

vars == <<incidents, events, links, detected, job, todo, faults>>

Keys == Ops \cup Episodes

BumpKinds == {"investigate", "severity", "resolve", "dismiss"}
LinkKinds == {"link_action", "link_attempt", "link_interruption"}
CreateKinds == {"create", "create_system"}
Kinds == BumpKinds \cup LinkKinds \cup CreateKinds \cup {"note"}

Args == Attempts \cup Candidates \cup Episodes \cup Actions \cup Severities \cup {None}

\* arg is the anchor of a new incident, a severity, or what is linked.
Command == [kind: Kinds, op: Keys, incident: Incidents \cup {None}, arg: Args,
            expectedVersion: Nat]

Incident == [status: {"open", "investigating", "resolved", "dismissed"},
             severity: Severities, attempt: Attempts \cup {None},
             candidate: Candidates \cup {None}, version: Nat]

\* severities are the before and after values that only a severity change adds.
Payload == [command: Command, severities: (Severities \X Severities) \cup {None}]

Event == [payload: Payload, incident: Incidents, before: Nat, after: Nat]

Link == [kind: Kinds, incident: Incidents, arg: Args, op: Keys]

Outcomes == {"applied", "idempotent_replayed", "conflict", "version_conflict",
             "invalid_transition", "already_linked", "error"}

ASSUME IncidentsAssumption ==
  /\ None \notin Incidents /\ None \notin Attempts
  /\ None \notin Command /\ None \notin Incident /\ None \notin Event
  /\ None \notin Severities \X Severities
  /\ None \notin Outcomes
  /\ Severities # {}
  /\ AttemptOf \in [Episodes \cup Actions -> Attempts]
  /\ CandidateOf \in [Attempts -> Candidates]
  /\ MaxRetries \in Nat /\ MaxFaults \in Nat
  /\ \A c \in Commands :
       /\ c \in Command /\ c.kind # "create_system"
       /\ c.kind # "create" => c.incident \in Incidents
       /\ c.arg \in CASE c.kind = "create" -> Attempts \cup Candidates \cup {None}
                       [] c.kind = "severity" -> Severities
                       [] c.kind = "link_attempt" -> Attempts
                       [] c.kind = "link_interruption" -> Episodes
                       [] c.kind = "link_action" -> Actions
                       [] OTHER -> {None}

\* createSystemIncidentFromHeartbeatEpisode: everything follows from the episode.
SystemCommand(e) ==
  [kind |-> "create_system", op |-> e, incident |-> None, arg |-> e,
   expectedVersion |-> 0]

Info == CHOOSE s \in Severities : TRUE

\* base is the version that the transaction read; refused is the error that the
\* recovery may supersede; rerun marks the second execution.
JobOf(step, c, reply) ==
  [pc |-> step, cmd |-> c, reply |-> reply, base |-> 0, stale |-> FALSE,
   tries |-> 0, rerun |-> FALSE, refused |-> None]

Init ==
  /\ incidents = [i \in Incidents |-> None]
  /\ events = [k \in Keys |-> None]
  /\ links = {}
  /\ detected = {}
  /\ job = [s \in Slots |-> JobOf("idle", None, None)]
  /\ todo = [s \in Slots |-> {}]
  /\ faults = 0

-----------------------------------------------------------------------------
(* What a command does to the rows *)

\* The event of a severity change carries the severities as well.
StoredPayload(c, before) ==
  [command |-> c,
   severities |-> IF c.kind = "severity" THEN <<before, c.arg>> ELSE None]

CanonicalPayload(c) == [command |-> c, severities |-> None]

\* MUTANT of Matching: the operation id alone decides.
MatchingOperation(event, c) == event.payload.command.op = c.op

\* isMatchingCommittedOperation.
Matching(event, c) == event.payload = CanonicalPayload(c)

\* allowedStatuses, after the check for a terminal status.
Allowed(c, row) ==
  row.status = "open" \/ (row.status = "investigating" /\ c.kind # "investigate")

\* updateFields.
Updated(c, row) ==
  [row EXCEPT
     !.version = @ + 1,
     !.severity = IF c.kind = "severity" THEN c.arg ELSE @,
     !.status = CASE c.kind = "investigate" -> "investigating"
                  [] c.kind = "resolve" -> "resolved"
                  [] c.kind = "dismiss" -> "dismissed"
                  [] OTHER -> @]

\* The attempt that an incident is created for.
Anchor(c) ==
  IF c.kind = "create_system" THEN AttemptOf[c.arg]
  ELSE IF c.arg \in Attempts THEN c.arg ELSE None

\* A create: with an attempt the candidate is the attempt's, without one it is
\* the enrolled candidate of the request, or nobody.
Created(c) ==
  [status |-> "open", severity |-> Info, version |-> 1, attempt |-> Anchor(c),
   candidate |-> IF Anchor(c) # None THEN CandidateOf[Anchor(c)] ELSE c.arg]

\* The attempt that a link refers to.
Referent(c) == IF c.kind = "link_attempt" THEN c.arg ELSE AttemptOf[c.arg]

\* validateScopeQuadruple, for incidents and attempts of one exam.
InScope(c, row) ==
  /\ row.attempt = None \/ row.attempt = Referent(c)
  /\ row.candidate = None \/ row.candidate = CandidateOf[Referent(c)]

LinkRow(c, i) == [kind |-> c.kind, incident |-> i, arg |-> c.arg, op |-> c.op]

\* The detector's link is a row of the table of interruption links as well.
Table(l) == IF l.kind = "create_system" THEN "link_interruption" ELSE l.kind

\* The unique index of each link table: an action is linked once, an attempt or
\* an episode once per incident.
Clash(l, m) ==
  /\ Table(l) = Table(m) /\ l.arg = m.arg
  /\ l.kind = "link_action" \/ l.incident = m.incident

-----------------------------------------------------------------------------
(* Control *)

At(s, step) == job[s].pc = step

Respond(s, outcome) ==
  job' = [job EXCEPT ![s] = JobOf("idle", job[s].cmd, outcome)]

\* A thrown error: withIncidentOperationRecovery looks the operation up after a
\* version or state conflict, after 40001, and after anything in a second run.
Throw(s, outcome, recoverable) ==
  IF recoverable \/ job[s].rerun
    THEN job' = [job EXCEPT ![s].pc = "recover", ![s].refused = outcome]
    ELSE Respond(s, outcome)

Rows == <<incidents, events, links, detected>>

\* The rows a transaction has inserted and not yet committed.
Inserted(s) == job[s].pc \in {"link", "commit"}

HoldsLock(s, i) ==
  /\ job[s].pc \in {"event", "commit"}
  /\ job[s].cmd.kind \in BumpKinds /\ job[s].cmd.incident = i

\* MUTANT of Locked: findById instead of findByIdForUpdate.
NotLocked(i) == FALSE

Locked(i) == \E s \in Slots : HoldsLock(s, i)

\* A request of someone who has been shown the incident and the episode, and who
\* may take the episode's operation id for his own.
Deliver(s, c) ==
  /\ At(s, "idle") /\ todo[s] = {}
  /\ c.kind # "create" => incidents[c.incident] # None
  /\ c.kind = "link_interruption" => c.arg \in detected
  /\ c.op \in Episodes => c.op \in detected
  /\ job' = [job EXCEPT ![s] = JobOf("begin", c, None)]
  /\ UNCHANGED <<Rows, todo, faults>>

-----------------------------------------------------------------------------
(* The heartbeat cycle *)

\* The heartbeat scanner commits an episode (MarkDisrupted of ExamRuntime).
Detect(e) ==
  /\ e \notin detected
  /\ detected' = detected \cup {e}
  /\ UNCHANGED <<incidents, events, links, job, todo, faults>>

\* MUTANT of Delivered: any use of the operation id counts.
OperationPresent(e) == events[e] # None

\* The completion probe: the arbiter holds the episode's own operation, not one
\* of the staff that was given the same operation id.
Delivered(e) == events[e] # None /\ Matching(events[e], SystemCommand(e))

\* reconcileSystemIncidents lists the episodes and probes the arbiter.
Reconcile(s) ==
  /\ At(s, "idle") /\ todo[s] = {}
  /\ {e \in detected : ~Delivered(e)} # {}
  /\ todo' = [todo EXCEPT ![s] = {e \in detected : ~Delivered(e)}]
  /\ UNCHANGED <<Rows, job, faults>>

\* deliverSystemIncidentForHeartbeatEpisode; a failure does not end the pass.
DeliverSystem(s, e) ==
  /\ At(s, "idle") /\ e \in todo[s]
  /\ todo' = [todo EXCEPT ![s] = @ \ {e}]
  /\ job' = [job EXCEPT ![s] = JobOf("begin", SystemCommand(e), None)]
  /\ UNCHANGED <<Rows, faults>>

-----------------------------------------------------------------------------
(* The transaction of a command *)

\* preReadOperationId finds the operation: a replay, or IdempotencyConflictError.
PreReadHit(s) ==
  LET c == job[s].cmd IN
  /\ At(s, "begin") /\ events[c.op] # None
  /\ IF Matching(events[c.op], c)
       THEN Respond(s, "idempotent_replayed")
       ELSE Throw(s, "conflict", FALSE)
  /\ UNCHANGED <<Rows, todo, faults>>

\* The snapshot shows the operation id unused, and the checks that only read it
\* pass: an append-only command goes on to write, the others to the lock.
Begin(s) ==
  LET c == job[s].cmd IN
  /\ At(s, "begin") /\ events[c.op] = None
  /\ c.kind \in LinkKinds => InScope(c, incidents[c.incident])
  /\ c.kind = "link_attempt" => incidents[c.incident].attempt = None
  /\ c.kind = "link_action" => ~\E l \in links : Clash(l, LinkRow(c, c.incident))
  /\ job' = [job EXCEPT
       ![s].pc = IF c.kind \in BumpKinds THEN "lock" ELSE "event",
       ![s].stale = FALSE,
       ![s].base = IF c.kind \in CreateKinds THEN 0 ELSE incidents[c.incident].version]
  /\ UNCHANGED <<Rows, todo, faults>>

\* The checks of a link fail: the lookup of the action link, anchor exclusivity
\* (an InvalidStateTransitionError, before the scope), the scope quadruple.
LinkRefused(s) ==
  LET c == job[s].cmd
      row == incidents[c.incident] IN
  /\ At(s, "begin") /\ events[c.op] = None
  /\ c.kind \in LinkKinds
  /\ \/ /\ c.kind = "link_action"
        /\ \E l \in links : Clash(l, LinkRow(c, c.incident))
        /\ Throw(s, "already_linked", FALSE)
     \/ /\ c.kind = "link_attempt" /\ row.attempt # None
        /\ Throw(s, "invalid_transition", TRUE)
     \/ /\ c.kind = "link_action" => ~\E l \in links : Clash(l, LinkRow(c, c.incident))
        /\ c.kind = "link_attempt" => row.attempt = None
        /\ ~InScope(c, row)
        /\ Throw(s, "error", FALSE)
  /\ UNCHANGED <<Rows, todo, faults>>

\* 40001 from FOR UPDATE: executeInTransaction starts over, then gives up.
LockOutdated(s) ==
  /\ At(s, "lock") /\ ~Locked(job[s].cmd.incident) /\ job[s].stale
  /\ IF job[s].tries < MaxRetries
       THEN job' = [job EXCEPT ![s].pc = "begin", ![s].tries = @ + 1]
       ELSE Throw(s, "error", TRUE)
  /\ UNCHANGED <<Rows, todo, faults>>

CurrentVersion(c, row) == row.version = c.expectedVersion

\* versionBumpCommand from the lock to the update.  The second look for the
\* operation id reads the snapshot of the first and finds nothing new.
LockRow(s) ==
  LET c == job[s].cmd
      row == incidents[c.incident] IN
  /\ At(s, "lock") /\ ~Locked(c.incident) /\ ~job[s].stale
  /\ IF ~CurrentVersion(c, row) THEN Throw(s, "version_conflict", TRUE)
     ELSE IF ~Allowed(c, row) THEN Throw(s, "invalid_transition", TRUE)
     ELSE job' = [job EXCEPT ![s].pc = "event"]
  /\ UNCHANGED <<Rows, todo, faults>>

\* Another transaction's event of the operation id is not committed yet.
EventPending(s) == \E r \in Slots \ {s} : Inserted(r) /\ job[r].cmd.op = job[s].cmd.op

\* appendEvent.
AppendEvent(s) ==
  LET c == job[s].cmd IN
  /\ At(s, "event") /\ ~EventPending(s)
  /\ events[c.op] = None
  /\ job' = [job EXCEPT ![s].pc = IF c.kind \in LinkKinds THEN "link" ELSE "commit"]
  /\ UNCHANGED <<Rows, todo, faults>>

\* 23505 of the operation id: one more execution from the start, then the lookup.
OperationTaken(s) ==
  LET c == job[s].cmd IN
  /\ At(s, "event") /\ ~EventPending(s)
  /\ events[c.op] # None
  /\ IF job[s].rerun
       THEN Throw(s, "error", TRUE)
       ELSE job' = [job EXCEPT ![s].pc = "begin", ![s].tries = 0, ![s].rerun = TRUE]
  /\ UNCHANGED <<Rows, todo, faults>>

\* MUTANT of LinkPending: an index without uniqueness does not wait.
NeverPending(s) == FALSE

\* Another transaction's link of the same index entry is not committed yet.
LinkPending(s) ==
  \E r \in Slots \ {s} :
    /\ At(r, "commit") /\ job[r].cmd.kind \in LinkKinds
    /\ Clash(LinkRow(job[r].cmd, job[r].cmd.incident),
             LinkRow(job[s].cmd, job[s].cmd.incident))

\* insertActionLink, insertAttemptMembership, insertInterruptionLink.
InsertLink(s) ==
  LET c == job[s].cmd IN
  /\ At(s, "link") /\ ~LinkPending(s)
  /\ IF \E l \in links : Clash(l, LinkRow(c, c.incident))
       THEN Throw(s, "already_linked", FALSE)
       ELSE job' = [job EXCEPT ![s].pc = "commit"]
  /\ UNCHANGED <<Rows, todo, faults>>

\* Whoever waits for the row of incident i with its snapshot gets 40001.
Outdated(jobs, i) ==
  [r \in Slots |-> IF jobs[r].pc = "lock" /\ jobs[r].cmd.incident = i
                     THEN [jobs[r] EXCEPT !.stale = TRUE]
                     ELSE jobs[r]]

Done(s) == [job EXCEPT ![s] = JobOf("idle", job[s].cmd, "applied")]

EventOf(c, i, before, after, severity) ==
  [payload |-> StoredPayload(c, severity), incident |-> i,
   before |-> before, after |-> after]

\* COMMIT makes the event, the row and the links of a command visible at once.
CommitCreate(s, i) ==
  LET c == job[s].cmd IN
  /\ At(s, "commit") /\ c.kind \in CreateKinds
  /\ incidents[i] = None
  /\ incidents' = [incidents EXCEPT ![i] = Created(c)]
  /\ events' = [events EXCEPT ![c.op] = EventOf(c, i, 0, 1, Info)]
  /\ links' = IF c.kind = "create_system" THEN links \cup {LinkRow(c, i)} ELSE links
  /\ job' = Done(s)
  /\ UNCHANGED <<detected, todo, faults>>

CommitBump(s) ==
  LET c == job[s].cmd
      row == incidents[c.incident] IN
  /\ At(s, "commit") /\ c.kind \in BumpKinds
  /\ incidents' = [incidents EXCEPT ![c.incident] = Updated(c, @)]
  /\ events' = [events EXCEPT ![c.op] =
                  EventOf(c, c.incident, row.version, row.version + 1, row.severity)]
  /\ job' = Outdated(Done(s), c.incident)
  /\ UNCHANGED <<links, detected, todo, faults>>

CommitAppend(s) ==
  LET c == job[s].cmd IN
  /\ At(s, "commit") /\ c.kind \in LinkKinds \cup {"note"}
  /\ events' = [events EXCEPT ![c.op] =
                  EventOf(c, c.incident, job[s].base, job[s].base, Info)]
  /\ links' = IF c.kind \in LinkKinds THEN links \cup {LinkRow(c, c.incident)} ELSE links
  /\ job' = Done(s)
  /\ UNCHANGED <<incidents, detected, todo, faults>>

\* resolveCommittedOperation, in a fresh transaction that only reads.
Recover(s) ==
  LET c == job[s].cmd IN
  /\ At(s, "recover")
  /\ Respond(s, IF events[c.op] = None THEN job[s].refused
                ELSE IF Matching(events[c.op], c) THEN "idempotent_replayed"
                ELSE "conflict")
  /\ UNCHANGED <<Rows, todo, faults>>

\* A statement fails for another reason, and a heartbeat cycle goes on with the
\* next episode; or the process stops, and its list is lost.
Fail(s, dies) ==
  /\ ~At(s, "idle") \/ (dies /\ todo[s] # {})
  /\ faults < MaxFaults
  /\ faults' = faults + 1
  /\ job' = [job EXCEPT ![s] = JobOf("idle", job[s].cmd, "error")]
  /\ todo' = IF dies THEN [todo EXCEPT ![s] = {}] ELSE todo
  /\ UNCHANGED Rows

Step(s) ==
  \/ PreReadHit(s) \/ Begin(s) \/ LinkRefused(s) \/ LockOutdated(s) \/ LockRow(s)
  \/ AppendEvent(s) \/ OperationTaken(s) \/ InsertLink(s)
  \/ (\E i \in Incidents : CommitCreate(s, i)) \/ CommitBump(s) \/ CommitAppend(s)
  \/ Recover(s) \/ \E e \in Episodes : DeliverSystem(s, e)

Next ==
  \/ \E s \in Slots :
       \/ Step(s) \/ Reconcile(s)
       \/ \E dies \in BOOLEAN : Fail(s, dies)
       \/ \E c \in Commands : Deliver(s, c)
  \/ \E e \in Episodes : Detect(e)

Spec == Init /\ [][Next]_vars

\* The server and the database go on; the heartbeat timer keeps firing whatever
\* requests come.
FairSpec == Spec /\ \A s \in Slots : WF_vars(Step(s)) /\ SF_vars(Reconcile(s))

-----------------------------------------------------------------------------

Steps == {"idle", "begin", "lock", "event", "link", "commit", "recover"}

Job == [pc: Steps, cmd: Command \cup {None}, reply: Outcomes \cup {None}, base: Nat,
        stale: BOOLEAN, tries: 0..MaxRetries, rerun: BOOLEAN,
        refused: Outcomes \cup {None}]

\* The rows and the handlers have their types; no transaction is retried more than
\* MAX_RETRIES times, and no cycle holds an episode that is none.
TypeOK ==
  /\ incidents \in [Incidents -> Incident \cup {None}]
  /\ events \in [Keys -> Event \cup {None}]
  /\ links \subseteq Link
  /\ detected \subseteq Episodes
  /\ job \in [Slots -> Job]
  /\ todo \in [Slots -> SUBSET Episodes]
  /\ faults \in 0..MaxFaults

EventsOf(i) == {k \in Keys : events[k] # None /\ events[k].incident = i}

KindOf(k) == events[k].payload.command.kind

\* Event k moved its incident to version v.
Moved(k, v) == events[k].before + 1 = v /\ events[k].after = v

\* The last event of incident i among the given kinds.
LastOf(k, i, kinds) ==
  /\ k \in EventsOf(i) /\ KindOf(k) \in kinds
  /\ \A j \in EventsOf(i) : KindOf(j) \in kinds => events[j].after <= events[k].after

StatusAfter(kind) ==
  CASE kind = "resolve" -> "resolved"
    [] kind = "dismiss" -> "dismissed"
    [] OTHER -> "investigating"

StatusKinds == BumpKinds \ {"severity"}

\* The events of an incident are its whole history: every version was made by
\* exactly one of them, the status and the severity are what the last of them
\* set, nothing follows a resolution or a dismissal; whatever commands raced.
HistoryTellsState ==
  \A i \in Incidents :
    IF incidents[i] = None
      THEN EventsOf(i) = {}
      ELSE /\ \A v \in 1..incidents[i].version :
                \E k \in EventsOf(i) :
                  Moved(k, v) /\ \A j \in EventsOf(i) : Moved(j, v) => j = k
           /\ \A k \in EventsOf(i) :
                /\ events[k].after <= incidents[i].version
                /\ KindOf(k) \in {"resolve", "dismiss"}
                     => events[k].after = incidents[i].version
                /\ LastOf(k, i, {"severity"})
                     => incidents[i].severity = events[k].payload.command.arg
                /\ LastOf(k, i, StatusKinds) => incidents[i].status = StatusAfter(KindOf(k))
           /\ (\A k \in EventsOf(i) : KindOf(k) \notin StatusKinds)
                => incidents[i].status = "open"

LinkingKinds == LinkKinds \cup {"create_system"}

\* A link is committed with the event that made it and with no other, nothing is
\* linked twice, and an incident anchored at an attempt has no link to another.
LinksHaveEvents ==
  /\ \A k \in Keys :
       events[k] # None /\ KindOf(k) \in LinkingKinds
         => LinkRow(events[k].payload.command, events[k].incident) \in links
  /\ \A l \in links :
       /\ events[l.op] # None
       /\ l = LinkRow(events[l.op].payload.command, events[l.op].incident)
       /\ InScope(l, incidents[l.incident])
       /\ l.kind = "link_attempt" => incidents[l.incident].attempt = None
       /\ \A m \in links : Clash(l, m) => l = m

\* A success names an operation that was committed for exactly this command,
\* whoever committed it, and "already linked" a link that exists.
RepliesAreTrue ==
  \A s \in Slots :
    LET c == job[s].cmd IN
    /\ job[s].reply \in {"applied", "idempotent_replayed"}
         => events[c.op] # None /\ events[c.op].payload.command = c
    /\ job[s].reply = "already_linked"
         => \E l \in links : Clash(l, LinkRow(c, c.incident))

\* The incident of the detector exists, with its link to the episode.
Reported(e) == \E l \in links : l.kind = "create_system" /\ l.arg = e

\* A delivery for the episode ends with a conflict, because the operation id
\* derived from the episode is held by another command.
ConflictSurfaces(e) ==
  \E s \in Slots :
    /\ ~At(s, "idle") /\ job[s].cmd = SystemCommand(e)
    /\ events[e] # None /\ events[e].payload.command # SystemCommand(e)
    /\ job'[s].reply = "conflict"

\* No episode that the heartbeat scanner commits is forgotten, although
\* deliveries fail, processes stop, and the staff links the episode elsewhere:
\* it gets its incident or, if a command of the staff took the operation id
\* derived from it, cycle after cycle reports that conflict.
EpisodesReported ==
  \A e \in Episodes :
    <>(e \in detected) => <>Reported(e) \/ []<><<ConflictSurfaces(e)>>_vars

\* ADR-014: IDEMPOTENCY_CONFLICT means that the operation id is consumed by a
\* different command.
ConflictIsReal ==
  \A s \in Slots :
    job[s].reply = "conflict" => events[job[s].cmd.op].payload.command # job[s].cmd
=============================================================================
