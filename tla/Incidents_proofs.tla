--------------------------- MODULE Incidents_proofs ---------------------------
(***************************************************************************)
(* Proofs about the incidents of an exam, for any requests, operation ids, *)
(* episodes, attempts and bounds.                                          *)
(***************************************************************************)
EXTENDS Incidents, TLAPS

-----------------------------------------------------------------------------
(* The inductive invariant *)

\* The commands that a handler may execute.
Known(c) == c \in Commands \/ \E e \in Episodes : c = SystemCommand(e)

Planned(J) == J.pc \in {"event", "link", "commit"}

\* What a handler relies on, given the rows: its command's incident exists; from
\* the checks to the commit, the version it read is still the row's, its link is
\* in scope, and no row in its way is committed; its answer is true.
GoodIn(J, inc, evs, lks) ==
  LET c == J.cmd
      row == inc[c.incident] IN
  /\ J.pc # "idle" \/ J.reply \in {"applied", "idempotent_replayed"} => c # None
  /\ c # None => Known(c)
  /\ c # None /\ c.kind \notin CreateKinds => row # None
  /\ J.pc = "lock" => c.kind \in BumpKinds
  /\ J.pc = "link" => c.kind \in LinkKinds
  /\ Planned(J) /\ c.kind \in BumpKinds
       => row.version = c.expectedVersion /\ Allowed(c, row)
  /\ Planned(J) /\ c.kind \in LinkKinds
       => InScope(c, row) /\ (c.kind = "link_attempt" => row.attempt = None)
  /\ Planned(J) /\ c.kind \in LinkKinds \cup {"note"} => J.base <= row.version
  /\ J.pc \in {"link", "commit"} => evs[c.op] = None
  /\ J.pc = "commit" /\ c.kind \in LinkKinds
       => \A l \in lks : ~Clash(l, LinkRow(c, c.incident))
  /\ J.refused \notin {"applied", "idempotent_replayed"}
  /\ "already_linked" \in {J.refused, J.reply}
       => \E l \in lks : Clash(l, LinkRow(c, c.incident))
  /\ J.reply \in {"applied", "idempotent_replayed"}
       => evs[c.op] # None /\ evs[c.op].payload.command = c

GoodJob(J) == GoodIn(J, incidents, events, links)

\* Two handlers between their checks and their commits do not meet: not in the
\* operation id, not in the locked incident, not in the index of a link.
Apart(J, K) ==
  /\ J.pc \in {"link", "commit"} /\ K.pc \in {"link", "commit"} => J.cmd.op # K.cmd.op
  /\ /\ J.pc \in {"event", "commit"} /\ J.cmd.kind \in BumpKinds
     /\ K.pc \in {"event", "commit"} /\ K.cmd.kind \in BumpKinds
     => J.cmd.incident # K.cmd.incident
  /\ /\ J.pc = "commit" /\ J.cmd.kind \in LinkKinds
     /\ K.pc = "commit" /\ K.cmd.kind \in LinkKinds
     => ~Clash(LinkRow(J.cmd, J.cmd.incident), LinkRow(K.cmd, K.cmd.incident))

\* An event is of a known command, and moves the version if the command does.
GoodEvent(k) ==
  LET c == events[k].payload.command IN
  /\ Known(c) /\ c.op = k
  /\ c.kind \notin CreateKinds => c.incident = events[k].incident
  /\ events[k].after = events[k].before
                         + (IF c.kind \in BumpKinds \cup CreateKinds THEN 1 ELSE 0)

IInv ==
  /\ TypeOK
  /\ \A s \in Slots : GoodJob(job[s])
  /\ \A r, s \in Slots : r # s => Apart(job[r], job[s])
  /\ \A k \in Keys : events[k] # None => GoodEvent(k)
  /\ HistoryTellsState
  /\ LinksHaveEvents

-----------------------------------------------------------------------------
(* Facts about commands, links and jobs *)

\* What is known of a command that a handler executes.
LEMMA KnownFacts ==
  ASSUME NEW c, Known(c)
  PROVE  /\ c \in Command /\ c # None
         /\ c.kind \in Kinds /\ c.op \in Keys /\ c.arg \in Args /\ c.expectedVersion \in Nat
         /\ c.kind \notin CreateKinds => c.incident \in Incidents
         /\ c.kind = "severity" => c.arg \in Severities
         /\ c.kind = "create" => c.arg \in Attempts \cup Candidates \cup {None}
         /\ c.kind = "link_attempt" => c.arg \in Attempts
         /\ c.kind \in {"link_interruption", "link_action", "create_system"}
              => AttemptOf[c.arg] \in Attempts
<1>1. CASE c \in Commands
  <2>1. c \in Command /\ c.kind # "create_system"
        /\ (c.kind # "create" => c.incident \in Incidents)
    BY <1>1, IncidentsAssumption
  <2>2. c.kind = "severity" => c.arg \in Severities
    BY <1>1, IncidentsAssumption
  <2>3. c.kind = "create" => c.arg \in Attempts \cup Candidates \cup {None}
    BY <1>1, IncidentsAssumption
  <2>4. c.kind = "link_attempt" => c.arg \in Attempts
    BY <1>1, IncidentsAssumption
  <2>5. c.kind = "link_interruption" => c.arg \in Episodes
    BY <1>1, IncidentsAssumption
  <2>6. c.kind = "link_action" => c.arg \in Actions
    BY <1>1, IncidentsAssumption
  <2>7. c.kind \in {"link_interruption", "link_action"} => AttemptOf[c.arg] \in Attempts
    BY <2>5, <2>6, IncidentsAssumption
  <2> QED
    BY <2>1, <2>2, <2>3, <2>4, <2>7, IncidentsAssumption DEF Command, CreateKinds
<1>2. CASE \E e \in Episodes : c = SystemCommand(e)
  <2>1. PICK e \in Episodes : c = SystemCommand(e)
    BY <1>2
  <2>2. AttemptOf[e] \in Attempts
    BY IncidentsAssumption
  <2>3. c \in Command
    BY <2>1 DEF SystemCommand, Command, Kinds, CreateKinds, Keys, Args
  <2>4. c.kind = "create_system" /\ c.arg = e
    BY <2>1 DEF SystemCommand
  <2> QED
    BY <2>2, <2>3, <2>4, IncidentsAssumption DEF Command, CreateKinds
<1> QED
  BY <1>1, <1>2 DEF Known

\* A handler without a reply claims nothing.
LEMMA NoneIsNoOutcome == None \notin {"applied", "idempotent_replayed", "already_linked"}
  BY IncidentsAssumption DEF Outcomes

\* Clashing in a unique index is symmetric.
LEMMA ClashSymmetric ==
  ASSUME NEW l, NEW m, Clash(l, m)
  PROVE  Clash(m, l)
<1>1. l.kind = "link_action" => m.kind = "link_action"
  BY DEF Clash, Table
<1> QED
  BY <1>1 DEF Clash

\* Keeping apart is symmetric.
LEMMA ApartSymmetric ==
  ASSUME NEW J, NEW K, Apart(J, K)
  PROVE  Apart(K, J)
  BY ClashSymmetric DEF Apart

\* What the invariant says of one handler.
LEMMA JobFacts ==
  ASSUME IInv, NEW s \in Slots
  PROVE  /\ job[s] \in Job /\ GoodJob(job[s]) /\ TypeOK
         /\ job[s].cmd # None => Known(job[s].cmd)
         /\ ~At(s, "idle") => job[s].cmd # None /\ Known(job[s].cmd)
  BY DEF IInv, TypeOK, GoodJob, GoodIn, At

\* A step that writes no incident, event or link, and changes at most one job.
LEMMA LocalStep ==
  ASSUME IInv, NEW s \in Slots, NEW J \in Job,
         job' = [job EXCEPT ![s] = J], GoodJob(J),
         \A r \in Slots : r # s => Apart(job[r], J),
         UNCHANGED <<incidents, events, links>>,
         detected' \subseteq Episodes, todo' \in [Slots -> SUBSET Episodes],
         faults' \in 0..MaxFaults
  PROVE  IInv'
<1>1. TypeOK'
  BY DEF IInv, TypeOK
<1>2. job'[s] = J /\ \A r \in Slots : r # s => job'[r] = job[r]
  BY DEF IInv, TypeOK
<1>3. \A r \in Slots : GoodJob(job[r])'
  <2> SUFFICES ASSUME NEW r \in Slots PROVE GoodJob(job[r])'
    OBVIOUS
  <2>1. GoodJob(job'[r])
    BY <1>2 DEF IInv
  <2>2. GoodIn(job'[r], incidents', events', links')
    BY <2>1 DEF GoodJob
  <2> QED
    BY <2>2 DEF GoodJob
<1>4. ASSUME NEW q \in Slots, NEW r \in Slots, q # r PROVE Apart(job[q], job[r])'
  <2>1. Apart(job'[q], job'[r])
    BY <1>2, <1>4, ApartSymmetric DEF IInv
  <2> QED
    BY <2>1 DEF Apart
<1>5. \A k \in Keys : events'[k] # None => GoodEvent(k)'
  BY DEF IInv, GoodEvent
<1>6. HistoryTellsState'
  BY DEF IInv, HistoryTellsState, EventsOf, KindOf, Moved, LastOf
<1>7. LinksHaveEvents'
  BY DEF IInv, LinksHaveEvents, KindOf
<1> QED
  BY <1>1, <1>3, <1>4, <1>5, <1>6, <1>7 DEF IInv

\* A job that holds nothing is apart from every other.
LEMMA QuietStep ==
  ASSUME IInv, NEW s \in Slots, NEW J \in Job,
         job' = [job EXCEPT ![s] = J], GoodJob(J),
         J.pc \in {"idle", "begin", "lock", "recover"},
         UNCHANGED <<incidents, events, links>>,
         detected' \subseteq Episodes, todo' \in [Slots -> SUBSET Episodes],
         faults' \in 0..MaxFaults
  PROVE  IInv'
<1>1. \A r \in Slots : r # s => Apart(job[r], J)
  BY DEF Apart
<1> QED
  BY <1>1, LocalStep

\* A step that leaves the rows alone.
LEMMA Unchanged ==
  ASSUME TypeOK, UNCHANGED <<Rows, todo, faults>>
  PROVE  /\ UNCHANGED <<incidents, events, links>>
         /\ detected' \subseteq Episodes /\ todo' \in [Slots -> SUBSET Episodes]
         /\ faults' \in 0..MaxFaults
  BY DEF TypeOK, Rows

\* The event of the operation id is of this very command.
Truth(c) == events[c.op] # None /\ events[c.op].payload.command = c

LinkExists(c) == \E l \in links : Clash(l, LinkRow(c, c.incident))

\* The job of a handler that has answered, or waits to start.
LEMMA FreshJob ==
  ASSUME IInv, NEW step \in {"idle", "begin"}, NEW c, Known(c),
         NEW reply \in Outcomes \cup {None},
         c.kind \notin CreateKinds => incidents[c.incident] # None,
         reply \in {"applied", "idempotent_replayed"} => Truth(c),
         reply = "already_linked" => LinkExists(c)
  PROVE  JobOf(step, c, reply) \in Job /\ GoodJob(JobOf(step, c, reply))
<1> DEFINE J == [pc |-> step, cmd |-> c, reply |-> reply, base |-> 0, stale |-> FALSE,
                 tries |-> 0, rerun |-> FALSE, refused |-> None]
<1>1. c \in Command /\ c # None /\ 0 \in 0..MaxRetries
  BY KnownFacts, IncidentsAssumption
<1>2. J \in Job
  BY <1>1 DEF Job, Steps
<1>3. None \notin {"applied", "idempotent_replayed", "already_linked"}
  BY NoneIsNoOutcome
<1>4. GoodJob(J)
  BY <1>1, <1>3 DEF GoodJob, GoodIn, Planned, Truth, LinkExists
<1>5. JobOf(step, c, reply) = J
  BY DEF JobOf
<1> QED
  BY <1>2, <1>4, <1>5

\* A true answer preserves the invariant.
LEMMA RespondStep ==
  ASSUME IInv, NEW s \in Slots, ~At(s, "idle"), NEW outcome \in Outcomes,
         outcome \in {"applied", "idempotent_replayed"} => Truth(job[s].cmd),
         outcome = "already_linked" => LinkExists(job[s].cmd),
         Respond(s, outcome), UNCHANGED <<Rows, todo, faults>>
  PROVE  IInv'
<1> DEFINE J == JobOf("idle", job[s].cmd, outcome)
<1>1. TypeOK /\ Known(job[s].cmd) /\ job[s].cmd # None /\ GoodJob(job[s])
  BY JobFacts
<1>2. J \in Job /\ GoodJob(J)
  BY <1>1, FreshJob DEF GoodJob, GoodIn
<1>3. J.pc = "idle" /\ job' = [job EXCEPT ![s] = J]
  BY DEF JobOf, Respond
<1> QED
  BY <1>1, <1>2, <1>3, Unchanged, QuietStep

\* A thrown error preserves the invariant.
LEMMA ThrowStep ==
  ASSUME IInv, NEW s \in Slots, ~At(s, "idle"), NEW recoverable \in BOOLEAN,
         NEW outcome \in Outcomes \ {"applied", "idempotent_replayed"},
         outcome = "already_linked" => LinkExists(job[s].cmd),
         Throw(s, outcome, recoverable), UNCHANGED <<Rows, todo, faults>>
  PROVE  IInv'
<1>1. CASE recoverable \/ job[s].rerun
  <2> DEFINE J == [job[s] EXCEPT !.pc = "recover", !.refused = outcome]
  <2>1. job[s] \in Job /\ GoodJob(job[s]) /\ TypeOK /\ job[s].cmd # None
    BY JobFacts
  <2>2. J \in Job /\ J.pc = "recover"
    BY <2>1 DEF Job, Steps
  <2>3. job' = [job EXCEPT ![s] = J]
    BY <1>1, <2>1 DEF Throw, TypeOK
  <2>4. GoodJob(J)
    BY <2>1 DEF Job, GoodJob, GoodIn, Planned, LinkExists
  <2> QED
    BY <2>1, <2>2, <2>3, <2>4, Unchanged, QuietStep
<1>2. CASE ~(recoverable \/ job[s].rerun)
  BY <1>2, RespondStep DEF Throw
<1> QED
  BY <1>1, <1>2

\* The invariant holds initially.
LEMMA InitInv == Init => IInv
<1> SUFFICES ASSUME Init PROVE IInv
  OBVIOUS
<1> DEFINE J == [pc |-> "idle", cmd |-> None, reply |-> None, base |-> 0, stale |-> FALSE,
                 tries |-> 0, rerun |-> FALSE, refused |-> None]
<1>1. \A s \in Slots : job[s] = J
  BY DEF Init, JobOf
<1>2. J \in Job
  BY IncidentsAssumption DEF Job, Steps
<1>3. TypeOK
  BY <1>1, <1>2, IncidentsAssumption DEF Init, TypeOK, JobOf
<1>4. None \notin {"applied", "idempotent_replayed", "already_linked"}
  BY NoneIsNoOutcome
<1>5. \A s \in Slots : GoodJob(job[s])
  BY <1>1, <1>4 DEF GoodJob, GoodIn, Planned
<1>6. \A r, s \in Slots : r # s => Apart(job[r], job[s])
  BY <1>1 DEF Apart
<1>7. HistoryTellsState /\ LinksHaveEvents /\ \A k \in Keys : events[k] = None
  BY DEF Init, HistoryTellsState, LinksHaveEvents, EventsOf
<1> QED
  BY <1>3, <1>5, <1>6, <1>7 DEF IInv

-----------------------------------------------------------------------------
(* The steps that write no row *)

\* Deliver preserves the invariant.
LEMMA DeliverStep ==
  ASSUME IInv, NEW s \in Slots, NEW c \in Commands, Deliver(s, c)
  PROVE  IInv'
<1> DEFINE J == JobOf("begin", c, None)
<1>1. Known(c) /\ TypeOK /\ None \notin {"applied", "idempotent_replayed", "already_linked"}
  BY NoneIsNoOutcome DEF Known, IInv
<1>2. c.kind \notin CreateKinds => incidents[c.incident] # None
  BY DEF Deliver, CreateKinds
<1>3. J \in Job /\ GoodJob(J)
  BY <1>1, <1>2, FreshJob
<1>4. J.pc = "begin" /\ job' = [job EXCEPT ![s] = J]
  BY DEF JobOf, Deliver
<1> QED
  BY <1>1, <1>3, <1>4, Unchanged, QuietStep DEF Deliver

\* Detect preserves the invariant.
LEMMA DetectStep ==
  ASSUME IInv, NEW e \in Episodes, Detect(e)
  PROVE  IInv'
<1>1. TypeOK'
  BY DEF IInv, TypeOK, Detect
<1>2. \A r \in Slots : GoodJob(job[r])'
  BY DEF IInv, Detect, GoodJob, GoodIn, Known, Planned, Allowed, InScope, Referent, Clash,
         Table, LinkRow
<1>3. \A q, r \in Slots : q # r => Apart(job[q], job[r])'
  BY DEF IInv, Detect, Apart
<1>4. \A k \in Keys : events'[k] # None => GoodEvent(k)'
  BY DEF IInv, Detect, GoodEvent
<1>5. HistoryTellsState' /\ LinksHaveEvents'
  BY DEF IInv, Detect, HistoryTellsState, LinksHaveEvents, EventsOf, KindOf, Moved, LastOf
<1> QED
  BY <1>1, <1>2, <1>3, <1>4, <1>5 DEF IInv

\* Reconcile preserves the invariant.
LEMMA ReconcileStep ==
  ASSUME IInv, NEW s \in Slots, Reconcile(s)
  PROVE  IInv'
<1>1. TypeOK /\ job[s] \in Job /\ GoodJob(job[s]) /\ job[s].pc = "idle"
  BY JobFacts DEF Reconcile, At
<1>2. job' = [job EXCEPT ![s] = job[s]]
  BY <1>1 DEF Reconcile, TypeOK
<1>3. UNCHANGED <<incidents, events, links>> /\ detected' \subseteq Episodes
      /\ todo' \in [Slots -> SUBSET Episodes] /\ faults' \in 0..MaxFaults
  BY <1>1 DEF Reconcile, TypeOK, Rows
<1> QED
  BY <1>1, <1>2, <1>3, QuietStep

\* DeliverSystem preserves the invariant.
LEMMA DeliverSystemStep ==
  ASSUME IInv, NEW s \in Slots, NEW e \in Episodes, DeliverSystem(s, e)
  PROVE  IInv'
<1> DEFINE J == JobOf("begin", SystemCommand(e), None)
<1>1. Known(SystemCommand(e)) /\ TypeOK
      /\ None \notin {"applied", "idempotent_replayed", "already_linked"}
  BY NoneIsNoOutcome DEF Known, IInv
<1>2. SystemCommand(e).kind \in CreateKinds
  BY DEF SystemCommand, CreateKinds
<1>3. J \in Job /\ GoodJob(J)
  BY <1>1, <1>2, FreshJob
<1>4. J.pc = "begin" /\ job' = [job EXCEPT ![s] = J]
  BY DEF JobOf, DeliverSystem
<1>5. UNCHANGED <<incidents, events, links>> /\ detected' \subseteq Episodes
      /\ todo' \in [Slots -> SUBSET Episodes] /\ faults' \in 0..MaxFaults
  BY <1>1 DEF DeliverSystem, TypeOK, Rows
<1> QED
  BY <1>1, <1>3, <1>4, <1>5, QuietStep

\* A match proves that the command was committed.
LEMMA MatchingTruth ==
  ASSUME NEW c, events[c.op] # None, Matching(events[c.op], c)
  PROVE  Truth(c)
  BY DEF Matching, CanonicalPayload, Truth

\* PreReadHit preserves the invariant.
LEMMA PreReadHitStep ==
  ASSUME IInv, NEW s \in Slots, PreReadHit(s)
  PROVE  IInv'
<1>1. ~At(s, "idle")
  BY DEF PreReadHit, At
<1>2. CASE Matching(events[job[s].cmd.op], job[s].cmd)
  <2>1. Truth(job[s].cmd)
    BY <1>2, MatchingTruth DEF PreReadHit
  <2> QED
    BY <1>1, <1>2, <2>1, RespondStep DEF PreReadHit, Outcomes
<1>3. CASE ~Matching(events[job[s].cmd.op], job[s].cmd)
  BY <1>1, <1>3, ThrowStep DEF PreReadHit, Outcomes
<1> QED
  BY <1>2, <1>3

\* LinkRefused preserves the invariant.
LEMMA LinkRefusedStep ==
  ASSUME IInv, NEW s \in Slots, LinkRefused(s)
  PROVE  IInv'
<1>1. ~At(s, "idle")
  BY DEF LinkRefused, At
<1>2. \/ Throw(s, "already_linked", FALSE) /\ LinkExists(job[s].cmd)
      \/ Throw(s, "invalid_transition", TRUE)
      \/ Throw(s, "error", FALSE)
  BY DEF LinkRefused, LinkExists
<1> QED
  BY <1>1, <1>2, ThrowStep DEF LinkRefused, Outcomes

\* Recover preserves the invariant.
LEMMA RecoverStep ==
  ASSUME IInv, NEW s \in Slots, Recover(s)
  PROVE  IInv'
<1> DEFINE c == job[s].cmd
<1> DEFINE o == IF events[c.op] = None THEN job[s].refused
                ELSE IF Matching(events[c.op], c) THEN "idempotent_replayed"
                ELSE "conflict"
<1>1. ~At(s, "idle") /\ At(s, "recover") /\ Respond(s, o)
      /\ UNCHANGED <<Rows, todo, faults>>
  BY DEF Recover, At
<1>2. TypeOK /\ job[s] \in Job /\ GoodJob(job[s]) /\ Known(c) /\ c # None
  BY <1>1, JobFacts
<1>3. o \in Outcomes \cup {None} /\ None \notin {"applied", "idempotent_replayed", "already_linked"}
  BY <1>2, NoneIsNoOutcome DEF Job, Outcomes
<1>4. o \in {"applied", "idempotent_replayed"} => Truth(c)
  BY <1>2, MatchingTruth DEF GoodJob, GoodIn
<1>5. o = "already_linked" => LinkExists(c)
  BY <1>2 DEF GoodJob, GoodIn, LinkExists
<1> DEFINE J == JobOf("idle", c, o)
<1>6. J \in Job /\ GoodJob(J)
  <2>1. c.kind \notin CreateKinds => incidents[c.incident] # None
    BY <1>2 DEF GoodJob, GoodIn
  <2> HIDE DEF o
  <2> QED
    BY <1>2, <1>3, <1>4, <1>5, <2>1, FreshJob
<1>7. J.pc = "idle" /\ job' = [job EXCEPT ![s] = J]
  BY <1>1 DEF JobOf, Respond
<1> QED
  BY <1>1, <1>2, <1>6, <1>7, Unchanged, QuietStep

\* Fail preserves the invariant.
LEMMA FailStep ==
  ASSUME IInv, NEW s \in Slots, NEW dies \in BOOLEAN, Fail(s, dies)
  PROVE  IInv'
<1>1. TypeOK /\ job[s] \in Job /\ GoodJob(job[s])
  BY JobFacts
<1>2. UNCHANGED <<incidents, events, links>> /\ detected' \subseteq Episodes
      /\ todo' \in [Slots -> SUBSET Episodes] /\ faults' \in 0..MaxFaults
  BY <1>1, IncidentsAssumption DEF Fail, TypeOK, Rows
<1> DEFINE J == [pc |-> "idle", cmd |-> job[s].cmd, reply |-> "error", base |-> 0,
                 stale |-> FALSE, tries |-> 0, rerun |-> FALSE, refused |-> None]
<1>3. job' = [job EXCEPT ![s] = J]
  BY DEF Fail, JobOf
<1>4. J \in Job
  BY <1>1, IncidentsAssumption DEF Job, Steps, Outcomes
<1>5. None \notin {"applied", "idempotent_replayed", "already_linked"}
  BY NoneIsNoOutcome
<1>6. GoodJob(J)
  BY <1>1, <1>5 DEF GoodJob, GoodIn, Planned
<1> QED
  BY <1>2, <1>3, <1>4, <1>6, QuietStep

\* A command is of exactly one family.
LEMMA KindsApart ==
  ASSUME NEW c, Known(c)
  PROVE  /\ \/ c.kind \in BumpKinds \/ c.kind \in LinkKinds
            \/ c.kind \in CreateKinds \/ c.kind = "note"
         /\ c.kind \in BumpKinds => c.kind \notin LinkKinds \cup CreateKinds \cup {"note"}
         /\ c.kind \in LinkKinds => c.kind \notin CreateKinds \cup {"note"}
         /\ "note" \notin CreateKinds
  BY KnownFacts DEF Kinds, BumpKinds, LinkKinds, CreateKinds

\* What the types say of one incident.
LEMMA RowType ==
  ASSUME TypeOK, NEW i \in Incidents, incidents[i] # None
  PROVE  incidents[i] \in Incident /\ incidents[i].version \in Nat
  BY DEF TypeOK, Incident

\* Begin preserves the invariant.
LEMMA BeginStep ==
  ASSUME IInv, NEW s \in Slots, Begin(s)
  PROVE  IInv'
<1> DEFINE c == job[s].cmd
<1> DEFINE row == incidents[c.incident]
<1> DEFINE step == IF c.kind \in BumpKinds THEN "lock" ELSE "event"
<1> DEFINE b == IF c.kind \in CreateKinds THEN 0 ELSE row.version
<1> DEFINE J == [job[s] EXCEPT !.pc = step, !.stale = FALSE, !.base = b]
<1>1. ~At(s, "idle") /\ At(s, "begin")
  BY DEF Begin, At
<1>2. TypeOK /\ job[s] \in Job /\ GoodJob(job[s]) /\ Known(c) /\ c # None
  BY <1>1, JobFacts
<1>3. c.kind \notin CreateKinds => row # None /\ row.version \in Nat
  <2>1. c.kind \notin CreateKinds => c.incident \in Incidents /\ row # None
    BY <1>2, KnownFacts DEF GoodJob, GoodIn
  <2> QED
    BY <1>2, <2>1, RowType
<1>4. b \in Nat
  BY <1>3
<1>5. J \in Job
  BY <1>2, <1>4 DEF Job, Steps
<1>6. job' = [job EXCEPT ![s] = J]
  BY <1>2 DEF Begin, TypeOK
<1>7. J.pc = step /\ J.cmd = c /\ J.base = b /\ J.reply = job[s].reply
      /\ J.refused = job[s].refused
  BY <1>2 DEF Job
<1>8. GoodJob(J)
  <2>1. c.kind \in LinkKinds
          => InScope(c, row) /\ (c.kind = "link_attempt" => row.attempt = None)
    BY DEF Begin
  <2>2. c.kind \in LinkKinds \cup {"note"} => b <= row.version
    BY <1>2, <1>3, KindsApart
  <2>3. step \in {"lock", "event"} /\ (step = "event" => c.kind \notin BumpKinds)
        /\ (step = "lock" => c.kind \in BumpKinds)
    OBVIOUS
  <2> HIDE DEF b, step, J
  <2> QED
    BY <1>2, <1>3, <1>7, <2>1, <2>2, <2>3 DEF GoodJob, GoodIn, Planned
<1>9. \A r \in Slots : r # s => Apart(job[r], J)
  <2>1. step \in {"lock", "event"} /\ (step = "event" => c.kind \notin BumpKinds)
    OBVIOUS
  <2> HIDE DEF b, step, J
  <2> QED
    BY <1>7, <2>1 DEF Apart
<1> HIDE DEF J
<1> QED
  BY <1>2, <1>5, <1>6, <1>8, <1>9, Unchanged, LocalStep DEF Begin

\* The same command starts over.
LEMMA AgainStep ==
  ASSUME IInv, NEW s \in Slots, ~At(s, "idle"),
         NEW n \in 0..MaxRetries, NEW again \in BOOLEAN,
         job' = [job EXCEPT ![s].pc = "begin", ![s].tries = n, ![s].rerun = again],
         UNCHANGED <<Rows, todo, faults>>
  PROVE  IInv'
<1> DEFINE J == [job[s] EXCEPT !.pc = "begin", !.tries = n, !.rerun = again]
<1>1. TypeOK /\ job[s] \in Job /\ GoodJob(job[s]) /\ job[s].cmd # None
  BY JobFacts
<1>2. J \in Job /\ J.pc = "begin"
  BY <1>1 DEF Job, Steps
<1>3. job' = [job EXCEPT ![s] = J]
  BY <1>1 DEF TypeOK
<1>4. GoodJob(J)
  BY <1>1 DEF Job, GoodJob, GoodIn, Planned
<1> HIDE DEF J
<1> QED
  BY <1>1, <1>2, <1>3, <1>4, Unchanged, QuietStep

\* LockOutdated preserves the invariant.
LEMMA LockOutdatedStep ==
  ASSUME IInv, NEW s \in Slots, LockOutdated(s)
  PROVE  IInv'
<1>1. ~At(s, "idle")
  BY DEF LockOutdated, At
<1>2. TypeOK /\ job[s] \in Job
  BY JobFacts
<1>3. CASE job[s].tries < MaxRetries
  <2>1. job[s].tries + 1 \in 0..MaxRetries /\ job[s].rerun \in BOOLEAN
    BY <1>2, <1>3, IncidentsAssumption DEF Job
  <2>2. job' = [job EXCEPT ![s].pc = "begin", ![s].tries = job[s].tries + 1,
                           ![s].rerun = job[s].rerun]
    BY <1>2, <1>3 DEF LockOutdated, TypeOK, Job
  <2> QED
    BY <1>1, <2>1, <2>2, AgainStep DEF LockOutdated
<1>4. CASE ~(job[s].tries < MaxRetries)
  BY <1>1, <1>4, ThrowStep DEF LockOutdated, Outcomes
<1> QED
  BY <1>3, <1>4

\* OperationTaken preserves the invariant.
LEMMA OperationTakenStep ==
  ASSUME IInv, NEW s \in Slots, OperationTaken(s)
  PROVE  IInv'
<1>1. ~At(s, "idle")
  BY DEF OperationTaken, At
<1>2. CASE job[s].rerun
  BY <1>1, <1>2, ThrowStep DEF OperationTaken, Outcomes
<1>3. CASE ~job[s].rerun
  <2>1. 0 \in 0..MaxRetries
    BY IncidentsAssumption
  <2> QED
    BY <1>1, <1>3, <2>1, AgainStep DEF OperationTaken
<1> QED
  BY <1>2, <1>3

\* A handler goes on to another step with the same command.
LEMMA OnwardStep ==
  ASSUME IInv, NEW s \in Slots, ~At(s, "idle"), NEW step \in Steps,
         job' = [job EXCEPT ![s].pc = step],
         UNCHANGED <<Rows, todo, faults>>,
         GoodJob([job[s] EXCEPT !.pc = step]),
         \A r \in Slots : r # s => Apart(job[r], [job[s] EXCEPT !.pc = step])
  PROVE  IInv'
<1> DEFINE J == [job[s] EXCEPT !.pc = step]
<1>1. TypeOK /\ job[s] \in Job
  BY JobFacts
<1>2. J \in Job
  BY <1>1 DEF Job
<1>3. job' = [job EXCEPT ![s] = J]
  BY <1>1 DEF TypeOK
<1> QED
  BY <1>1, <1>2, <1>3, Unchanged, LocalStep

\* LockRow preserves the invariant.
LEMMA LockRowStep ==
  ASSUME IInv, NEW s \in Slots, LockRow(s)
  PROVE  IInv'
<1> DEFINE c == job[s].cmd
<1> DEFINE row == incidents[c.incident]
<1>1. ~At(s, "idle") /\ At(s, "lock") /\ UNCHANGED <<Rows, todo, faults>>
  BY DEF LockRow, At
<1>2. job[s] \in Job /\ GoodJob(job[s]) /\ Known(c) /\ c # None
  BY <1>1, JobFacts
<1>3. CASE ~CurrentVersion(c, row)
  BY <1>1, <1>3, ThrowStep DEF LockRow, Outcomes
<1>4. CASE CurrentVersion(c, row) /\ ~Allowed(c, row)
  BY <1>1, <1>4, ThrowStep DEF LockRow, Outcomes
<1>5. CASE CurrentVersion(c, row) /\ Allowed(c, row)
  <2> DEFINE J == [job[s] EXCEPT !.pc = "event"]
  <2>1. job' = [job EXCEPT ![s].pc = "event"]
    BY <1>5 DEF LockRow
  <2>2. J.pc = "event" /\ J.cmd = c /\ J.base = job[s].base /\ J.reply = job[s].reply
        /\ J.refused = job[s].refused
    BY <1>2 DEF Job
  <2>3. c.kind \in BumpKinds /\ c.kind \notin LinkKinds \cup CreateKinds \cup {"note"}
    BY <1>1, <1>2, KindsApart DEF GoodJob, GoodIn, At
  <2> HIDE DEF J
  <2>4. GoodJob(J)
    BY <1>2, <1>5, <2>2, <2>3 DEF GoodJob, GoodIn, Planned, CurrentVersion
  <2>5. ASSUME NEW r \in Slots, r # s PROVE Apart(job[r], J)
    BY <2>2, <2>5, <2>3 DEF LockRow, Locked, HoldsLock, Apart
  <2> QED
    BY <1>1, <2>1, <2>4, <2>5, OnwardStep DEF Steps, J
<1> QED
  BY <1>3, <1>4, <1>5

\* AppendEvent preserves the invariant.
LEMMA AppendEventStep ==
  ASSUME IInv, NEW s \in Slots, AppendEvent(s)
  PROVE  IInv'
<1> DEFINE c == job[s].cmd
<1> DEFINE step == IF c.kind \in LinkKinds THEN "link" ELSE "commit"
<1> DEFINE J == [job[s] EXCEPT !.pc = step]
<1>1. ~At(s, "idle") /\ At(s, "event") /\ UNCHANGED <<Rows, todo, faults>>
      /\ job' = [job EXCEPT ![s].pc = step] /\ events[c.op] = None
  BY DEF AppendEvent, At
<1>2. job[s] \in Job /\ GoodJob(job[s]) /\ Known(c) /\ c # None
  BY <1>1, JobFacts
<1>3. J.pc = step /\ J.cmd = c /\ J.base = job[s].base /\ J.reply = job[s].reply
      /\ J.refused = job[s].refused
  BY <1>2 DEF Job
<1>4. step \in {"link", "commit"} /\ (step = "link" <=> c.kind \in LinkKinds)
  OBVIOUS
<1> HIDE DEF step, J
<1>5. GoodJob(J)
  BY <1>1, <1>2, <1>3, <1>4 DEF GoodJob, GoodIn, Planned, At
<1>6. ASSUME NEW r \in Slots, r # s PROVE Apart(job[r], J)
  <2>1. Apart(job[r], job[s])
    BY <1>6 DEF IInv
  <2>2. job[r].pc \in {"link", "commit"} => job[r].cmd.op # c.op
    BY <1>6 DEF AppendEvent, EventPending, Inserted
  <2> QED
    BY <1>1, <1>3, <1>4, <2>1, <2>2 DEF Apart, At
<1> QED
  BY <1>1, <1>4, <1>5, <1>6, OnwardStep DEF Steps, J

\* InsertLink preserves the invariant.
LEMMA InsertLinkStep ==
  ASSUME IInv, NEW s \in Slots, InsertLink(s)
  PROVE  IInv'
<1> DEFINE c == job[s].cmd
<1> DEFINE J == [job[s] EXCEPT !.pc = "commit"]
<1>1. ~At(s, "idle") /\ At(s, "link") /\ UNCHANGED <<Rows, todo, faults>>
  BY DEF InsertLink, At
<1>2. job[s] \in Job /\ GoodJob(job[s]) /\ Known(c) /\ c # None
  BY <1>1, JobFacts
<1>3. CASE LinkExists(c)
  BY <1>1, <1>3, ThrowStep DEF InsertLink, Outcomes, LinkExists
<1>4. CASE ~LinkExists(c)
  <2>1. job' = [job EXCEPT ![s].pc = "commit"]
    BY <1>4 DEF InsertLink, LinkExists
  <2>2. J.pc = "commit" /\ J.cmd = c /\ J.base = job[s].base /\ J.reply = job[s].reply
        /\ J.refused = job[s].refused
    BY <1>2 DEF Job
  <2>3. c.kind \in LinkKinds /\ c.kind \notin BumpKinds
    BY <1>1, <1>2, KindsApart DEF GoodJob, GoodIn, At
  <2> HIDE DEF J
  <2>4. GoodJob(J)
    BY <1>1, <1>2, <1>4, <2>2, <2>3 DEF GoodJob, GoodIn, Planned, At, LinkExists
  <2>5. ASSUME NEW r \in Slots, r # s PROVE Apart(job[r], J)
    <3>1. Apart(job[r], job[s])
      BY <2>5 DEF IInv
    <3>2. job[r].pc = "commit" /\ job[r].cmd.kind \in LinkKinds
            => ~Clash(LinkRow(job[r].cmd, job[r].cmd.incident), LinkRow(c, c.incident))
      BY <2>5 DEF InsertLink, LinkPending, At
    <3> QED
      BY <1>1, <2>2, <2>3, <3>1, <3>2 DEF Apart, At
  <2> QED
    BY <1>1, <2>1, <2>4, <2>5, OnwardStep DEF Steps, J
<1> QED
  BY <1>3, <1>4

-----------------------------------------------------------------------------
(* The commits *)

\* What the three commits have in common: s commits the event ev of its command,
\* the row rw of incident i and the link, and answers.
CommitOf(s, i, ev, rw) ==
  LET c == job[s].cmd IN
  /\ At(s, "commit")
  /\ ev.payload.command = c /\ ev.incident = i
  /\ ev.after = ev.before + (IF c.kind \in BumpKinds \cup CreateKinds THEN 1 ELSE 0)
  /\ IF c.kind \in CreateKinds THEN incidents[i] = None ELSE i = c.incident
  /\ c.kind = "create_system"
       => rw.attempt = AttemptOf[c.arg] /\ rw.candidate = CandidateOf[AttemptOf[c.arg]]
  /\ c.kind \in BumpKinds
       => /\ rw.attempt = incidents[i].attempt /\ rw.candidate = incidents[i].candidate
          /\ incidents[i].version <= rw.version
  /\ c.kind \in LinkKinds \cup {"note"} => rw = incidents[i]
  /\ incidents' = [incidents EXCEPT ![i] = rw]
  /\ events' = [events EXCEPT ![c.op] = ev]
  /\ links' = IF c.kind \in LinkingKinds THEN links \cup {LinkRow(c, i)} ELSE links
  /\ job' \in [Slots -> Job]
  /\ job'[s] = JobOf("idle", c, "applied")
  /\ \A r \in Slots : r # s =>
       /\ job'[r].pc = job[r].pc /\ job'[r].cmd = job[r].cmd
       /\ job'[r].reply = job[r].reply /\ job'[r].base = job[r].base
       /\ job'[r].refused = job[r].refused
  /\ UNCHANGED <<detected, todo, faults>>

\* What every commit does to events and incidents.
LEMMA CommitFacts ==
  ASSUME IInv, NEW s \in Slots, NEW i \in Incidents, NEW ev \in Event, NEW rw \in Incident,
         CommitOf(s, i, ev, rw)
  PROVE  LET c == job[s].cmd IN
         /\ TypeOK /\ TypeOK' /\ Known(c) /\ c \in Command /\ c.op \in Keys
         /\ GoodJob(job[s]) /\ job[s] \in Job
         /\ events[c.op] = None /\ events'[c.op] = ev /\ ev # None
         /\ \A k \in Keys : k # c.op => events'[k] = events[k]
         /\ incidents'[i] = rw /\ rw # None
         /\ \A j \in Incidents : j # i => incidents'[j] = incidents[j]
         /\ c.kind \notin CreateKinds => incidents[i] # None /\ incidents[i] \in Incident
         /\ \A j \in Incidents : incidents[j] # None =>
              /\ incidents'[j] # None
              /\ incidents'[j].attempt = incidents[j].attempt
              /\ incidents'[j].candidate = incidents[j].candidate
              /\ incidents[j].version <= incidents'[j].version
<1> DEFINE c == job[s].cmd
<1>1. ~At(s, "idle")
  BY DEF CommitOf, At
<1>2. TypeOK /\ Known(c) /\ c # None /\ GoodJob(job[s]) /\ job[s] \in Job
  BY <1>1, JobFacts
<1>3. c \in Command /\ c.op \in Keys /\ c.kind \in Kinds /\ c.arg \in Args
      /\ (c.kind \notin CreateKinds => c.incident \in Incidents)
  BY <1>2, KnownFacts
<1>4. events[c.op] = None
  BY <1>2 DEF CommitOf, GoodJob, GoodIn, At
<1>5. events'[c.op] = ev /\ \A k \in Keys : k # c.op => events'[k] = events[k]
  BY <1>2, <1>3 DEF CommitOf, TypeOK
<1>6. incidents'[i] = rw /\ \A j \in Incidents : j # i => incidents'[j] = incidents[j]
  BY <1>2 DEF CommitOf, TypeOK
<1>7. rw # None /\ ev # None
  BY IncidentsAssumption
<1>8. c.kind \notin CreateKinds => incidents[i] # None /\ incidents[i] \in Incident
  BY <1>2, <1>3, RowType DEF CommitOf, GoodJob, GoodIn
<1>9. TypeOK'
  <2>1. LinkRow(c, i) \in Link
    BY <1>3 DEF LinkRow, Link
  <2>2. links' \subseteq Link
    BY <1>2, <2>1 DEF CommitOf, TypeOK
  <2> QED
    BY <1>2, <1>3, <2>2 DEF CommitOf, TypeOK
<1>10. ASSUME NEW j \in Incidents, incidents[j] # None
       PROVE  /\ incidents'[j] # None
              /\ incidents'[j].attempt = incidents[j].attempt
              /\ incidents'[j].candidate = incidents[j].candidate
              /\ incidents[j].version <= incidents'[j].version
  <2>1. incidents[j].version \in Nat
    BY <1>2, <1>10, RowType
  <2>2. CASE j # i
    BY <1>6, <1>10, <2>1, <2>2
  <2>3. CASE j = i
    <3>1. c.kind \in BumpKinds \/ c.kind \in LinkKinds \cup {"note"}
      BY <1>2, <1>10, <2>3, KindsApart DEF CommitOf
    <3> QED
      BY <1>6, <1>7, <2>1, <2>3, <3>1 DEF CommitOf
  <2> QED
    BY <2>2, <2>3
<1> QED
  BY <1>2, <1>3, <1>4, <1>5, <1>6, <1>7, <1>8, <1>9, <1>10

\* A commit leaves what the other handlers know true.
LEMMA CommitOthers ==
  ASSUME IInv, NEW s \in Slots, NEW i \in Incidents, NEW ev \in Event, NEW rw \in Incident,
         CommitOf(s, i, ev, rw), NEW r \in Slots, r # s
  PROVE  GoodIn(job'[r], incidents', events', links')
<1> DEFINE c == job[s].cmd
<1> DEFINE K == job[r]
<1> DEFINE d == K.cmd
<1> DEFINE L == job'[r]
<1>1. K \in Job /\ GoodJob(K) /\ (d # None => Known(d)) /\ (K.pc # "idle" => d # None)
  BY JobFacts DEF At
<1>2. L.pc = K.pc /\ L.cmd = d /\ L.reply = K.reply /\ L.base = K.base
      /\ L.refused = K.refused
  BY DEF CommitOf
<1>3. Apart(K, job[s]) /\ job[s].pc = "commit"
  BY DEF IInv, CommitOf, At
<1>4. ASSUME d # None, d.kind \notin CreateKinds
      PROVE  /\ incidents[d.incident] # None /\ d.incident \in Incidents
             /\ incidents'[d.incident] # None
             /\ incidents'[d.incident].attempt = incidents[d.incident].attempt
             /\ incidents'[d.incident].candidate = incidents[d.incident].candidate
             /\ incidents[d.incident].version <= incidents'[d.incident].version
             /\ incidents[d.incident].version \in Nat
             /\ incidents'[d.incident].version \in Nat
  <2>1. incidents[d.incident] # None /\ d.incident \in Incidents
    BY <1>1, <1>4, KnownFacts DEF GoodJob, GoodIn
  <2>2. incidents'[d.incident] # None /\ incidents' \in [Incidents -> Incident \cup {None}]
    BY <2>1, CommitFacts DEF TypeOK
  <2>3. incidents'[d.incident].version \in Nat
    BY <2>1, <2>2 DEF Incident
  <2> QED
    BY <2>1, <2>2, <2>3, CommitFacts, RowType
<1>5. Planned(K) /\ d.kind \in BumpKinds => incidents'[d.incident] = incidents[d.incident]
  <2> SUFFICES ASSUME Planned(K), d.kind \in BumpKinds
               PROVE  incidents'[d.incident] = incidents[d.incident]
    OBVIOUS
  <2>1. d # None /\ Known(d) /\ d.kind \notin LinkKinds \cup CreateKinds
    BY <1>1, KindsApart DEF Planned
  <2>2. K.pc \in {"event", "commit"}
    BY <1>1, <2>1 DEF Planned, GoodJob, GoodIn
  <2>3. c.kind \in BumpKinds => i # d.incident
    BY <1>3, <2>2, KindsApart, CommitFacts DEF Apart, CommitOf
  <2>4. CASE i # d.incident
    BY <1>4, <2>1, <2>4, CommitFacts
  <2>5. CASE i = d.incident
    <3>1. c.kind \in LinkKinds \cup {"note"}
      BY <1>4, <2>1, <2>3, <2>5, CommitFacts, KindsApart, ZenonT(30) DEF CommitOf
    <3> QED
      BY <2>5, <3>1, CommitFacts, SMTT(20) DEF CommitOf
  <2> QED
    BY <2>4, <2>5
<1>6. K.pc \in {"link", "commit"} => events'[d.op] = None
  <2>1. K.pc \in {"link", "commit"} => events[d.op] = None /\ d.op \in Keys /\ d.op # c.op
    BY <1>1, <1>3, KnownFacts DEF GoodJob, GoodIn, Apart
  <2> QED
    BY <2>1, CommitFacts
<1>7. K.pc = "commit" /\ d.kind \in LinkKinds
        => \A l \in links' : ~Clash(l, LinkRow(d, d.incident))
  <2> SUFFICES ASSUME K.pc = "commit", d.kind \in LinkKinds, NEW l \in links',
                      Clash(l, LinkRow(d, d.incident))
               PROVE  FALSE
    OBVIOUS
  <2>1. d # None /\ Known(d) /\ d.kind \notin CreateKinds
    BY <1>1, KindsApart
  <2>2. l \notin links
    BY <1>1 DEF GoodJob, GoodIn
  <2>3. l = LinkRow(c, i) /\ c.kind \in LinkingKinds
    BY <2>2 DEF CommitOf
  <2>4. CASE c.kind \in LinkKinds
    <3>1. i = c.incident
      BY <2>4, CommitFacts, KindsApart DEF CommitOf
    <3>2. ~Clash(LinkRow(d, d.incident), LinkRow(c, c.incident))
      BY <1>3, <2>4 DEF Apart
    <3> QED
      BY <2>3, <3>1, <3>2, ClashSymmetric
  <2>5. CASE c.kind = "create_system"
    <3>1. i = d.incident
      BY <2>3, <2>5 DEF Clash, LinkRow
    <3>2. incidents[i] = None
      BY <2>5 DEF CommitOf, CreateKinds
    <3> QED
      BY <1>4, <2>1, <3>1, <3>2
  <2> QED
    BY <2>3, <2>4, <2>5 DEF LinkingKinds
<1>8. K.reply \in {"applied", "idempotent_replayed"}
        => events'[d.op] # None /\ events'[d.op].payload.command = d
  <2> SUFFICES ASSUME K.reply \in {"applied", "idempotent_replayed"}
               PROVE  events'[d.op] = events[d.op]
    BY <1>1 DEF GoodJob, GoodIn
  <2>1. events[d.op] # None /\ events[d.op].payload.command = d
    BY <1>1 DEF GoodJob, GoodIn
  <2>2. d.op \in Keys
    BY <1>1, KnownFacts, NoneIsNoOutcome DEF GoodJob, GoodIn
  <2> QED
    BY <2>1, <2>2, CommitFacts
<1>9. links \subseteq links'
  BY DEF CommitOf
<1>10. Planned(K) /\ d.kind \in LinkKinds \cup {"note"} => K.base <= incidents'[d.incident].version
  <2> SUFFICES ASSUME Planned(K), d.kind \in LinkKinds \cup {"note"}
               PROVE  K.base <= incidents'[d.incident].version
    OBVIOUS
  <2>1. d # None /\ d.kind \notin CreateKinds /\ K.base \in Nat
    BY <1>1, KindsApart DEF Planned, Job
  <2>2. K.base <= incidents[d.incident].version
    BY <1>1 DEF GoodJob, GoodIn
  <2> QED
    BY <1>4, <2>1, <2>2
<1>11. Planned(K) /\ d.kind \in LinkKinds
         => /\ InScope(d, incidents'[d.incident])
            /\ d.kind = "link_attempt" => incidents'[d.incident].attempt = None
  BY <1>1, <1>4, KindsApart DEF GoodJob, GoodIn, Planned, InScope
<1>12. Planned(K) /\ d.kind \in BumpKinds
         => /\ incidents'[d.incident].version = d.expectedVersion
            /\ Allowed(d, incidents'[d.incident])
  BY <1>1, <1>5 DEF GoodJob, GoodIn
<1>13. K.cmd = d
  OBVIOUS
<1>14. GoodIn(L, incidents', events', links')
  <2> HIDE DEF d, K, L
  <2>1. \/ "already_linked" \notin {L.refused, L.reply}
        \/ \E l \in links' : Clash(l, LinkRow(d, d.incident))
    BY <1>1, <1>2, <1>9, <1>13 DEF GoodJob, GoodIn
  <2>2. /\ L.pc # "idle" \/ L.reply \in {"applied", "idempotent_replayed"} => d # None
        /\ d # None => Known(d)
        /\ L.pc = "lock" => d.kind \in BumpKinds
        /\ L.pc = "link" => d.kind \in LinkKinds
        /\ L.refused \notin {"applied", "idempotent_replayed"}
    BY <1>1, <1>2, <1>13 DEF GoodJob, GoodIn
  <2>3. Planned(L) <=> Planned(K)
    BY <1>2 DEF Planned
  <2> QED
    BY <1>2, <1>4, <1>6, <1>7, <1>8, <1>10, <1>11, <1>12, <2>1, <2>2, <2>3 DEF GoodIn
<1> QED
  BY <1>14

\* An event belongs to an incident that exists.
LEMMA EventIncident ==
  ASSUME IInv, NEW k \in Keys, events[k] # None
  PROVE  /\ events[k] \in Event /\ events[k].incident \in Incidents
         /\ incidents[events[k].incident] # None
         /\ events[k].before \in Nat /\ events[k].after \in Nat
<1>1. events[k] \in Event /\ events[k].incident \in Incidents
      /\ events[k].before \in Nat /\ events[k].after \in Nat
  BY DEF IInv, TypeOK, Event
<1>2. k \in EventsOf(events[k].incident)
  BY DEF EventsOf
<1> QED
  BY <1>1, <1>2 DEF IInv, HistoryTellsState

\* A commit keeps links and events in agreement.
LEMMA CommitLinks ==
  ASSUME IInv, NEW s \in Slots, NEW i \in Incidents, NEW ev \in Event, NEW rw \in Incident,
         CommitOf(s, i, ev, rw)
  PROVE  LinksHaveEvents'
<1> DEFINE c == job[s].cmd
<1> DEFINE new == LinkRow(c, i)
<1>0. Known(c) /\ c.op \in Keys /\ events[c.op] = None /\ events'[c.op] = ev /\ ev # None
      /\ GoodJob(job[s]) /\ job[s].pc = "commit" /\ TypeOK
      /\ \A k \in Keys : k # c.op => events'[k] = events[k]
  <2>1. job[s].pc = "commit"
    BY DEF CommitOf, At
  <2> QED
    BY <2>1, CommitFacts
<1>1. new.op = c.op /\ new.kind = c.kind /\ new.arg = c.arg /\ new.incident = i
  BY DEF LinkRow
<1>2. links' = IF c.kind \in LinkingKinds THEN links \cup {new} ELSE links
  BY DEF CommitOf
<1>3. ASSUME NEW l \in links
      PROVE  /\ l.op \in Keys /\ l.op # c.op /\ events'[l.op] = events[l.op]
             /\ events[l.op] # None
             /\ l = LinkRow(events[l.op].payload.command, events[l.op].incident)
             /\ l.incident \in Incidents /\ incidents[l.incident] # None
             /\ InScope(l, incidents[l.incident])
             /\ l.kind = "link_attempt" => incidents[l.incident].attempt = None
             /\ incidents'[l.incident].attempt = incidents[l.incident].attempt
             /\ incidents'[l.incident].candidate = incidents[l.incident].candidate
  <2>1. l \in Link /\ l.op \in Keys
    BY <1>0, <1>3 DEF TypeOK, Link
  <2>2. /\ events[l.op] # None
        /\ l = LinkRow(events[l.op].payload.command, events[l.op].incident)
        /\ InScope(l, incidents[l.incident])
        /\ l.kind = "link_attempt" => incidents[l.incident].attempt = None
    BY <1>3 DEF IInv, LinksHaveEvents
  <2>3. l.incident = events[l.op].incident
    BY <2>2 DEF LinkRow
  <2>4. l.incident \in Incidents /\ incidents[l.incident] # None
    BY <2>1, <2>2, <2>3, EventIncident
  <2> QED
    BY <1>0, <2>1, <2>2, <2>4, CommitFacts
<1>4. ASSUME c.kind \in LinkingKinds, NEW l \in links PROVE ~Clash(l, new)
  <2>1. CASE c.kind \in LinkKinds
    <3>1. i = c.incident
      BY <1>0, <2>1, KindsApart DEF CommitOf
    <3> QED
      BY <1>0, <2>1, <3>1, <1>4 DEF GoodJob, GoodIn
  <2>2. CASE c.kind = "create_system"
    <3>1. incidents[i] = None
      BY <2>2 DEF CommitOf, CreateKinds
    <3>2. l.incident # i
      BY <1>3, <1>4, <3>1
    <3>3. Table(new) = "link_interruption"
      BY <1>1, <2>2 DEF Table
    <3> QED
      BY <1>1, <3>2, <3>3 DEF Clash, Table
  <2> QED
    BY <1>4, <2>1, <2>2 DEF LinkingKinds
<1>5. \A k \in Keys :
        events'[k] # None /\ events'[k].payload.command.kind \in LinkingKinds
          => LinkRow(events'[k].payload.command, events'[k].incident) \in links'
  <2> SUFFICES ASSUME NEW k \in Keys, events'[k] # None,
                      events'[k].payload.command.kind \in LinkingKinds
               PROVE  LinkRow(events'[k].payload.command, events'[k].incident) \in links'
    OBVIOUS
  <2>1. CASE k = c.op
    BY <1>0, <1>2, <2>1 DEF CommitOf
  <2>2. CASE k # c.op
    <3>1. LinkRow(events[k].payload.command, events[k].incident) \in links
      BY <1>0, <2>2 DEF IInv, LinksHaveEvents, KindOf
    <3> QED
      BY <1>0, <1>2, <2>2, <3>1
  <2> QED
    BY <2>1, <2>2
<1>6. ASSUME NEW l \in links'
      PROVE  /\ events'[l.op] # None
             /\ l = LinkRow(events'[l.op].payload.command, events'[l.op].incident)
             /\ InScope(l, incidents'[l.incident])
             /\ l.kind = "link_attempt" => incidents'[l.incident].attempt = None
  <2>1. CASE l \in links
    BY <1>3, <2>1 DEF InScope
  <2>2. CASE l \notin links
    <3>1. l = new /\ c.kind \in LinkingKinds
      BY <1>2, <1>6, <2>2
    <3>2. events'[l.op] # None /\ l = LinkRow(events'[l.op].payload.command, events'[l.op].incident)
      BY <1>0, <1>1, <3>1 DEF CommitOf
    <3>3. Referent(l) = Referent(c)
      BY <1>1, <3>1 DEF Referent
    <3>4. incidents'[l.incident] = rw
      BY <1>1, <3>1, CommitFacts
    <3>5. CASE c.kind = "create_system"
      BY <1>1, <3>1, <3>2, <3>4, <3>5 DEF CommitOf, InScope, Referent
    <3>6. CASE c.kind \in LinkKinds
      <4>1. i = c.incident /\ rw = incidents[i]
        BY <1>0, <3>6, KindsApart DEF CommitOf
      <4>2. InScope(c, rw) /\ (c.kind = "link_attempt" => rw.attempt = None)
        BY <1>0, <3>6, <4>1 DEF GoodJob, GoodIn, Planned
      <4> QED
        BY <1>1, <3>1, <3>2, <3>3, <3>4, <4>2 DEF InScope
    <3> QED
      BY <3>1, <3>5, <3>6 DEF LinkingKinds
  <2> QED
    BY <2>1, <2>2
<1>7. ASSUME NEW l \in links', NEW m \in links', Clash(l, m) PROVE l = m
  <2>1. CASE l \in links /\ m \in links
    BY <1>7, <2>1 DEF IInv, LinksHaveEvents
  <2>2. CASE l \notin links /\ m \notin links
    BY <1>2, <1>7, <2>2
  <2>3. CASE l \in links /\ m \notin links
    BY <1>2, <1>4, <1>7, <2>3
  <2>4. CASE l \notin links /\ m \in links
    BY <1>2, <1>4, <1>7, <2>4, ClashSymmetric
  <2> QED
    BY <2>1, <2>2, <2>3, <2>4
<1> HIDE DEF c, new
<1> QED
  BY <1>5, <1>6, <1>7
  DEF LinksHaveEvents, KindOf, InScope, Referent, LinkRow, Clash, Table

\* All of the invariant but the history.
LEMMA CommitRest ==
  ASSUME IInv, NEW s \in Slots, NEW i \in Incidents, NEW ev \in Event, NEW rw \in Incident,
         CommitOf(s, i, ev, rw), HistoryTellsState'
  PROVE  IInv'
<1> DEFINE c == job[s].cmd
<1>1. TypeOK' /\ Known(c) /\ c.op \in Keys /\ events'[c.op] = ev /\ ev # None
      /\ \A k \in Keys : k # c.op => events'[k] = events[k]
  BY CommitFacts
<1>2. LinksHaveEvents'
  BY CommitLinks
<1>3. ASSUME NEW r \in Slots PROVE GoodJob(job[r])'
  <2>1. GoodIn(job'[r], incidents', events', links')
    <3>1. CASE r # s
      BY <3>1, CommitOthers
    <3>2. CASE r = s
      <4> DEFINE J == [pc |-> "idle", cmd |-> c, reply |-> "applied", base |-> 0,
                       stale |-> FALSE, tries |-> 0, rerun |-> FALSE, refused |-> None]
      <4>1. job'[r] = J
        BY <3>2 DEF CommitOf, JobOf
      <4>2. c.kind \notin CreateKinds => incidents'[c.incident] # None
        <5>1. c.kind \notin CreateKinds => i = c.incident
          BY DEF CommitOf
        <5>2. incidents'[i] # None
          BY CommitFacts
        <5> QED
          BY <5>1, <5>2
      <4>3. events'[c.op].payload.command = c
        BY <1>1 DEF CommitOf
      <4>4. c # None
        BY <1>1, KnownFacts
      <4>5. GoodIn(J, incidents', events', links')
        BY <1>1, <4>2, <4>3, <4>4, NoneIsNoOutcome DEF GoodIn, Planned
      <4> QED
        BY <4>1, <4>5
    <3> QED
      BY <3>1, <3>2
  <2> QED
    BY <2>1 DEF GoodJob, GoodIn, Known, Planned, Allowed, InScope, Referent, Clash, Table,
                LinkRow
<1>4. ASSUME NEW q \in Slots, NEW r \in Slots, q # r PROVE Apart(job[q], job[r])'
  <2>1. Apart(job[q], job[r])
    BY <1>4 DEF IInv
  <2>2. job'[s].pc = "idle"
    BY DEF CommitOf, JobOf
  <2>3. \A p \in Slots : p # s => job'[p].pc = job[p].pc /\ job'[p].cmd = job[p].cmd
    BY DEF CommitOf
  <2>4. CASE q = s \/ r = s
    BY <2>2, <2>4 DEF Apart
  <2>5. CASE q # s /\ r # s
    BY <2>1, <2>3, <2>5 DEF Apart
  <2> QED
    BY <2>4, <2>5
<1>5. ASSUME NEW k \in Keys, events'[k] # None PROVE GoodEvent(k)'
  <2>1. CASE k = c.op
    BY <1>1, <2>1 DEF CommitOf, GoodEvent, Known
  <2>2. CASE k # c.op
    BY <1>1, <1>5, <2>2 DEF IInv, GoodEvent, Known
  <2> QED
    BY <2>1, <2>2
<1> QED
  BY <1>1, <1>2, <1>3, <1>4, <1>5 DEF IInv

-----------------------------------------------------------------------------
(* The history *)

HistoryOf(i) ==
  IF incidents[i] = None
    THEN EventsOf(i) = {}
    ELSE /\ \A v \in 1..incidents[i].version :
              \E k \in EventsOf(i) :
                Moved(k, v) /\ \A j \in EventsOf(i) : Moved(j, v) => j = k
         /\ \A k \in EventsOf(i) :
              /\ events[k].after <= incidents[i].version
              /\ KindOf(k) \in {"resolve", "dismiss"}
                   => events[k].after = incidents[i].version
              /\ LastOf(k, i, {"severity"})
                   => incidents[i].severity = events[k].payload.command.arg
              /\ LastOf(k, i, StatusKinds) => incidents[i].status = StatusAfter(KindOf(k))
         /\ (\A k \in EventsOf(i) : KindOf(k) \notin StatusKinds)
              => incidents[i].status = "open"

\* The history, incident by incident.
LEMMA HistoryParts == HistoryTellsState <=> \A i \in Incidents : HistoryOf(i)
  BY DEF HistoryTellsState, HistoryOf

\* The events of the incident gain one, those of the others stay.
LEMMA EventsAfter ==
  ASSUME IInv, NEW s \in Slots, NEW i \in Incidents, NEW ev \in Event, NEW rw \in Incident,
         CommitOf(s, i, ev, rw)
  PROVE  LET k0 == job[s].cmd.op IN
         /\ k0 \in Keys /\ k0 \notin EventsOf(i) /\ events'[k0] = ev
         /\ EventsOf(i)' = EventsOf(i) \cup {k0}
         /\ \A j \in Incidents : j # i => EventsOf(j)' = EventsOf(j)
         /\ \A j \in Incidents : \A k \in EventsOf(j) : k # k0 /\ events'[k] = events[k]
<1> DEFINE k0 == job[s].cmd.op
<1>1. /\ k0 \in Keys /\ events[k0] = None /\ events'[k0] = ev /\ ev # None
      /\ \A k \in Keys : k # k0 => events'[k] = events[k]
  BY CommitFacts
<1>2. ev.incident = i
  BY DEF CommitOf
<1> HIDE DEF k0
<1>3. /\ k0 \in Keys /\ k0 \notin EventsOf(i) /\ events'[k0] = ev
      /\ EventsOf(i)' = EventsOf(i) \cup {k0}
      /\ \A j \in Incidents : j # i => EventsOf(j)' = EventsOf(j)
      /\ \A j \in Incidents : \A k \in EventsOf(j) : k # k0 /\ events'[k] = events[k]
  BY <1>1, <1>2 DEF EventsOf
<1> QED
  BY <1>3 DEF k0

\* A commit leaves the history of the other incidents alone.
LEMMA HistoryElsewhere ==
  ASSUME IInv, NEW s \in Slots, NEW i \in Incidents, NEW ev \in Event, NEW rw \in Incident,
         CommitOf(s, i, ev, rw), NEW j \in Incidents, j # i
  PROVE  HistoryOf(j)'
<1>1. EventsOf(j)' = EventsOf(j) /\ \A k \in EventsOf(j) : events'[k] = events[k]
  BY EventsAfter
<1>2. incidents'[j] = incidents[j]
  BY CommitFacts
<1>3. HistoryOf(j)
  BY HistoryParts DEF IInv
<1>4. \A k \in EventsOf(j) :
        /\ KindOf(k)' = KindOf(k)
        /\ \A v : Moved(k, v)' <=> Moved(k, v)
        /\ LastOf(k, j, {"severity"})' <=> LastOf(k, j, {"severity"})
        /\ LastOf(k, j, StatusKinds)' <=> LastOf(k, j, StatusKinds)
  BY <1>1 DEF KindOf, Moved, LastOf
<1> QED
  BY <1>1, <1>2, <1>3, <1>4 DEF HistoryOf

\* A commit preserves the invariant if it keeps the history of its incident.
LEMMA HistoryAfter ==
  ASSUME IInv, NEW s \in Slots, NEW i \in Incidents, NEW ev \in Event, NEW rw \in Incident,
         CommitOf(s, i, ev, rw), HistoryOf(i)'
  PROVE  IInv'
<1>1. \A j \in Incidents : HistoryOf(j)'
  BY HistoryElsewhere
<1>2. HistoryTellsState'
  BY <1>1 DEF HistoryTellsState, HistoryOf
<1> QED
  BY <1>2, CommitRest

\* CommitCreate preserves the invariant.
LEMMA CommitCreateStep ==
  ASSUME IInv, NEW s \in Slots, NEW i \in Incidents, CommitCreate(s, i)
  PROVE  IInv'
<1> DEFINE c == job[s].cmd
<1> DEFINE ev == EventOf(c, i, 0, 1, Info)
<1> DEFINE rw == Created(c)
<1>1. ~At(s, "idle") /\ At(s, "commit") /\ c.kind \in CreateKinds
  BY DEF CommitCreate, At
<1>2. TypeOK /\ Known(c) /\ GoodJob(job[s]) /\ job[s] \in Job
  BY <1>1, JobFacts
<1>3. c \in Command /\ c # None
  BY <1>2, KnownFacts
<1>4. Info \in Severities
  BY IncidentsAssumption DEF Info
<1>5. rw \in Incident /\ rw.version = 1 /\ rw.status = "open"
      /\ (c.kind = "create_system" => rw.attempt = AttemptOf[c.arg]
                                     /\ rw.candidate = CandidateOf[AttemptOf[c.arg]])
  <2>1. CASE Anchor(c) \in Attempts
    <3>1. Anchor(c) # None /\ CandidateOf[Anchor(c)] \in Candidates
      BY <2>1, IncidentsAssumption
    <3>2. c.kind = "create_system" => Anchor(c) = AttemptOf[c.arg]
      BY DEF Anchor
    <3> QED
      BY <1>4, <2>1, <3>1, <3>2 DEF Created, Incident
  <2>2. CASE Anchor(c) \notin Attempts
    <3>1. Anchor(c) = None /\ c.kind # "create_system" /\ c.arg \in Candidates \cup {None}
      BY <1>1, <1>2, <2>2, KnownFacts DEF Anchor, CreateKinds
    <3> QED
      BY <1>4, <3>1 DEF Created, Incident
  <2> QED
    BY <2>1, <2>2
<1>6. ev \in Event /\ ev.payload.command = c /\ ev.incident = i /\ ev.before = 0 /\ ev.after = 1
  BY <1>1, <1>3 DEF EventOf, Event, StoredPayload, Payload, CreateKinds
<1>7. c.kind \notin BumpKinds \cup LinkKinds \cup {"note"}
      /\ (c.kind \in LinkingKinds <=> c.kind = "create_system")
  BY <1>1, <1>2, KindsApart DEF LinkingKinds, CreateKinds, LinkKinds
<1>8. /\ job' \in [Slots -> Job] /\ job'[s] = JobOf("idle", c, "applied")
      /\ \A r \in Slots : r # s => job'[r] = job[r]
  <2>1. JobOf("idle", c, "applied") \in Job
    BY <1>3, IncidentsAssumption DEF JobOf, Job, Steps, Outcomes
  <2> QED
    BY <1>2, <2>1 DEF CommitCreate, Done, TypeOK
<1>9. CommitOf(s, i, ev, rw)
  <2> HIDE DEF ev, rw
  <2>1. /\ incidents[i] = None
        /\ incidents' = [incidents EXCEPT ![i] = rw]
        /\ events' = [events EXCEPT ![c.op] = ev]
        /\ links' = IF c.kind = "create_system" THEN links \cup {LinkRow(c, i)} ELSE links
        /\ UNCHANGED <<detected, todo, faults>>
    BY DEF CommitCreate, ev, rw
  <2> QED
    BY <1>1, <1>5, <1>6, <1>7, <1>8, <2>1 DEF CommitOf
<1>10. HistoryOf(i)'
  <2> HIDE DEF ev, rw
  <2>1. incidents[i] = None /\ HistoryOf(i)
    BY HistoryParts DEF IInv, CommitCreate
  <2>2. PICK k0 : k0 = c.op
    OBVIOUS
  <2>3. EventsOf(i)' = {k0} /\ events'[k0] = ev /\ incidents'[i] = rw /\ rw # None
    BY <1>5, <1>6, <1>9, <2>1, <2>2, EventsAfter, CommitFacts DEF HistoryOf
  <2>4. KindOf(k0)' \in CreateKinds /\ Moved(k0, 1)' /\ events'[k0].after = 1
    BY <1>1, <1>6, <2>3 DEF KindOf, Moved
  <2>5. KindOf(k0)' \notin StatusKinds \cup {"severity", "resolve", "dismiss"}
    BY <2>4 DEF CreateKinds, StatusKinds, BumpKinds
  <2>6. ~LastOf(k0, i, {"severity"})' /\ ~LastOf(k0, i, StatusKinds)'
    BY <2>5 DEF LastOf
  <2>7. \A v \in 1..incidents'[i].version : v = 1
    BY <1>5, <2>3
  <2> QED
    BY <1>5, <2>3, <2>4, <2>5, <2>6, <2>7 DEF HistoryOf
<1> HIDE DEF ev, rw
<1> QED
  BY <1>5, <1>6, <1>9, <1>10, HistoryAfter

\* Facts about the incident of a commit that is not a create.
LEMMA OldHistory ==
  ASSUME IInv, NEW i \in Incidents, incidents[i] # None
  PROVE  /\ HistoryOf(i)
         /\ \A k \in EventsOf(i) : /\ events[k].after \in Nat /\ events[k].before \in Nat
                                   /\ events[k].after <= incidents[i].version
                                   /\ KindOf(k) \in Kinds
<1>1. HistoryOf(i)
  BY HistoryParts DEF IInv
<1>2. ASSUME NEW k \in EventsOf(i)
      PROVE  events[k].after \in Nat /\ events[k].before \in Nat /\ KindOf(k) \in Kinds
  <2>1. k \in Keys /\ events[k] # None
    BY <1>2 DEF EventsOf
  <2>2. Known(events[k].payload.command)
    BY <2>1 DEF IInv, GoodEvent
  <2> QED
    BY <2>1, <2>2, EventIncident, KnownFacts DEF KindOf
<1> QED
  BY <1>1, <1>2 DEF HistoryOf

\* An event that moves nothing leaves the history as it is.
LEMMA HistoryAppend ==
  ASSUME IInv, NEW s \in Slots, NEW i \in Incidents, NEW ev \in Event, NEW rw \in Incident,
         CommitOf(s, i, ev, rw), job[s].cmd.kind \in LinkKinds \cup {"note"},
         ev.before = ev.after, ev.after <= rw.version
  PROVE  HistoryOf(i)'
<1>1. PICK k0 : k0 = job[s].cmd.op
  OBVIOUS
<1>2. rw = incidents[i] /\ ev.payload.command.kind = job[s].cmd.kind
  BY DEF CommitOf
<1>3. Known(job[s].cmd) /\ job[s].cmd.kind \notin CreateKinds \cup BumpKinds
  BY CommitFacts, KindsApart
<1>4. incidents[i] # None /\ incidents'[i] = rw /\ rw # None
  BY <1>3, CommitFacts
<1>5. /\ EventsOf(i)' = EventsOf(i) \cup {k0} /\ events'[k0] = ev /\ k0 \notin EventsOf(i)
      /\ \A k \in EventsOf(i) : events'[k] = events[k]
  BY <1>1, EventsAfter
<1>6. KindOf(k0)' \notin BumpKinds /\ ~\E v : Moved(k0, v)'
  <2>1. ev.before \in Nat
    BY DEF Event
  <2> QED
    BY <1>2, <1>3, <1>5, <2>1 DEF KindOf, Moved
<1>7. KindOf(k0)' \notin StatusKinds \cup {"severity", "resolve", "dismiss"}
  BY <1>6 DEF StatusKinds, BumpKinds
<1>8. ~LastOf(k0, i, {"severity"})' /\ ~LastOf(k0, i, StatusKinds)'
  BY <1>7 DEF LastOf
<1>9. ASSUME NEW k \in EventsOf(i)
      PROVE  /\ KindOf(k)' = KindOf(k)
             /\ \A v : Moved(k, v)' <=> Moved(k, v)
             /\ LastOf(k, i, {"severity"})' => LastOf(k, i, {"severity"})
             /\ LastOf(k, i, StatusKinds)' => LastOf(k, i, StatusKinds)
  BY <1>5, <1>9 DEF KindOf, Moved, LastOf
<1>10. HistoryOf(i)
  BY <1>4, OldHistory
<1> QED
  BY <1>2, <1>4, <1>5, <1>6, <1>7, <1>8, <1>9, <1>10 DEF HistoryOf

\* CommitAppend preserves the invariant.
LEMMA CommitAppendStep ==
  ASSUME IInv, NEW s \in Slots, CommitAppend(s)
  PROVE  IInv'
<1> DEFINE c == job[s].cmd
<1> DEFINE i == c.incident
<1> DEFINE b == job[s].base
<1> DEFINE ev == EventOf(c, i, b, b, Info)
<1> DEFINE rw == incidents[i]
<1>1. ~At(s, "idle") /\ At(s, "commit") /\ c.kind \in LinkKinds \cup {"note"}
  BY DEF CommitAppend, At
<1>2. TypeOK /\ Known(c) /\ GoodJob(job[s]) /\ job[s] \in Job
  BY <1>1, JobFacts
<1>3. c \in Command /\ c # None /\ c.kind \notin CreateKinds \cup BumpKinds
      /\ i \in Incidents
  BY <1>1, <1>2, KnownFacts, KindsApart
<1>4. rw # None /\ rw \in Incident
  BY <1>2, <1>3, RowType DEF GoodJob, GoodIn
<1>5. b \in Nat /\ b <= rw.version
  BY <1>1, <1>2 DEF Job, GoodJob, GoodIn, Planned, At
<1>6. ev \in Event /\ ev.payload.command = c /\ ev.incident = i /\ ev.before = b /\ ev.after = b
  <2>1. c.kind # "severity"
    BY <1>3 DEF BumpKinds
  <2> QED
    BY <1>3, <1>5, <2>1 DEF EventOf, Event, StoredPayload, Payload
<1>7. c.kind \in LinkingKinds <=> c.kind \in LinkKinds
  BY <1>3 DEF LinkingKinds, CreateKinds
<1>8. /\ job' \in [Slots -> Job] /\ job'[s] = JobOf("idle", c, "applied")
      /\ \A r \in Slots : r # s => job'[r] = job[r]
  <2>1. JobOf("idle", c, "applied") \in Job
    BY <1>3, IncidentsAssumption DEF JobOf, Job, Steps, Outcomes
  <2> QED
    BY <1>2, <2>1 DEF CommitAppend, Done, TypeOK
<1>9. CommitOf(s, i, ev, rw)
  <2>1. /\ incidents' = [incidents EXCEPT ![i] = rw]
        /\ events' = [events EXCEPT ![c.op] = ev]
        /\ links' = IF c.kind \in LinkKinds THEN links \cup {LinkRow(c, i)} ELSE links
        /\ UNCHANGED <<detected, todo, faults>>
    BY <1>2 DEF CommitAppend, TypeOK
  <2> HIDE DEF ev, b
  <2>2. ev.after = ev.before + (IF c.kind \in BumpKinds \cup CreateKinds THEN 1 ELSE 0)
    BY <1>3, <1>5, <1>6
  <2>3. c.kind # "create_system" /\ c.kind \notin BumpKinds /\ c.kind \notin CreateKinds
    BY <1>3 DEF CreateKinds
  <2> QED
    BY <1>1, <1>6, <1>7, <1>8, <2>1, <2>2, <2>3 DEF CommitOf
<1>10. PICK i1 \in Incidents, ev1 \in Event, rw1 \in Incident :
         CommitOf(s, i1, ev1, rw1) /\ ev1.before = ev1.after /\ ev1.after <= rw1.version
  BY <1>3, <1>4, <1>5, <1>6, <1>9
<1> QED
  BY <1>1, <1>10, HistoryAppend, HistoryAfter

-----------------------------------------------------------------------------

\* A bump makes the next version, sets what its kind sets, and finds no earlier
\* resolution or dismissal.
LEMMA HistoryBump ==
  ASSUME IInv, NEW s \in Slots, NEW i \in Incidents, NEW ev \in Event, NEW rw \in Incident,
         CommitOf(s, i, ev, rw), NEW c \in Command, c = job[s].cmd, c.kind \in BumpKinds,
         Allowed(c, incidents[i]), rw = Updated(c, incidents[i]),
         ev.before = incidents[i].version
  PROVE  HistoryOf(i)'
<1> DEFINE row == incidents[i]
<1>1. PICK k0 : k0 = job[s].cmd.op
  OBVIOUS
<1>2. Known(c) /\ c.kind \notin CreateKinds
  BY CommitFacts, KindsApart
<1>3. row # None /\ row \in Incident /\ row.version \in Nat
      /\ incidents'[i] = rw /\ rw # None
  BY <1>2, CommitFacts DEF Incident
<1>4. /\ EventsOf(i)' = EventsOf(i) \cup {k0} /\ events'[k0] = ev /\ k0 \notin EventsOf(i)
      /\ \A k \in EventsOf(i) : events'[k] = events[k]
  BY <1>1, EventsAfter
<1>5. ev.payload.command = c /\ ev.after = row.version + 1
  BY <1>3 DEF CommitOf
<1>6. rw.version = row.version + 1
      /\ rw.severity = (IF c.kind = "severity" THEN c.arg ELSE row.severity)
      /\ (c.kind \in StatusKinds => rw.status = StatusAfter(c.kind))
      /\ (c.kind \notin StatusKinds => rw.status = row.status /\ c.kind = "severity")
  BY <1>3 DEF Updated, Incident, StatusAfter, StatusKinds, BumpKinds
<1>7. KindOf(k0)' = c.kind /\ \A v : Moved(k0, v)' <=> v = row.version + 1
  BY <1>3, <1>4, <1>5 DEF KindOf, Moved
<1>8. /\ HistoryOf(i)
      /\ \A k \in EventsOf(i) : /\ events[k].after \in Nat /\ events[k].before \in Nat
                                /\ events[k].after <= row.version
  BY <1>3, OldHistory
<1>9. ASSUME NEW k \in EventsOf(i)
      PROVE  KindOf(k)' = KindOf(k) /\ \A v : Moved(k, v)' <=> Moved(k, v)
  BY <1>4, <1>9 DEF KindOf, Moved
<1>10. \A k \in EventsOf(i) : KindOf(k) \notin {"resolve", "dismiss"}
  <2> SUFFICES ASSUME NEW k \in EventsOf(i), KindOf(k) \in {"resolve", "dismiss"}
               PROVE  FALSE
    OBVIOUS
  <2>1. events[k].after = row.version
    BY <1>3, <1>8 DEF HistoryOf
  <2>2. LastOf(k, i, StatusKinds)
    BY <1>8, <2>1 DEF LastOf, StatusKinds, BumpKinds
  <2>3. row.status \in {"resolved", "dismissed"}
    BY <1>3, <1>8, <2>2 DEF HistoryOf, StatusAfter
  <2> QED
    BY <2>3 DEF Allowed
<1>11. ASSUME NEW v \in 1..rw.version
       PROVE  \E k \in EventsOf(i)' :
                Moved(k, v)' /\ \A j \in EventsOf(i)' : Moved(j, v)' => j = k
  <2>1. CASE v = row.version + 1
    <3>1. \A j \in EventsOf(i) : ~Moved(j, v)
      BY <1>3, <1>8, <2>1 DEF Moved
    <3> QED
      BY <1>4, <1>7, <1>9, <2>1, <3>1
  <2>2. CASE v # row.version + 1
    <3>1. v \in 1..row.version
      BY <1>3, <1>6, <1>11, <2>2
    <3>2. PICK k \in EventsOf(i) : Moved(k, v) /\ \A j \in EventsOf(i) : Moved(j, v) => j = k
      BY <1>3, <1>8, <3>1 DEF HistoryOf
    <3> QED
      BY <1>4, <1>7, <1>9, <2>2, <3>2
  <2> QED
    BY <2>1, <2>2
<1>12. ASSUME NEW k \in EventsOf(i)', NEW kinds, LastOf(k, i, kinds)'
       PROVE  /\ KindOf(k)' \in kinds
              /\ c.kind \in kinds => k = k0
              /\ c.kind \notin kinds => k \in EventsOf(i) /\ LastOf(k, i, kinds)
  <2>1. KindOf(k)' \in kinds
        /\ \A j \in EventsOf(i)' : KindOf(j)' \in kinds => events'[j].after <= events'[k].after
    BY <1>12 DEF LastOf
  <2>2. CASE c.kind \in kinds
    <3>1. row.version + 1 <= events'[k].after
      BY <1>4, <1>5, <1>7, <2>1, <2>2
    <3>2. k \in EventsOf(i) => events'[k].after <= row.version /\ events'[k].after \in Nat
      BY <1>4, <1>8
    <3> QED
      BY <1>3, <1>4, <2>1, <2>2, <3>1, <3>2
  <2>3. CASE c.kind \notin kinds
    <3>1. k \in EventsOf(i)
      BY <1>4, <1>7, <2>1, <2>3
    <3>2. KindOf(k) \in kinds
      BY <1>9, <2>1, <3>1
    <3>3. \A j \in EventsOf(i) : KindOf(j) \in kinds => events[j].after <= events[k].after
      BY <1>4, <1>9, <2>1, <3>1
    <3> QED
      BY <2>1, <2>3, <3>1, <3>2, <3>3 DEF LastOf
  <2> QED
    BY <2>2, <2>3
<1>13. ASSUME NEW k \in EventsOf(i)'
       PROVE  /\ events'[k].after <= rw.version
              /\ KindOf(k)' \in {"resolve", "dismiss"} => events'[k].after = rw.version
              /\ LastOf(k, i, {"severity"})' => rw.severity = events'[k].payload.command.arg
              /\ LastOf(k, i, StatusKinds)' => rw.status = StatusAfter(KindOf(k)')
  <2>1. events'[k].after <= rw.version
    BY <1>3, <1>4, <1>5, <1>6, <1>8
  <2>2. KindOf(k)' \in {"resolve", "dismiss"} => events'[k].after = rw.version
    BY <1>4, <1>5, <1>6, <1>9, <1>10
  <2>3. ASSUME LastOf(k, i, {"severity"})' PROVE rw.severity = events'[k].payload.command.arg
    <3>1. CASE c.kind = "severity"
      <4>1. k = k0
        BY <1>12, <2>3, <3>1
      <4> QED
        BY <1>4, <1>5, <1>6, <3>1, <4>1
    <3>2. CASE c.kind # "severity"
      <4>1. k \in EventsOf(i) /\ LastOf(k, i, {"severity"})
        BY <1>12, <2>3, <3>2
      <4> QED
        BY <1>3, <1>4, <1>6, <1>8, <3>2, <4>1 DEF HistoryOf
    <3> QED
      BY <3>1, <3>2
  <2>4. ASSUME LastOf(k, i, StatusKinds)' PROVE rw.status = StatusAfter(KindOf(k)')
    <3>1. CASE c.kind \in StatusKinds
      <4>1. k = k0
        BY <1>12, <2>4, <3>1
      <4> QED
        BY <1>6, <1>7, <3>1, <4>1
    <3>2. CASE c.kind \notin StatusKinds
      <4>1. k \in EventsOf(i) /\ LastOf(k, i, StatusKinds)
        BY <1>12, <2>4, <3>2
      <4>2. row.status = StatusAfter(KindOf(k))
        BY <1>3, <1>8, <4>1 DEF HistoryOf
      <4> QED
        BY <1>6, <1>9, <3>2, <4>1, <4>2
    <3> QED
      BY <3>1, <3>2
  <2> QED
    BY <2>1, <2>2, <2>3, <2>4
<1>14. (\A k \in EventsOf(i)' : KindOf(k)' \notin StatusKinds) => rw.status = "open"
  <2> SUFFICES ASSUME \A k \in EventsOf(i)' : KindOf(k)' \notin StatusKinds
               PROVE  rw.status = "open"
    OBVIOUS
  <2>1. c.kind \notin StatusKinds
    BY <1>4, <1>7
  <2>2. \A k \in EventsOf(i) : KindOf(k) \notin StatusKinds
    BY <1>4, <1>9
  <2> QED
    BY <1>3, <1>6, <1>8, <2>1, <2>2 DEF HistoryOf
<1> HIDE DEF row
<1> QED
  BY <1>3, <1>11, <1>13, <1>14 DEF HistoryOf

\* A version bump leaves the incident well typed.
LEMMA UpdatedType ==
  ASSUME NEW c, NEW row \in Incident, c.kind = "severity" => c.arg \in Severities
  PROVE  /\ Updated(c, row) \in Incident
         /\ Updated(c, row).version = row.version + 1
         /\ Updated(c, row).attempt = row.attempt
         /\ Updated(c, row).candidate = row.candidate
<1>1. PICK n \in Nat : n = row.version + 1
  BY DEF Incident
<1>2. PICK sev \in Severities : sev = IF c.kind = "severity" THEN c.arg ELSE row.severity
  BY DEF Incident
<1>3. PICK st \in {"open", "investigating", "resolved", "dismissed"} :
        st = CASE c.kind = "investigate" -> "investigating"
               [] c.kind = "resolve" -> "resolved"
               [] c.kind = "dismiss" -> "dismissed"
               [] OTHER -> row.status
  BY DEF Incident
<1>4. Updated(c, row) = [row EXCEPT !.version = n, !.severity = sev, !.status = st]
  BY <1>1, <1>2, <1>3 DEF Updated
<1>5. [row EXCEPT !.version = n, !.severity = sev, !.status = st] \in Incident
  BY DEF Incident
<1> QED
  BY <1>1, <1>4, <1>5 DEF Incident

\* CommitBump preserves the invariant.
LEMMA CommitBumpStep ==
  ASSUME IInv, NEW s \in Slots, CommitBump(s)
  PROVE  IInv'
<1> DEFINE c == job[s].cmd
<1> DEFINE i == c.incident
<1> DEFINE row == incidents[i]
<1> DEFINE ev == EventOf(c, i, row.version, row.version + 1, row.severity)
<1> DEFINE rw == Updated(c, row)
<1>1. ~At(s, "idle") /\ At(s, "commit") /\ c.kind \in BumpKinds
  BY DEF CommitBump, At
<1>2. TypeOK /\ Known(c) /\ GoodJob(job[s]) /\ job[s] \in Job
  BY <1>1, JobFacts
<1>3. c \in Command /\ c # None /\ i \in Incidents
      /\ c.kind \notin CreateKinds \cup LinkKinds \cup {"note"}
      /\ (c.kind = "severity" => c.arg \in Severities)
  BY <1>1, <1>2, KnownFacts, KindsApart
<1>4. row # None /\ row \in Incident /\ row.version \in Nat /\ row.severity \in Severities
  BY <1>2, <1>3, RowType DEF GoodJob, GoodIn, Incident
<1>5. Allowed(c, row)
  BY <1>1, <1>2 DEF GoodJob, GoodIn, Planned, At
<1>6. rw \in Incident /\ rw.version = row.version + 1 /\ rw.attempt = row.attempt
      /\ rw.candidate = row.candidate
  BY <1>3, <1>4, UpdatedType
<1>7. ev \in Event /\ ev.payload.command = c /\ ev.incident = i
      /\ ev.before = row.version /\ ev.after = row.version + 1
  BY <1>3, <1>4 DEF EventOf, Event, StoredPayload, Payload
<1>8. /\ job' \in [Slots -> Job] /\ job'[s] = JobOf("idle", c, "applied")
      /\ \A r \in Slots : r # s =>
           /\ job'[r].pc = job[r].pc /\ job'[r].cmd = job[r].cmd
           /\ job'[r].reply = job[r].reply /\ job'[r].base = job[r].base
           /\ job'[r].refused = job[r].refused
  <2>1. JobOf("idle", c, "applied") \in Job /\ JobOf("idle", c, "applied").pc = "idle"
    BY <1>3, IncidentsAssumption DEF JobOf, Job, Steps, Outcomes
  <2>2. Done(s) \in [Slots -> Job] /\ Done(s)[s] = JobOf("idle", c, "applied")
        /\ \A r \in Slots : r # s => Done(s)[r] = job[r]
    BY <1>2, <2>1 DEF Done, TypeOK
  <2>3. \A r \in Slots : job'[r] = Done(s)[r] \/ job'[r] = [Done(s)[r] EXCEPT !.stale = TRUE]
    BY DEF CommitBump, Outdated
  <2>4. job'[s] = Done(s)[s]
    BY <2>1, <2>2 DEF CommitBump, Outdated
  <2>5. \A r \in Slots : [Done(s)[r] EXCEPT !.stale = TRUE] \in Job
    BY <2>2 DEF Job
  <2>6. job' \in [Slots -> Job]
    BY <2>2, <2>5 DEF CommitBump, Outdated
  <2>7. ASSUME NEW r \in Slots, r # s
        PROVE  /\ job'[r].pc = job[r].pc /\ job'[r].cmd = job[r].cmd
               /\ job'[r].reply = job[r].reply /\ job'[r].base = job[r].base
               /\ job'[r].refused = job[r].refused
    <3>1. Done(s)[r] = job[r] /\ job[r] \in Job
      BY <1>2, <2>2, <2>7 DEF TypeOK
    <3>2. job'[r] = job[r] \/ job'[r] = [job[r] EXCEPT !.stale = TRUE]
      BY <2>3, <3>1
    <3> QED
      BY <3>1, <3>2 DEF Job
  <2> QED
    BY <2>2, <2>4, <2>6, <2>7
<1>9. CommitOf(s, i, ev, rw)
  <2>1. /\ incidents' = [incidents EXCEPT ![i] = rw]
        /\ events' = [events EXCEPT ![c.op] = ev]
        /\ links' = links
        /\ UNCHANGED <<detected, todo, faults>>
    BY <1>2 DEF CommitBump, TypeOK
  <2>2. c.kind # "create_system" /\ c.kind \notin LinkingKinds
    BY <1>3 DEF CreateKinds, LinkingKinds
  <2> HIDE DEF ev, rw, row
  <2>3. ev.after = ev.before + (IF c.kind \in BumpKinds \cup CreateKinds THEN 1 ELSE 0)
    BY <1>1, <1>4, <1>7
  <2>4. row.version <= rw.version /\ row = incidents[i]
    BY <1>4, <1>6 DEF row
  <2> QED
    BY <1>1, <1>3, <1>6, <1>7, <1>8, <2>1, <2>2, <2>3, <2>4 DEF CommitOf
<1>10. PICK c1 \in Command, i1 \in Incidents, ev1 \in Event, rw1 \in Incident :
         /\ c1 = job[s].cmd /\ c1.kind \in BumpKinds
         /\ CommitOf(s, i1, ev1, rw1) /\ ev1.before = incidents[i1].version
         /\ Allowed(c1, incidents[i1]) /\ rw1 = Updated(c1, incidents[i1])
  <2>1. row = incidents[i] /\ rw = Updated(c, incidents[i]) /\ ev.before = incidents[i].version
    BY <1>7
  <2> HIDE DEF ev, rw, row, i
  <2> QED
    BY <1>1, <1>3, <1>5, <1>6, <1>7, <1>9, <2>1
<1> QED
  BY <1>10, HistoryBump, HistoryAfter

\* Every step preserves the invariant.
LEMMA StepInv == IInv /\ [Next]_vars => IInv'
<1> SUFFICES ASSUME IInv, [Next]_vars PROVE IInv'
  OBVIOUS
<1>1. CASE UNCHANGED vars
  <2>1. TypeOK'
    BY <1>1 DEF vars, IInv, TypeOK
  <2>2. \A r \in Slots : GoodJob(job[r])'
    BY <1>1 DEF vars, IInv, GoodJob
  <2>3. ASSUME NEW q \in Slots, NEW r \in Slots, q # r PROVE Apart(job[q], job[r])'
    BY <1>1, <2>3 DEF vars, IInv
  <2>4. \A k \in Keys : events'[k] # None => GoodEvent(k)'
    BY <1>1 DEF vars, IInv, GoodEvent
  <2>5. HistoryTellsState'
    BY <1>1 DEF vars, IInv, HistoryTellsState, EventsOf, KindOf, Moved, LastOf
  <2>6. LinksHaveEvents'
    BY <1>1 DEF vars, IInv, LinksHaveEvents, KindOf
  <2> QED
    BY <2>1, <2>2, <2>3, <2>4, <2>5, <2>6 DEF IInv
<1>2. ASSUME NEW s \in Slots, Step(s) PROVE IInv'
  BY <1>2, PreReadHitStep, BeginStep, LinkRefusedStep, LockOutdatedStep, LockRowStep,
     AppendEventStep, OperationTakenStep, InsertLinkStep, CommitCreateStep, CommitBumpStep,
     CommitAppendStep, RecoverStep, DeliverSystemStep
  DEF Step
<1>3. ASSUME NEW s \in Slots, Reconcile(s) PROVE IInv'
  BY <1>3, ReconcileStep
<1>4. ASSUME NEW s \in Slots, NEW dies \in BOOLEAN, Fail(s, dies) PROVE IInv'
  BY <1>4, FailStep
<1>5. ASSUME NEW s \in Slots, NEW c \in Commands, Deliver(s, c) PROVE IInv'
  BY <1>5, DeliverStep
<1>6. ASSUME NEW e \in Episodes, Detect(e) PROVE IInv'
  BY <1>6, DetectStep
<1> QED
  BY <1>1, <1>2, <1>3, <1>4, <1>5, <1>6 DEF Next

\* The invariant holds in every reachable state.
LEMMA Inductive == Spec => []IInv
  BY InitInv, StepInv, PTL DEF Spec

-----------------------------------------------------------------------------
(* Theorems *)

\* The rows and the handlers keep their types; executeInTransaction starts a
\* command over at most MAX_RETRIES times.
THEOREM TypeCorrect == Spec => []TypeOK
<1>1. IInv => TypeOK
  BY DEF IInv
<1> QED
  BY <1>1, Inductive, PTL

\* However requests race for an incident in versionBumpCommand, its event log
\* explains its row: one event per version, status and severity as last set, and
\* nothing after a resolution or a dismissal.
THEOREM HistoryComplete == Spec => []HistoryTellsState
<1>1. IInv => HistoryTellsState
  BY DEF IInv
<1> QED
  BY <1>1, Inductive, PTL

\* However link commands, the detector and failures interleave, a link row stands
\* with its event, alone in its index, inside the scope of its incident.
THEOREM LinksSound == Spec => []LinksHaveEvents
<1>1. IInv => LinksHaveEvents
  BY DEF IInv
<1> QED
  BY <1>1, Inductive, PTL

\* withIncidentOperationRecovery never reports a success that is not in the
\* event log for this command.
THEOREM RepliesTrue == Spec => []RepliesAreTrue
<1>1. IInv => RepliesAreTrue
  BY DEF IInv, GoodJob, GoodIn, RepliesAreTrue
<1> QED
  BY <1>1, Inductive, PTL
=============================================================================
