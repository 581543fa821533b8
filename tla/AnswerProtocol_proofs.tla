------------------------ MODULE AnswerProtocol_proofs ------------------------
(***************************************************************************)
(* Proofs about AnswerProtocol, for any number of tabs, any answers and    *)
(* any bounds on edits and faults.                                         *)
(*                                                                         *)
(* The server appends a receipt or leaves its rows alone (WritesOrKeeps).  *)
(* What pages know lies behind it (AllBehind); one undisturbed tab is in   *)
(* step with it (QuietInv); and the receipts are the log of AnswerContract *)
(* (LogFits), which the protocol implements.                               *)
(***************************************************************************)
EXTENDS AnswerProtocol, TLAPS

-----------------------------------------------------------------------------
(***************************************************************************)
(* The operators that compute the next page keep the type of a page.       *)
(***************************************************************************)

\* Scheduling a save (saveAnswer of the page) leaves a save to be sent and
\* the request under way alone.
LEMMA ScheduleType ==
  ASSUME NEW p \in Page, NEW a \in Answers
  PROVE  /\ Schedule(p, a) \in Page
         /\ Schedule(p, a).pending \in Save
<1> DEFINE s == [answer |-> a, gen |-> p.gen + 1]
<1>1. p.gen + 1 \in Nat /\ s \in Save
  BY DEF Page, Save
<1>2. a \in MaybeAnswer
  BY DEF MaybeAnswer
<1>3. Schedule(p, a) = [p EXCEPT !.draft = a, !.gen = p.gen + 1, !.pending = s,
                                 !.status = "pending", !.indicator = "saving"]
  BY DEF Schedule
<1> HIDE DEF s
<1>4. Schedule(p, a) \in Page
  BY <1>1, <1>2, <1>3 DEF Page
<1>5. Schedule(p, a).pending = s
  BY <1>3 DEF Page
<1> QED
  BY <1>1, <1>4, <1>5

\* The outcome of a save is a save status of the page.
LEMMA OutcomeType ==
  ASSUME NEW p \in Page, NEW gen \in Nat,
         NEW status \in {"idle", "pending", "inflight", "saved", "failed"}
  PROVE  Outcome(p, gen, status) \in
           {"idle", "pending", "inflight", "saved", "failed"}
BY DEF Outcome, Page

\* Running the callback of a save gives a page whose request is well formed.
LEMMA LaunchType ==
  ASSUME NEW p \in Page, NEW t \in Tabs, NEW s \in Save
  PROVE  Launch(p, t, s) \in Page
<1>1. CASE p.view = "editable"
  <2>1. Outcome(p, s.gen, "inflight") \in
          {"idle", "pending", "inflight", "saved", "failed"}
    BY OutcomeType DEF Save
  <2> DEFINE r == [tab |-> t, page |-> p.page, gen |-> s.gen,
                   seq |-> p.seq + 1, base |-> p.version, answer |-> s.answer]
             o == Outcome(p, s.gen, "inflight")
  <2>2. r \in Request /\ p.seq + 1 \in Nat
    BY DEF Request, Page, Save
  <2>3. Launch(p, t, s) =
          [p EXCEPT !.seq = p.seq + 1, !.sent = r, !.status = o]
    BY <1>1 DEF Launch
  <2> HIDE DEF r, o
  <2> QED
    BY <2>1, <2>2, <2>3 DEF Page, o
<1>2. CASE p.view # "editable"
  <2> DEFINE last == (IF p.queue = << >> THEN s ELSE p.queue[Len(p.queue)]).gen
  <2>1. last \in Nat
    <3>1. CASE p.queue = << >>
      BY <3>1 DEF Save
    <3>2. CASE p.queue # << >>
      <4>1. p.queue \in Seq(Save)
        BY DEF Page
      <4>2. p.queue[Len(p.queue)] \in Save
        BY <3>2, <4>1
      <4> QED
        BY <3>2, <4>2 DEF Save
    <3> QED
      BY <3>1, <3>2
  <2>2. Outcome(p, last, "failed") \in
          {"idle", "pending", "inflight", "saved", "failed"}
    BY <2>1, OutcomeType
  <2>3. << >> \in Seq(Save)
    OBVIOUS
  <2> HIDE DEF last
  <2>4. Launch(p, t, s) = [p EXCEPT !.sent = None, !.queue = << >>,
                             !.status = Outcome(p, last, "failed"),
                             !.indicator = "idle"]
    BY <1>2 DEF Launch, last
  <2> QED
    BY <2>2, <2>3, <2>4 DEF Page
<1> QED
  BY <1>1, <1>2

\* Firing the timer of a page that has a pending save.
LEMMA FireType ==
  ASSUME NEW p \in Page, NEW t \in Tabs, p.pending # None
  PROVE  Fire(p, t) \in Page
<1>1. p.pending \in Save
  BY DEF Page
<1>2. [p EXCEPT !.pending = None] \in Page
  BY DEF Page
<1>3. CASE p.sent = None
  BY <1>1, <1>2, <1>3, LaunchType DEF Fire
<1>4. CASE p.sent # None
  <2>1. Append(p.queue, p.pending) \in Seq(Save)
    BY <1>1 DEF Page
  <2> QED
    BY <1>4, <2>1 DEF Fire, Page
<1> QED
  BY <1>3, <1>4

\* Settling the save under way starts the next one of the chain, if any.
LEMMA SettleType ==
  ASSUME NEW p \in Page, NEW t \in Tabs
  PROVE  Settle(p, t) \in Page
<1>1. CASE p.queue = << >>
  BY <1>1 DEF Settle, Page
<1>2. CASE p.queue # << >>
  <2>1. p.queue \in Seq(Save)
    BY DEF Page
  <2>2. Head(p.queue) \in Save /\ Tail(p.queue) \in Seq(Save)
    BY <1>2, <2>1
  <2>3. [p EXCEPT !.queue = Tail(@)] \in Page
    BY <2>2 DEF Page
  <2> QED
    BY <1>2, <2>2, <2>3, LaunchType DEF Settle
<1> QED
  BY <1>1, <1>2

\* A snapshot request is a snapshot.
LEMMA RequestedType ==
  ASSUME NEW why \in {"page", "restore"}
  PROVE  Requested(why) \in Snapshot
BY DEF Requested, Snapshot, MaybeAnswer

\* What the page makes of a reply is a page.
LEMMA ReceivedType ==
  ASSUME NEW p \in Page, NEW reply \in Reply, p.sent # None
  PROVE  Received(p, reply) \in Page
<1>1. p.sent.gen \in Nat
  BY DEF Page, Request
<1>2. \A s \in {"saved", "failed"} : Outcome(p, p.sent.gen, s) \in
        {"idle", "pending", "inflight", "saved", "failed"}
  BY <1>1, OutcomeType
<1>3. Reconciling(p) \in Snapshot \cup {None}
  BY RequestedType DEF Reconciling, Page
<1>4. reply.version \in Nat /\ reply.answer \in MaybeAnswer
  BY DEF Reply
<1> DEFINE saved == Outcome(p, p.sent.gen, "saved")
           failed == Outcome(p, p.sent.gen, "failed")
           load == IF reply.result = "ATTEMPT_ALREADY_SUBMITTED"
                     THEN Reconciling(p) ELSE p.load
<1>5. load \in Snapshot \cup {None}
  BY <1>3 DEF Page
<1>6. \/ Received(p, reply) = [p EXCEPT !.version = reply.version,
                                 !.indicator = "saved", !.status = saved]
      \/ Received(p, reply) = [p EXCEPT !.version = reply.version,
                                 !.draft = reply.answer,
                                 !.indicator = "saved", !.status = saved]
      \/ Received(p, reply) = [p EXCEPT !.indicator = "error",
                                 !.status = failed, !.load = load]
  BY DEF Received
<1>7. saved \in {"idle", "pending", "inflight", "saved", "failed"}
  BY <1>2
<1>8. failed \in {"idle", "pending", "inflight", "saved", "failed"}
  BY <1>2
<1> HIDE DEF saved, failed, load
<1>9. [p EXCEPT !.version = reply.version, !.indicator = "saved",
                !.status = saved] \in Page
  BY <1>4, <1>7 DEF Page
<1>10. [p EXCEPT !.version = reply.version, !.draft = reply.answer,
                 !.indicator = "saved", !.status = saved] \in Page
  BY <1>4, <1>7 DEF Page
<1>11. [p EXCEPT !.indicator = "error", !.status = failed, !.load = load] \in Page
  BY <1>5, <1>8 DEF Page
<1> QED
  BY <1>6, <1>9, <1>10, <1>11

\* A freshly opened page.
LEMMA FreshPageType ==
  ASSUME NEW number \in Nat, NEW edits \in Nat, NEW retries \in Nat
  PROVE  FreshPage(number, edits, retries) \in Page
<1>1. Requested("page") \in Snapshot
  BY RequestedType
<1>2. << >> \in Seq(Save)
  OBVIOUS
<1> QED
  BY <1>1, <1>2 DEF FreshPage, Page, MaybeAnswer

\* A page with a snapshot on its way applied.
LEMMA AppliedType ==
  ASSUME NEW p \in Page, p.load # None
  PROVE  Applied(p) \in Page
<1>1. p.load \in Snapshot
  BY DEF Page
<1> DEFINE v == IF p.load.answer = None THEN 0 ELSE p.load.version
           q == IF p.load.answer = None \/ p.load.view = "locked"
                  THEN 0 ELSE p.load.seq
<1>2. /\ p.load.view \in {"loading", "editable", "disrupted", "locked"}
      /\ p.load.answer \in MaybeAnswer
      /\ v \in Nat /\ q \in Nat
  BY <1>1 DEF Snapshot
<1>3. Applied(p) = [p EXCEPT !.view = p.load.view, !.draft = p.load.answer,
                             !.version = v, !.seq = q, !.load = None]
  BY DEF Applied
<1> HIDE DEF v, q
<1> QED
  BY <1>2, <1>3 DEF Page

-----------------------------------------------------------------------------
(***************************************************************************)
(* Type correctness.                                                       *)
(***************************************************************************)

\* A step that replaces one page by a page, with what it puts on the wire.
LEMMA PageStepType ==
  ASSUME TypeOK, NEW t \in Tabs, NEW p \in Page, PageStep(t, p)
  PROVE  /\ tab' \in [Tabs -> Page]
         /\ net' \subseteq Request
         /\ row' = row /\ receipts' = receipts
<1>1. p.sent \in Request \cup {None}
  BY DEF Page
<1>2. tab \in [Tabs -> Page] /\ net \subseteq Request
  BY DEF TypeOK
<1> QED
  BY <1>1, <1>2 DEF PageStep, Sent

\* A step that only replaces the snapshot a page is waiting for.
LEMMA SetLoadType ==
  ASSUME TypeOK, NEW t \in Tabs, NEW load \in Snapshot \cup {None},
         SetLoad(t, load)
  PROVE  tab' \in [Tabs -> Page]
<1> DEFINE p == tab[t]
<1>1. p \in Page
  BY DEF TypeOK
<1>2. tab' = [tab EXCEPT ![t] = [p EXCEPT !.load = load]]
  BY DEF SetLoad
<1> HIDE DEF p
<1>3. [p EXCEPT !.load = load] \in Page
  BY <1>1 DEF Page
<1> QED
  BY <1>2, <1>3 DEF TypeOK

\* The server's reply is well formed whatever the verdict.
LEMMA ReplyType ==
  ASSUME TypeOK, NEW r \in Request, NEW result \in Results,
         NEW version \in Nat, Answer(r, result, version)
  PROVE  replies' \subseteq Reply
<1>1. row.answer \in MaybeAnswer /\ replies \subseteq Reply
  BY DEF TypeOK, Row
<1>2. [req |-> r, result |-> result, version |-> version, answer |-> row.answer]
        \in Reply
  BY <1>1 DEF Reply
<1> QED
  BY <1>1, <1>2 DEF Answer

\* processSaveAnswer reports one of its results and a version.
LEMMA VerdictType ==
  ASSUME TypeOK, NEW r \in Request
  PROVE  /\ Verdict(r) \in Results \cup {"new"}
         /\ ServerVersion(r) \in Nat
<1>1. Verdict(r) \in Results \cup {"new"}
  BY DEF Verdict, Results
<1>2. ASSUME Known(r) = {} PROVE ServerVersion(r) \in Nat
  BY <1>2 DEF ServerVersion, TypeOK, Row
<1>3. ASSUME Known(r) # {} PROVE ServerVersion(r) \in Nat
  <2>1. (CHOOSE rc \in Known(r) : TRUE) \in Known(r)
    BY <1>3
  <2>2. Known(r) \subseteq Receipt
    BY DEF Known, TypeOK
  <2>3. (CHOOSE rc \in Known(r) : TRUE).version \in Nat
    BY <2>1, <2>2 DEF Receipt
  <2> QED
    BY <1>3, <2>3 DEF ServerVersion
<1> QED
  BY <1>1, <1>2, <1>3

\* Init is well typed.
LEMMA InitType == Init => TypeOK
<1> SUFFICES ASSUME Init PROVE TypeOK
  OBVIOUS
<1>1. FreshPage(0, 0, 0) \in Page
  BY FreshPageType
<1>2. row \in Row
  BY DEF Init, Row, MaybeAnswer
<1> QED
  BY <1>1, <1>2 DEF Init, TypeOK, Faults

\* The steps of the server keep the types.
LEMMA ServerType ==
  ASSUME TypeOK
  PROVE  /\ Submit => TypeOK'
         /\ Disrupt => TypeOK'
         /\ \A r \in net : SaveAnswer(r) => TypeOK'
<1>1. ASSUME Submit PROVE TypeOK'
  <2>1. row' \in Row
    BY <1>1 DEF Submit, TypeOK, Row
  <2> QED
    BY <1>1, <2>1 DEF Submit, TypeOK
<1>2. ASSUME Disrupt PROVE TypeOK'
  <2>1. row' \in Row
    BY <1>2 DEF Disrupt, TypeOK, Row
  <2>2. faults' \in Faults
    BY <1>2 DEF Disrupt, TypeOK, Faults
  <2> QED
    BY <1>2, <2>1, <2>2 DEF Disrupt, TypeOK
<1>3. ASSUME NEW r \in net, SaveAnswer(r) PROVE TypeOK'
  <2>1. r \in Request
    BY DEF TypeOK
  <2>2. CASE Verdict(r) = "new"
    <3>1. row' = [row EXCEPT !.answer = r.answer, !.version = @ + 1]
      BY <1>3, <2>2 DEF SaveAnswer
    <3>2. row' \in Row
      <4>1. row \in Row /\ r.answer \in MaybeAnswer
        BY <2>1 DEF TypeOK, Request, MaybeAnswer
      <4>2. row.version + 1 \in Nat
        BY <4>1 DEF Row
      <4> QED
        BY <3>1, <4>1, <4>2 DEF Row
    <3>3. row.version + 1 \in Nat
      BY DEF TypeOK, Row
    <3>4. [seq |-> r.seq, answer |-> r.answer, version |-> row.version + 1]
            \in Receipt
      BY <2>1, <3>3 DEF Receipt, Request
    <3>5. receipts' \subseteq Receipt
      BY <1>3, <2>2, <3>4 DEF SaveAnswer, TypeOK
    <3>6. Answer(r, "accepted", row.version + 1)
      BY <1>3, <2>2 DEF SaveAnswer
    <3>7. replies' \subseteq Reply
      BY <2>1, <3>3, <3>6, ReplyType DEF Results
    <3> QED
      BY <1>3, <3>2, <3>5, <3>7 DEF SaveAnswer, TypeOK
  <2>3. CASE Verdict(r) # "new"
    <3>1. /\ Answer(r, Verdict(r), ServerVersion(r))
          /\ row' = row /\ receipts' = receipts
      BY <1>3, <2>3 DEF SaveAnswer
    <3>2. replies' \subseteq Reply
      BY <2>1, <2>3, <3>1, VerdictType, ReplyType
    <3> QED
      BY <1>3, <3>1, <3>2 DEF SaveAnswer, TypeOK
  <2> QED
    BY <2>2, <2>3
<1> QED
  BY <1>1, <1>2, <1>3

\* Editing, the timer, retries, replies and lost requests keep the types.
LEMMA QueueType ==
  ASSUME TypeOK, NEW t \in Tabs,
         \/ Edit(t) \/ FireTimer(t) \/ Retry(t) \/ Receive(t) \/ NetworkError(t)
  PROVE  TypeOK'
<1>1. tab[t] \in Page
  BY DEF TypeOK
<1>2. CASE Edit(t)
  <2>1. PICK a \in Answers :
          PageStep(t, [Schedule(tab[t], a) EXCEPT !.edits = @ + 1])
    BY <1>2 DEF Edit
  <2> DEFINE s == Schedule(tab[t], a)
  <2>2. s \in Page
    BY <1>1, ScheduleType
  <2> HIDE DEF s
  <2>3. [s EXCEPT !.edits = @ + 1] \in Page
    BY <2>2 DEF Page
  <2>4. tab' \in [Tabs -> Page] /\ net' \subseteq Request
        /\ row' = row /\ receipts' = receipts
    BY <2>1, <2>3, PageStepType DEF s
  <2> QED
    BY <1>2, <2>4 DEF Edit, TypeOK
<1>3. CASE FireTimer(t)
  <2>1. Fire(tab[t], t) \in Page
    BY <1>1, <1>3, FireType DEF FireTimer
  <2>2. tab' \in [Tabs -> Page] /\ net' \subseteq Request
        /\ row' = row /\ receipts' = receipts
    BY <1>3, <2>1, PageStepType DEF FireTimer
  <2> QED
    BY <1>3, <2>2 DEF FireTimer, TypeOK
<1>4. CASE Retry(t)
  <2> DEFINE s == Schedule(tab[t], tab[t].draft)
             q == [s EXCEPT !.retries = @ + 1]
  <2>1. tab[t].draft \in Answers
    BY <1>1, <1>4 DEF Retry, Page, MaybeAnswer
  <2>2. s \in Page /\ s.pending \in Save
    BY <1>1, <2>1, ScheduleType
  <2> HIDE DEF s
  <2>3. q \in Page /\ q.pending = s.pending
    BY <2>2 DEF Page
  <2>4. CASE s.pending # None
    <3> HIDE DEF q
    <3>1. Fire(q, t) \in Page
      BY <2>3, <2>4, FireType
    <3>2. PageStep(t, Fire(q, t))
      BY <1>4 DEF Retry, q, s
    <3>3. tab' \in [Tabs -> Page] /\ net' \subseteq Request
          /\ row' = row /\ receipts' = receipts
      BY <3>1, <3>2, PageStepType
    <3> QED
      BY <1>4, <3>3 DEF Retry, TypeOK
  <2> QED
    BY <2>2, <2>4, NoneAssumption
<1>5. CASE Receive(t)
  <2>1. PICK reply \in replies :
          /\ reply.req = tab[t].sent
          /\ PageStep(t, Settle(Received(tab[t], reply), t))
          /\ replies' = {other \in replies : other.req # reply.req}
    BY <1>5 DEF Receive
  <2>2. reply \in Reply /\ reply.req \in Request
    BY <2>1 DEF TypeOK, Reply
  <2>3. Settle(Received(tab[t], reply), t) \in Page
    BY <1>1, <2>1, <2>2, NoneAssumption, ReceivedType, SettleType
  <2>4. tab' \in [Tabs -> Page] /\ net' \subseteq Request
        /\ row' = row /\ receipts' = receipts
    BY <2>1, <2>3, PageStepType
  <2> QED
    BY <1>5, <2>1, <2>4 DEF Receive, TypeOK
<1>6. CASE NetworkError(t)
  <2> DEFINE o == Outcome(tab[t], tab[t].sent.gen, "failed")
             q == [tab[t] EXCEPT !.indicator = "error", !.status = o]
  <2>1. tab[t].sent.gen \in Nat
    BY <1>1, <1>6 DEF NetworkError, Page, Request
  <2>2. o \in {"idle", "pending", "inflight", "saved", "failed"}
    BY <1>1, <2>1, OutcomeType
  <2>3. PageStep(t, Settle(q, t))
    BY <1>6 DEF NetworkError
  <2> HIDE DEF o
  <2>4. q \in Page
    BY <1>1, <2>2 DEF Page
  <2> HIDE DEF q
  <2>5. tab' \in [Tabs -> Page] /\ net' \subseteq Request
        /\ row' = row /\ receipts' = receipts
    BY <2>3, <2>4, SettleType, PageStepType
  <2>6. faults' \in Faults /\ replies' \subseteq replies
    BY <1>6 DEF NetworkError, TypeOK, Faults
  <2> QED
    BY <2>5, <2>6 DEF TypeOK
<1> QED
  BY <1>2, <1>3, <1>4, <1>5, <1>6

\* Snapshots, restores and reloads keep the types.
LEMMA SnapshotType ==
  ASSUME TypeOK, NEW t \in Tabs,
         \/ LoadRow(t) \/ LoadSeq(t) \/ ApplySnapshot(t) \/ LoadFails(t)
         \/ HeartbeatRefused(t) \/ Restore(t) \/ Reload(t)
  PROVE  TypeOK'
<1>1. tab[t] \in Page /\ row \in Row /\ faults \in Faults
  BY DEF TypeOK
<1>r. Requested("page") \in Snapshot /\ Requested("restore") \in Snapshot
  BY RequestedType
<1>f. /\ [faults EXCEPT !.errors = @ + 1] \in Faults
      /\ [faults EXCEPT !.reloads = @ + 1] \in Faults
  BY <1>1 DEF Faults
<1>2. CASE LoadRow(t)
  <2> DEFINE l == tab[t].load
             view == CASE row.status = "in_progress" -> "editable"
                       [] row.status = "disrupted"   -> "disrupted"
                       [] row.status = "submitted"   -> "locked"
             answer == IF row.status = "submitted" THEN row.frozen ELSE row.answer
             version == IF row.status = "submitted" THEN 0 ELSE row.version
             m == [l EXCEPT !.phase = "row", !.view = view, !.answer = answer,
                            !.version = version]
  <2>1. l \in Snapshot
    BY <1>1, <1>2 DEF LoadRow, Page
  <2>2. view \in {"editable", "disrupted", "locked"}
    BY <1>1 DEF Row
  <2>3. answer \in MaybeAnswer /\ version \in Nat
    BY <1>1 DEF Row
  <2>4. SetLoad(t, m) /\ UNCHANGED faults
    BY <1>2 DEF LoadRow
  <2> HIDE DEF l, view, answer, version
  <2>5. m \in Snapshot
    BY <2>1, <2>2, <2>3 DEF Snapshot
  <2> HIDE DEF m
  <2>6. tab' \in [Tabs -> Page]
    BY <2>4, <2>5, SetLoadType
  <2> QED
    BY <2>4, <2>6 DEF SetLoad, TypeOK
<1>3. CASE LoadSeq(t)
  <2> DEFINE l == tab[t].load
  <2>1. l \in Snapshot
    BY <1>1, <1>3 DEF LoadSeq, Page
  <2>2. PICK q \in {0} \cup {rc.seq : rc \in receipts} :
          SetLoad(t, [l EXCEPT !.phase = "seq", !.seq = q])
    BY <1>3 DEF LoadSeq
  <2>3. q \in Nat
    BY DEF TypeOK, Receipt
  <2> HIDE DEF l
  <2>4. [l EXCEPT !.phase = "seq", !.seq = q] \in Snapshot
    BY <2>1, <2>3 DEF Snapshot
  <2>5. tab' \in [Tabs -> Page]
    BY <2>2, <2>4, SetLoadType
  <2>6. UNCHANGED faults
    BY <1>3 DEF LoadSeq
  <2> QED
    BY <2>2, <2>5, <2>6 DEF SetLoad, TypeOK
<1>4. CASE ApplySnapshot(t)
  <2> DEFINE p == tab[t]
             q == IF p.load.why = "restore" /\ p.load.view = "disrupted"
                    THEN [p EXCEPT !.load = None] ELSE Applied(p)
  <2>1. p \in Page /\ p.load # None
    BY <1>1, <1>4 DEF ApplySnapshot
  <2>2. tab' = [tab EXCEPT ![t] = q]
    BY <1>4 DEF ApplySnapshot
  <2> HIDE DEF p
  <2>3. [p EXCEPT !.load = None] \in Page
    BY <2>1 DEF Page
  <2>4. q \in Page
    BY <2>1, <2>3, AppliedType
  <2> QED
    BY <1>4, <2>2, <2>4 DEF ApplySnapshot, TypeOK
<1>5. CASE LoadFails(t)
  <2> DEFINE l == IF tab[t].view = "loading" THEN Requested("page") ELSE None
  <2>1. l \in Snapshot \cup {None}
    BY <1>r
  <2>2. SetLoad(t, l) /\ faults' = [faults EXCEPT !.errors = @ + 1]
    BY <1>5 DEF LoadFails
  <2> HIDE DEF l
  <2>3. tab' \in [Tabs -> Page]
    BY <2>1, <2>2, SetLoadType
  <2> QED
    BY <1>f, <2>2, <2>3 DEF SetLoad, TypeOK
<1>6. CASE HeartbeatRefused(t)
  <2>1. SetLoad(t, Requested("page")) /\ UNCHANGED faults
    BY <1>6 DEF HeartbeatRefused
  <2>2. tab' \in [Tabs -> Page]
    BY <1>r, <2>1, SetLoadType
  <2> QED
    BY <2>1, <2>2 DEF SetLoad, TypeOK
<1>7. CASE Restore(t)
  <2> DEFINE p == tab[t]
             l == Requested("restore")
  <2>1. p \in Page /\ l \in Snapshot
    BY <1>1, <1>r
  <2>2. tab' = [tab EXCEPT ![t] = [p EXCEPT !.load = l]]
    BY <1>7 DEF Restore
  <2>3. row' = row \/ row' = [row EXCEPT !.status = "in_progress"]
    BY <1>7 DEF Restore
  <2>4. row' \in Row
    BY <1>1, <2>3 DEF Row
  <2>5. faults' \in Faults
    BY <1>1, <1>f, <1>7 DEF Restore
  <2> HIDE DEF p, l
  <2>6. [p EXCEPT !.load = l] \in Page
    BY <2>1 DEF Page
  <2> QED
    BY <1>7, <2>2, <2>4, <2>5, <2>6 DEF Restore, TypeOK
<1>8. CASE Reload(t)
  <2> DEFINE q == FreshPage(tab[t].page + 1, tab[t].edits, tab[t].retries)
  <2>1. tab[t].page + 1 \in Nat /\ tab[t].edits \in Nat /\ tab[t].retries \in Nat
    BY <1>1 DEF Page
  <2>2. q \in Page
    BY <2>1, FreshPageType
  <2>3. tab' = [tab EXCEPT ![t] = q]
    BY <1>8 DEF Reload
  <2>4. replies' \subseteq replies /\ faults' = [faults EXCEPT !.reloads = @ + 1]
        /\ UNCHANGED <<row, receipts, net>>
    BY <1>8 DEF Reload
  <2> HIDE DEF q
  <2> QED
    BY <1>f, <2>2, <2>3, <2>4 DEF TypeOK
<1> QED
  BY <1>2, <1>3, <1>4, <1>5, <1>6, <1>7, <1>8

\* Every step keeps the types.
LEMMA NextType == TypeOK /\ [Next]_vars => TypeOK'
<1> SUFFICES ASSUME TypeOK, [Next]_vars PROVE TypeOK'
  OBVIOUS
<1>1. CASE UNCHANGED vars
  BY <1>1 DEF vars, TypeOK
<1>2. CASE Next
  BY <1>2, ServerType, QueueType, SnapshotType DEF Next
<1> QED
  BY <1>1, <1>2

\* Rows, receipts, pages, requests and replies keep their types under every
\* interleaving of tabs, deliveries and faults.
THEOREM TypeCorrect == Spec => []TypeOK
BY InitType, NextType, PTL DEF Spec

-----------------------------------------------------------------------------
(***************************************************************************)
(* The server's history.                                                   *)
(***************************************************************************)

\* The one kind of step that writes: a new save is accepted.
Writes(r) ==
  /\ row.status # "submitted"
  /\ Known(r) = {}
  /\ row' = [row EXCEPT !.answer = r.answer, !.version = @ + 1]
  /\ receipts' = receipts \cup
       {[seq |-> r.seq, answer |-> r.answer, version |-> row.version + 1]}

\* All other steps leave the answer and its receipts alone, and an attempt
\* that is submitted altogether.
Keeps ==
  /\ receipts' = receipts
  /\ row'.answer = row.answer /\ row'.version = row.version
  /\ row.status = "submitted" => row' = row
  /\ row'.status = "submitted" /\ row.status # "submitted" =>
       row'.frozen = row.answer

\* Every step either writes one new save or keeps the history.
LEMMA WritesOrKeeps ==
  ASSUME TypeOK, [Next]_vars
  PROVE  Keeps \/ \E r \in net : Writes(r)
<1>1. row \in Row
  BY DEF TypeOK
<1>2. CASE UNCHANGED vars
  BY <1>2 DEF vars, Keeps
<1>3. CASE Submit
  BY <1>1, <1>3 DEF Submit, Keeps, Row
<1>4. CASE Disrupt
  BY <1>1, <1>4 DEF Disrupt, Keeps, Row
<1>5. ASSUME NEW r \in net, SaveAnswer(r)
      PROVE  Keeps \/ Writes(r)
  <2>1. CASE Verdict(r) = "new"
    <3>1. row.status # "submitted" /\ Known(r) = {}
      BY <2>1 DEF Verdict
    <3> QED
      BY <1>5, <2>1, <3>1 DEF SaveAnswer, Writes
  <2>2. CASE Verdict(r) # "new"
    BY <1>5, <2>2 DEF SaveAnswer, Keeps
  <2> QED
    BY <2>1, <2>2
<1>6. ASSUME NEW t \in Tabs,
             \/ Edit(t) \/ FireTimer(t) \/ Retry(t) \/ Receive(t)
             \/ NetworkError(t) \/ LoadRow(t) \/ LoadSeq(t)
             \/ ApplySnapshot(t) \/ LoadFails(t) \/ HeartbeatRefused(t)
             \/ Reload(t)
      PROVE  Keeps
  <2>1. row' = row /\ receipts' = receipts
    BY <1>6 DEF Edit, FireTimer, Retry, Receive, NetworkError, PageStep,
                LoadRow, LoadSeq, ApplySnapshot, LoadFails, HeartbeatRefused,
                Reload, SetLoad
  <2> QED
    BY <2>1 DEF Keeps
<1>7. ASSUME NEW t \in Tabs, Restore(t) PROVE Keeps
  BY <1>1, <1>7 DEF Restore, Keeps, Row
<1> QED
  BY <1>2, <1>3, <1>4, <1>5, <1>6, <1>7 DEF Next

\* The receipts stay a complete and exact history of the answer.
LEMMA LedgerStep ==
  ASSUME TypeOK, ReceiptLedger, [Next]_vars
  PROVE  ReceiptLedger'
<1>1. CASE Keeps
  BY <1>1 DEF Keeps, ReceiptLedger
<1>2. ASSUME NEW r \in net, Writes(r) PROVE ReceiptLedger'
  <2> DEFINE new == [seq |-> r.seq, answer |-> r.answer,
                     version |-> row.version + 1]
  <2>1. /\ row.version \in Nat
        /\ row'.version = row.version + 1 /\ row'.answer = r.answer
    BY <1>2 DEF Writes, TypeOK, Row
  <2>2. /\ receipts' = receipts \cup {new}
        /\ \A rc \in receipts : rc.seq # r.seq
    BY <1>2 DEF Writes, Known
  <2>3. \A rc \in receipts : rc.version \in 1 .. row.version
    BY DEF ReceiptLedger
  <2>4. new.seq = r.seq /\ new.answer = r.answer /\ new.version = row.version + 1
    OBVIOUS
  <2> HIDE DEF new
  <2>5. \A rc \in receipts' : rc.version \in 1 .. row'.version
    BY <2>1, <2>2, <2>3, <2>4
  <2>6. \A v \in 1 .. row'.version : \E rc \in receipts' : rc.version = v
    <3>1. SUFFICES ASSUME NEW v \in 1 .. row'.version
                   PROVE  \E rc \in receipts' : rc.version = v
      OBVIOUS
    <3>2. CASE v = row.version + 1
      BY <2>2, <2>4, <3>2
    <3>3. CASE v # row.version + 1
      <4>1. v \in 1 .. row.version
        BY <2>1, <3>3
      <4> QED
        BY <2>2, <4>1 DEF ReceiptLedger
    <3> QED
      BY <3>2, <3>3
  <2>7. \A rc, other \in receipts' :
          rc.seq = other.seq \/ rc.version = other.version => rc = other
    BY <2>1, <2>2, <2>3, <2>4 DEF ReceiptLedger
  <2>8. \A rc \in receipts' : rc.version = row'.version => row'.answer = rc.answer
    BY <2>1, <2>2, <2>3, <2>4
  <2>9. row'.version # 0
    BY <2>1
  <2> QED
    BY <2>5, <2>6, <2>7, <2>8, <2>9 DEF ReceiptLedger
<1> QED
  BY <1>1, <1>2, WritesOrKeeps

\* The frozen answer stays the newest accepted one.
LEMMA FreezeStep ==
  ASSUME TypeOK, FreezeIsNewest, [Next]_vars
  PROVE  FreezeIsNewest'
<1>1. CASE Keeps
  BY <1>1 DEF Keeps, FreezeIsNewest
<1>2. ASSUME NEW r \in net, Writes(r) PROVE FreezeIsNewest'
  <2>1. row'.status # "submitted"
    BY <1>2 DEF Writes, TypeOK, Row
  <2> QED
    BY <2>1 DEF FreezeIsNewest
<1> QED
  BY <1>1, <1>2, WritesOrKeeps

\* History is only added to, and stops at the submission.
LEMMA HistoryStep ==
  ASSUME TypeOK, [Next]_vars
  PROVE  /\ receipts \subseteq receipts'
         /\ row'.version >= row.version
         /\ row.status = "submitted" => row' = row /\ receipts' = receipts
<1>1. row.version \in Nat
  BY DEF TypeOK, Row
<1>2. CASE Keeps
  BY <1>1, <1>2 DEF Keeps
<1>3. ASSUME NEW r \in net, Writes(r)
      PROVE  /\ receipts \subseteq receipts'
             /\ row'.version = row.version + 1
             /\ row.status # "submitted"
  BY <1>3 DEF Writes, TypeOK, Row
<1> QED
  BY <1>1, <1>2, <1>3, WritesOrKeeps

\* Acknowledgements stay true: one that is given now has its receipt, and
\* receipts are never removed.
LEMMA AcksStep ==
  ASSUME TypeOK, ReceiptLedger, AcksAreTrue, [Next]_vars
  PROVE  AcksAreTrue'
<1>1. receipts \subseteq receipts'
  BY HistoryStep
<1>2. CASE replies' \subseteq replies
  BY <1>1, <1>2 DEF AcksAreTrue
<1>3. ASSUME NEW r \in net, SaveAnswer(r) PROVE AcksAreTrue'
  <2> SUFFICES ASSUME NEW reply \in replies', reply.result = "accepted"
               PROVE  \E rc \in receipts' : /\ rc.seq = reply.req.seq
                                            /\ rc.answer = reply.req.answer
                                            /\ rc.version = reply.version
    BY DEF AcksAreTrue
  <2>1. CASE reply \in replies
    BY <1>1, <2>1 DEF AcksAreTrue
  <2>2. CASE reply \notin replies /\ Verdict(r) = "new"
    <3> DEFINE new == [seq |-> r.seq, answer |-> r.answer,
                       version |-> row.version + 1]
    <3>1. new \in receipts'
      BY <1>3, <2>2 DEF SaveAnswer
    <3>2. reply.req = r /\ reply.version = row.version + 1
      BY <1>3, <2>2 DEF SaveAnswer, Answer
    <3> QED
      BY <3>1, <3>2
  <2>3. CASE reply \notin replies /\ Verdict(r) # "new"
    <3>1. /\ reply.req = r /\ reply.version = ServerVersion(r)
          /\ reply.result = Verdict(r)
      BY <1>3, <2>3 DEF SaveAnswer, Answer
    <3>2. row.status # "submitted" /\ Known(r) # {}
      BY <3>1 DEF Verdict
    <3>3. PICK rc \in Known(r) : rc.answer = r.answer
      BY <3>1, <3>2 DEF Verdict
    <3>4. (CHOOSE c \in Known(r) : TRUE) \in Known(r)
      BY <3>2
    <3>5. (CHOOSE c \in Known(r) : TRUE) = rc
      BY <3>3, <3>4 DEF Known, ReceiptLedger
    <3>6. rc \in receipts /\ rc.seq = r.seq
      BY <3>3 DEF Known
    <3>7. ServerVersion(r) = rc.version
      BY <3>2, <3>5 DEF ServerVersion
    <3> QED
      BY <1>1, <3>1, <3>3, <3>6, <3>7
  <2> QED
    BY <2>1, <2>2, <2>3
<1>4. CASE UNCHANGED vars \/ Submit \/ Disrupt
  BY <1>2, <1>4 DEF vars, Submit, Disrupt
<1>5. ASSUME NEW t \in Tabs,
             \/ Edit(t) \/ FireTimer(t) \/ Retry(t) \/ Receive(t)
             \/ NetworkError(t) \/ LoadRow(t) \/ LoadSeq(t)
             \/ ApplySnapshot(t) \/ LoadFails(t) \/ HeartbeatRefused(t)
             \/ Restore(t) \/ Reload(t)
      PROVE  replies' \subseteq replies
  BY <1>5 DEF Edit, FireTimer, Retry, Receive, NetworkError, LoadRow, LoadSeq,
              ApplySnapshot, LoadFails, HeartbeatRefused, Restore, Reload, SetLoad
<1> QED
  BY <1>2, <1>3, <1>4, <1>5 DEF Next

-----------------------------------------------------------------------------
(***************************************************************************)
(* No page is ahead of the server.                                         *)
(***************************************************************************)

\* Nothing a page holds, has sent or is about to apply is ahead of version v.
Behind(p, v) ==
  /\ p.version <= v
  /\ p.sent # None => p.sent.base <= v
  /\ p.load # None => p.load.version <= v

\* The inductive form of ClientNotAhead.
AllBehind ==
  /\ \A t \in Tabs : Behind(tab[t], row.version)
  /\ \A r \in net : r.base <= row.version
  /\ \A reply \in replies : reply.version <= row.version

\* Scheduling a save does not touch what the page knows of the server.
LEMMA ScheduleBehind ==
  ASSUME NEW p \in Page, NEW a \in Answers, NEW v \in Nat, Behind(p, v)
  PROVE  Behind(Schedule(p, a), v)
<1>1. /\ Schedule(p, a).version = p.version
      /\ Schedule(p, a).sent = p.sent /\ Schedule(p, a).load = p.load
  BY DEF Schedule, Page
<1> QED
  BY <1>1 DEF Behind

\* A request is sent with the version the page knows.
LEMMA LaunchBehind ==
  ASSUME NEW p \in Page, NEW t \in Tabs, NEW s \in Save, NEW v \in Nat,
         Behind(p, v)
  PROVE  Behind(Launch(p, t, s), v)
<1> DEFINE q == Launch(p, t, s)
<1>1. q.version = p.version /\ q.load = p.load
  BY DEF Launch, Page
<1>2. CASE p.view = "editable"
  <2>1. q.sent = [tab |-> t, page |-> p.page, gen |-> s.gen, seq |-> p.seq + 1,
                  base |-> p.version, answer |-> s.answer]
    BY <1>2 DEF Launch, Page
  <2>2. q.sent.base = p.version
    BY <2>1
  <2> QED
    BY <1>1, <2>2 DEF Behind
<1>3. CASE p.view # "editable"
  <2>1. q.sent = None
    BY <1>3 DEF Launch, Page
  <2> QED
    BY <1>1, <2>1 DEF Behind
<1> QED
  BY <1>2, <1>3

\* So does firing the timer.
LEMMA FireBehind ==
  ASSUME NEW p \in Page, NEW t \in Tabs, p.pending # None,
         NEW v \in Nat, Behind(p, v)
  PROVE  Behind(Fire(p, t), v)
<1> DEFINE q == [p EXCEPT !.pending = None]
<1>1. p.pending \in Save
  BY DEF Page
<1>2. q \in Page /\ q.version = p.version /\ q.sent = p.sent /\ q.load = p.load
  BY DEF Page
<1>3. Behind(q, v)
  BY <1>2 DEF Behind
<1>4. CASE p.sent = None
  BY <1>1, <1>2, <1>3, <1>4, LaunchBehind DEF Fire
<1>5. CASE p.sent # None
  <2> DEFINE f == Fire(p, t)
  <2>1. f.version = p.version /\ f.sent = p.sent /\ f.load = p.load
    BY <1>5 DEF Fire, Page
  <2> QED
    BY <2>1 DEF Behind
<1> QED
  BY <1>4, <1>5

\* And settling a save.
LEMMA SettleBehind ==
  ASSUME NEW p \in Page, NEW t \in Tabs, NEW v \in Nat, Behind(p, v)
  PROVE  Behind(Settle(p, t), v)
<1>1. CASE p.queue = << >>
  <2>1. /\ Settle(p, t).version = p.version
        /\ Settle(p, t).sent = None /\ Settle(p, t).load = p.load
    BY <1>1 DEF Settle, Page
  <2> QED
    BY <2>1 DEF Behind
<1>2. CASE p.queue # << >>
  <2> DEFINE q == [p EXCEPT !.queue = Tail(@)]
  <2>1. p.queue \in Seq(Save)
    BY DEF Page
  <2>2. Head(p.queue) \in Save /\ Tail(p.queue) \in Seq(Save)
    BY <1>2, <2>1
  <2>3. q \in Page
    BY <2>2 DEF Page
  <2>4. q.version = p.version /\ q.sent = p.sent /\ q.load = p.load
    BY DEF Page
  <2>5. Behind(q, v)
    BY <2>4 DEF Behind
  <2> QED
    BY <1>2, <2>2, <2>3, <2>5, LaunchBehind DEF Settle
<1> QED
  BY <1>1, <1>2

\* A reply that is not ahead leaves the page not ahead.
LEMMA ReceivedBehind ==
  ASSUME NEW p \in Page, NEW reply \in Reply, NEW v \in Nat, Behind(p, v),
         reply.version <= v
  PROVE  Behind(Received(p, reply), v)
<1> DEFINE q == Received(p, reply)
<1>1. q.version \in {p.version, reply.version}
  BY DEF Received, Page
<1>2. q.sent = p.sent
  BY DEF Received, Page
<1>3. q.load = p.load \/ q.load = Reconciling(p)
  BY DEF Received, Page
<1>4. Requested("page").version = 0
  BY DEF Requested
<1>5. q.load # None => q.load.version <= v
  BY <1>3, <1>4 DEF Reconciling, Behind
<1> QED
  BY <1>1, <1>2, <1>5 DEF Behind

\* A page step whose page is not ahead keeps everyone behind.
LEMMA PageStepBehind ==
  ASSUME TypeOK, AllBehind, NEW t \in Tabs, NEW p \in Page, PageStep(t, p),
         Behind(p, row.version), replies' \subseteq replies
  PROVE  AllBehind'
<1>1. tab \in [Tabs -> Page]
  BY DEF TypeOK
<1>2. tab' = [tab EXCEPT ![t] = p] /\ row' = row /\ net' = net \cup Sent(p)
  BY DEF PageStep
<1>3. \A u \in Tabs : Behind(tab'[u], row.version)
  <2>1. SUFFICES ASSUME NEW u \in Tabs PROVE Behind(tab'[u], row.version)
    OBVIOUS
  <2>2. CASE u = t
    BY <1>1, <1>2, <2>2
  <2>3. CASE u # t
    <3>1. tab'[u] = tab[u]
      BY <1>1, <1>2, <2>3
    <3> QED
      BY <3>1 DEF AllBehind
  <2> QED
    BY <2>2, <2>3
<1>4. \A r \in net' : r.base <= row.version
  BY <1>2 DEF Sent, AllBehind, Behind
<1>5. (\A u \in Tabs : Behind(tab[u], row.version))'
  BY <1>2, <1>3 DEF Behind
<1> QED
  BY <1>2, <1>4, <1>5 DEF AllBehind

\* A step that replaces one page, or the snapshot it waits for, and sends
\* nothing.
LEMMA PageBehind ==
  ASSUME TypeOK, AllBehind, NEW t \in Tabs, NEW p,
         tab' = [tab EXCEPT ![t] = p], Behind(p, row.version),
         row'.version = row.version, net' = net, replies' \subseteq replies
  PROVE  AllBehind'
<1>1. tab \in [Tabs -> Page]
  BY DEF TypeOK
<1>2. \A u \in Tabs : Behind(tab'[u], row.version)
  <2>1. SUFFICES ASSUME NEW u \in Tabs PROVE Behind(tab'[u], row.version)
    OBVIOUS
  <2>2. CASE u = t
    BY <1>1, <2>2
  <2>3. CASE u # t
    <3>1. tab'[u] = tab[u]
      BY <1>1, <2>3
    <3> QED
      BY <3>1 DEF AllBehind
  <2> QED
    BY <2>2, <2>3
<1>3. (\A u \in Tabs : Behind(tab[u], row.version))'
  BY <1>2 DEF Behind
<1> QED
  BY <1>3 DEF AllBehind

\* Replacing the snapshot a page waits for by one that is not ahead.
LEMMA LoadBehind ==
  ASSUME TypeOK, NEW t \in Tabs, NEW l, Behind(tab[t], row.version),
         l # None => l.version <= row.version
  PROVE  Behind([tab[t] EXCEPT !.load = l], row.version)
<1> DEFINE p == tab[t]
<1>1. p \in Page
  BY DEF TypeOK
<1> HIDE DEF p
<1>2. /\ [p EXCEPT !.load = l].version = p.version
      /\ [p EXCEPT !.load = l].sent = p.sent
      /\ [p EXCEPT !.load = l].load = l
  BY <1>1 DEF Page
<1> QED
  BY <1>2 DEF Behind, p

\* The server never reports a version it has not reached.
LEMMA ServerVersionBehind ==
  ASSUME TypeOK, ReceiptLedger, NEW r \in Request
  PROVE  ServerVersion(r) <= row.version
<1>1. row.version \in Nat
  BY DEF TypeOK, Row
<1>2. ASSUME Known(r) # {}
      PROVE  (CHOOSE rc \in Known(r) : TRUE).version <= row.version
  <2>1. (CHOOSE rc \in Known(r) : TRUE) \in receipts
    BY <1>2 DEF Known
  <2> QED
    BY <1>1, <2>1 DEF ReceiptLedger
<1> QED
  BY <1>1, <1>2 DEF ServerVersion

\* The steps of the server leave every page behind.
LEMMA ServerBehind ==
  ASSUME TypeOK, ReceiptLedger, AllBehind, NEW r \in net, SaveAnswer(r)
  PROVE  AllBehind'
<1>1. /\ r \in Request /\ row \in Row /\ row.version \in Nat
      /\ tab \in [Tabs -> Page] /\ net \subseteq Request /\ replies \subseteq Reply
  BY DEF TypeOK, Row
<1>2. tab' = tab /\ net' = net
  BY DEF SaveAnswer
<1>3. CASE Verdict(r) = "new"
  <2>1. row'.version = row.version + 1
    BY <1>1, <1>3 DEF SaveAnswer, Row
  <2>2. \A reply \in replies' : reply \in replies \/ reply.version = row.version + 1
    BY <1>3 DEF SaveAnswer, Answer
  <2>3. \A reply \in replies : reply.version \in Nat
    BY <1>1 DEF Reply
  <2>4. \A reply \in replies' : reply.version <= row.version + 1
    BY <1>1, <2>2, <2>3 DEF AllBehind
  <2>5. \A q \in net : q.base <= row.version + 1
    BY <1>1 DEF AllBehind, Request
  <2>6. \A t \in Tabs : Behind(tab[t], row.version + 1)
    <3>1. SUFFICES ASSUME NEW t \in Tabs PROVE Behind(tab[t], row.version + 1)
      OBVIOUS
    <3>2. tab[t] \in Page /\ Behind(tab[t], row.version)
      BY <1>1 DEF AllBehind
    <3>3. /\ tab[t].version \in Nat
          /\ tab[t].sent # None => tab[t].sent.base \in Nat
          /\ tab[t].load # None => tab[t].load.version \in Nat
      BY <3>2 DEF Page, Request, Snapshot
    <3> QED
      BY <1>1, <3>2, <3>3 DEF Behind
  <2> QED
    BY <1>2, <2>1, <2>4, <2>5, <2>6 DEF AllBehind, Behind
<1>4. CASE Verdict(r) # "new"
  <2>1. row' = row
    BY <1>4 DEF SaveAnswer
  <2>2. \A reply \in replies' : reply \in replies \/ reply.version = ServerVersion(r)
    BY <1>4 DEF SaveAnswer, Answer
  <2>3. \A reply \in replies' : reply.version <= row.version
    BY <1>1, <2>2, ServerVersionBehind DEF AllBehind
  <2> QED
    BY <1>2, <2>1, <2>3 DEF AllBehind, Behind
<1> QED
  BY <1>3, <1>4

\* Editing, sending, retrying and receiving leave every page behind.
LEMMA QueueBehind ==
  ASSUME TypeOK, AllBehind, NEW t \in Tabs,
         \/ Edit(t) \/ FireTimer(t) \/ Retry(t) \/ Receive(t) \/ NetworkError(t)
  PROVE  AllBehind'
<1>1. /\ tab[t] \in Page /\ Behind(tab[t], row.version) /\ row.version \in Nat
  BY DEF TypeOK, Row, AllBehind
<1>2. CASE Edit(t)
  <2>1. PICK a \in Answers :
          PageStep(t, [Schedule(tab[t], a) EXCEPT !.edits = @ + 1])
    BY <1>2 DEF Edit
  <2> DEFINE s == Schedule(tab[t], a)
             q == [s EXCEPT !.edits = @ + 1]
  <2>2. s \in Page /\ Behind(s, row.version)
    BY <1>1, ScheduleType, ScheduleBehind
  <2>3. PageStep(t, q)
    BY <2>1
  <2> HIDE DEF s
  <2>4. q \in Page /\ q.version = s.version /\ q.sent = s.sent /\ q.load = s.load
    BY <2>2, SMTT(20) DEF Page
  <2>5. Behind(q, row.version)
    BY <2>2, <2>4 DEF Behind
  <2>6. replies' = replies
    BY <1>2 DEF Edit
  <2> HIDE DEF q
  <2> QED
    BY <2>3, <2>4, <2>5, <2>6, PageStepBehind
<1>3. CASE FireTimer(t)
  <2>1. /\ tab[t].pending # None /\ PageStep(t, Fire(tab[t], t))
        /\ replies' = replies
    BY <1>3 DEF FireTimer
  <2>2. Fire(tab[t], t) \in Page /\ Behind(Fire(tab[t], t), row.version)
    BY <1>1, <2>1, FireType, FireBehind
  <2> QED
    BY <2>1, <2>2, PageStepBehind
<1>4. CASE Retry(t)
  <2> DEFINE s == Schedule(tab[t], tab[t].draft)
             q == [s EXCEPT !.retries = @ + 1]
  <2>1. tab[t].draft \in Answers
    BY <1>1, <1>4 DEF Retry, Page, MaybeAnswer
  <2>2. s \in Page /\ s.pending \in Save /\ Behind(s, row.version)
    BY <1>1, <2>1, ScheduleType, ScheduleBehind
  <2>3. PageStep(t, Fire(q, t)) /\ replies' = replies
    BY <1>4 DEF Retry
  <2> HIDE DEF s
  <2>4. /\ q \in Page /\ q.pending = s.pending
        /\ q.version = s.version /\ q.sent = s.sent /\ q.load = s.load
    BY <2>2 DEF Page
  <2>5. Behind(q, row.version) /\ q.pending # None
    BY <2>2, <2>4, NoneAssumption DEF Behind
  <2> HIDE DEF q
  <2>6. Fire(q, t) \in Page /\ Behind(Fire(q, t), row.version)
    BY <1>1, <2>4, <2>5, FireType, FireBehind
  <2> QED
    BY <2>3, <2>6, PageStepBehind
<1>5. CASE Receive(t)
  <2>1. PICK reply \in replies :
          /\ reply.req = tab[t].sent
          /\ PageStep(t, Settle(Received(tab[t], reply), t))
          /\ replies' = {other \in replies : other.req # reply.req}
    BY <1>5 DEF Receive
  <2>2. /\ reply \in Reply /\ reply.req \in Request
        /\ reply.version <= row.version
    BY <2>1 DEF TypeOK, Reply, AllBehind
  <2> DEFINE q == Received(tab[t], reply)
  <2>3. q \in Page /\ Behind(q, row.version)
    BY <1>1, <2>1, <2>2, NoneAssumption, ReceivedType, ReceivedBehind
  <2> HIDE DEF q
  <2>4. Settle(q, t) \in Page /\ Behind(Settle(q, t), row.version)
    BY <1>1, <2>3, SettleType, SettleBehind
  <2> QED
    BY <2>1, <2>4, PageStepBehind DEF q
<1>6. CASE NetworkError(t)
  <2> DEFINE p == tab[t]
             o == Outcome(p, p.sent.gen, "failed")
             q == [p EXCEPT !.indicator = "error", !.status = o]
  <2>1. /\ PageStep(t, Settle(q, t))
        /\ replies' = {reply \in replies : reply.req # p.sent}
    BY <1>6 DEF NetworkError
  <2>2. p \in Page /\ Behind(p, row.version) /\ p.sent.gen \in Nat
    BY <1>1, <1>6 DEF NetworkError, Page, Request
  <2>3. o \in {"idle", "pending", "inflight", "saved", "failed"}
    BY <2>2, OutcomeType
  <2> HIDE DEF p, o
  <2>4. q \in Page /\ q.version = p.version /\ q.sent = p.sent /\ q.load = p.load
    BY <2>2, <2>3 DEF Page
  <2>5. Behind(q, row.version)
    BY <2>2, <2>4 DEF Behind
  <2> HIDE DEF q
  <2>6. Settle(q, t) \in Page /\ Behind(Settle(q, t), row.version)
    BY <1>1, <2>4, <2>5, SettleType, SettleBehind
  <2> QED
    BY <2>1, <2>6, PageStepBehind
<1> QED
  BY <1>2, <1>3, <1>4, <1>5, <1>6

\* Snapshots, restores and reloads leave every page behind.
LEMMA SnapshotBehind ==
  ASSUME TypeOK, AllBehind, NEW t \in Tabs,
         \/ LoadRow(t) \/ LoadSeq(t) \/ ApplySnapshot(t) \/ LoadFails(t)
         \/ HeartbeatRefused(t) \/ Restore(t) \/ Reload(t)
  PROVE  AllBehind'
<1> DEFINE p == tab[t]
<1>1. /\ p \in Page /\ Behind(p, row.version) /\ row \in Row
      /\ row.version \in Nat
  BY DEF TypeOK, Row, AllBehind
<1>r. \A why \in {"page", "restore"} : Requested(why).version = 0
  BY DEF Requested
<1>2. ASSUME NEW l, SetLoad(t, l), l # None => l.version <= row.version
      PROVE  AllBehind'
  <2>1. tab' = [tab EXCEPT ![t] = [tab[t] EXCEPT !.load = l]]
    BY <1>2 DEF SetLoad
  <2>2. Behind([tab[t] EXCEPT !.load = l], row.version)
    BY <1>1, <1>2, LoadBehind
  <2>3. row' = row /\ net' = net /\ replies' = replies
    BY <1>2 DEF SetLoad
  <2> QED
    BY <2>1, <2>2, <2>3, PageBehind
<1>3. CASE LoadRow(t)
  <2> DEFINE l == p.load
             view == CASE row.status = "in_progress" -> "editable"
                       [] row.status = "disrupted"   -> "disrupted"
                       [] row.status = "submitted"   -> "locked"
             answer == IF row.status = "submitted" THEN row.frozen ELSE row.answer
             version == IF row.status = "submitted" THEN 0 ELSE row.version
             m == [l EXCEPT !.phase = "row", !.view = view, !.answer = answer,
                            !.version = version]
  <2>1. l \in Snapshot
    BY <1>1, <1>3 DEF LoadRow, Page
  <2>2. SetLoad(t, m)
    BY <1>3 DEF LoadRow
  <2>3. version <= row.version
    BY <1>1
  <2> HIDE DEF l, view, answer, version
  <2>4. m.version = version
    BY <2>1 DEF Snapshot
  <2> HIDE DEF m
  <2> QED
    BY <1>2, <2>2, <2>3, <2>4
<1>4. CASE LoadSeq(t)
  <2> DEFINE l == p.load
  <2>1. l \in Snapshot /\ l # None
    BY <1>1, <1>4 DEF LoadSeq, Page
  <2>2. PICK q : SetLoad(t, [l EXCEPT !.phase = "seq", !.seq = q])
    BY <1>4 DEF LoadSeq
  <2>3. l.version <= row.version
    BY <1>1, <2>1 DEF Behind
  <2> HIDE DEF l
  <2>4. [l EXCEPT !.phase = "seq", !.seq = q].version = l.version
    BY <2>1 DEF Snapshot
  <2> QED
    BY <1>2, <2>2, <2>3, <2>4
<1>5. CASE LoadFails(t)
  BY <1>1, <1>2, <1>5, <1>r DEF LoadFails
<1>6. CASE HeartbeatRefused(t)
  BY <1>1, <1>2, <1>6, <1>r DEF HeartbeatRefused
<1>7. CASE ApplySnapshot(t)
  <2> DEFINE q == IF p.load.why = "restore" /\ p.load.view = "disrupted"
                    THEN [p EXCEPT !.load = None] ELSE Applied(p)
  <2>1. p.load # None /\ p.load.version <= row.version
    BY <1>1, <1>7 DEF ApplySnapshot, Behind
  <2>2. /\ tab' = [tab EXCEPT ![t] = q]
        /\ row' = row /\ net' = net /\ replies' = replies
    BY <1>7 DEF ApplySnapshot
  <2>3. Behind([p EXCEPT !.load = None], row.version)
    BY <1>1, LoadBehind
  <2> HIDE DEF p
  <2>4. /\ Applied(p).version = (IF p.load.answer = None THEN 0 ELSE p.load.version)
        /\ Applied(p).sent = p.sent /\ Applied(p).load = None
    BY <1>1 DEF Applied, Page
  <2>5. Behind(Applied(p), row.version)
    BY <1>1, <2>1, <2>4 DEF Behind
  <2>6. Behind(q, row.version)
    BY <2>3, <2>5
  <2> HIDE DEF q
  <2> QED
    BY <2>2, <2>6, PageBehind
<1>8. CASE Restore(t)
  <2> DEFINE l == Requested("restore")
  <2>1. tab' = [tab EXCEPT ![t] = [tab[t] EXCEPT !.load = l]]
    BY <1>8 DEF Restore
  <2>2. Behind([tab[t] EXCEPT !.load = l], row.version)
    BY <1>1, <1>r, LoadBehind
  <2>3. row'.version = row.version /\ net' = net /\ replies' = replies
    BY <1>1, <1>8 DEF Restore, Row
  <2> HIDE DEF l
  <2> QED
    BY <2>1, <2>2, <2>3, PageBehind
<1>9. CASE Reload(t)
  <2> DEFINE q == FreshPage(p.page + 1, p.edits, p.retries)
  <2>1. q.version = 0 /\ q.sent = None /\ q.load = Requested("page")
    BY DEF FreshPage
  <2>2. Behind(q, row.version)
    BY <1>1, <1>r, <2>1 DEF Behind
  <2>3. /\ tab' = [tab EXCEPT ![t] = q]
        /\ row' = row /\ net' = net /\ replies' \subseteq replies
    BY <1>9 DEF Reload
  <2> HIDE DEF q
  <2> QED
    BY <2>2, <2>3, PageBehind
<1> QED
  BY <1>3, <1>4, <1>5, <1>6, <1>7, <1>8, <1>9

\* Every step leaves every page behind.
LEMMA BehindStep ==
  ASSUME TypeOK, ReceiptLedger, AllBehind, [Next]_vars
  PROVE  AllBehind'
<1>1. CASE UNCHANGED vars
  BY <1>1 DEF vars, AllBehind, Behind
<1>2. CASE Submit \/ Disrupt
  <2>1. /\ row'.version = row.version
        /\ tab' = tab /\ net' = net /\ replies' = replies
    BY <1>2 DEF Submit, Disrupt, TypeOK, Row
  <2> QED
    BY <2>1 DEF AllBehind, Behind
<1>3. CASE Next /\ ~ Submit /\ ~ Disrupt
  BY <1>3, ServerBehind, QueueBehind, SnapshotBehind DEF Next
<1> QED
  BY <1>1, <1>2, <1>3

-----------------------------------------------------------------------------
(***************************************************************************)
(* The key in a snapshot covers the answer in it.                          *)
(***************************************************************************)

\* A complete snapshot in q was already there in p.
NoNewSnapshot(p, q) ==
  q.load = p.load \/ q.load = None \/ q.load.phase # "seq"

\* The queue of saves does not touch the snapshot a page is waiting for.
LEMMA QueueKeepsLoad ==
  ASSUME NEW p \in Page, NEW t \in Tabs
  PROVE  /\ \A a \in Answers : Schedule(p, a).load = p.load
         /\ \A s \in Save : Launch(p, t, s).load = p.load
         /\ p.pending # None => Fire(p, t).load = p.load
         /\ Settle(p, t).load = p.load
<1>1. ASSUME NEW a \in Answers PROVE Schedule(p, a).load = p.load
  BY DEF Schedule, Page
<1>2. ASSUME NEW q \in Page, NEW s \in Save PROVE Launch(q, t, s).load = q.load
  BY DEF Launch, Page
<1>3. ASSUME p.pending # None PROVE Fire(p, t).load = p.load
  <2> DEFINE q == [p EXCEPT !.pending = None]
  <2>1. q \in Page /\ q.load = p.load /\ p.pending \in Save
    BY <1>3 DEF Page
  <2>2. CASE p.sent = None
    BY <1>2, <2>1, <2>2 DEF Fire
  <2>3. CASE p.sent # None
    BY <2>3 DEF Fire, Page
  <2> QED
    BY <2>2, <2>3
<1>4. Settle(p, t).load = p.load
  <2>1. CASE p.queue = << >>
    BY <2>1 DEF Settle, Page
  <2>2. CASE p.queue # << >>
    <3> DEFINE q == [p EXCEPT !.queue = Tail(@)]
    <3>1. p.queue \in Seq(Save)
      BY DEF Page
    <3>2. Head(p.queue) \in Save /\ Tail(p.queue) \in Seq(Save)
      BY <2>2, <3>1
    <3>3. q \in Page /\ q.load = p.load
      BY <3>2 DEF Page
    <3> QED
      BY <1>2, <2>2, <3>2, <3>3 DEF Settle
  <2> QED
    BY <2>1, <2>2
<1> QED
  BY <1>1, <1>2, <1>3, <1>4

\* Only LoadSeq completes a snapshot.
LEMMA OnlyLoadSeqCompletes ==
  ASSUME TypeOK, NEW t \in Tabs,
         \/ Edit(t) \/ FireTimer(t) \/ Retry(t) \/ Receive(t) \/ NetworkError(t)
         \/ LoadRow(t) \/ ApplySnapshot(t) \/ LoadFails(t)
         \/ HeartbeatRefused(t) \/ Restore(t) \/ Reload(t)
  PROVE  \A u \in Tabs : NoNewSnapshot(tab[u], tab'[u])
<1> DEFINE p == tab[t]
<1>1. p \in Page /\ tab \in [Tabs -> Page]
  BY DEF TypeOK
<1>r. \A why \in {"page", "restore"} : Requested(why).phase = "requested"
  BY DEF Requested
<1>2. ASSUME NEW q, tab' = [tab EXCEPT ![t] = q], NoNewSnapshot(p, q)
      PROVE  \A u \in Tabs : NoNewSnapshot(tab[u], tab'[u])
  BY <1>1, <1>2 DEF NoNewSnapshot
<1>3. CASE Edit(t)
  <2>1. PICK a \in Answers : tab' = [tab EXCEPT ![t] =
                               [Schedule(p, a) EXCEPT !.edits = @ + 1]]
    BY <1>3 DEF Edit, PageStep
  <2> DEFINE s == Schedule(p, a)
  <2>2. s \in Page /\ s.load = p.load
    BY <1>1, ScheduleType, QueueKeepsLoad
  <2> HIDE DEF s
  <2>3. [s EXCEPT !.edits = @ + 1].load = s.load
    BY <2>2 DEF Page
  <2> QED
    BY <1>2, <2>1, <2>2, <2>3 DEF NoNewSnapshot, s
<1>4. CASE FireTimer(t)
  BY <1>1, <1>2, <1>4, QueueKeepsLoad DEF FireTimer, PageStep, NoNewSnapshot
<1>5. CASE Retry(t)
  <2> DEFINE s == Schedule(p, p.draft)
             q == [s EXCEPT !.retries = @ + 1]
  <2>1. p.draft \in Answers
    BY <1>1, <1>5 DEF Retry, Page, MaybeAnswer
  <2>2. s \in Page /\ s.pending \in Save /\ s.load = p.load
    BY <1>1, <2>1, ScheduleType, QueueKeepsLoad
  <2>3. tab' = [tab EXCEPT ![t] = Fire(q, t)]
    BY <1>5 DEF Retry, PageStep
  <2> HIDE DEF s
  <2>4. q \in Page /\ q.load = s.load /\ q.pending = s.pending
    BY <2>2 DEF Page
  <2> HIDE DEF q
  <2>5. Fire(q, t).load = p.load
    BY <2>2, <2>4, NoneAssumption, QueueKeepsLoad
  <2> QED
    BY <1>2, <2>3, <2>5 DEF NoNewSnapshot
<1>6. CASE Receive(t)
  <2>1. PICK reply \in replies :
          /\ reply.req = p.sent
          /\ tab' = [tab EXCEPT ![t] = Settle(Received(p, reply), t)]
    BY <1>6 DEF Receive, PageStep
  <2> DEFINE q == Received(p, reply)
  <2>2. q \in Page
    BY <1>1, <2>1, NoneAssumption, ReceivedType DEF TypeOK, Reply
  <2>3. q.load = p.load \/ q.load = Reconciling(p)
    BY <1>1 DEF Received, Page
  <2> HIDE DEF q
  <2>4. Settle(q, t).load = q.load
    BY <2>2, QueueKeepsLoad
  <2> QED
    BY <1>2, <1>r, <2>1, <2>3, <2>4 DEF NoNewSnapshot, Reconciling, q
<1>7. CASE NetworkError(t)
  <2> DEFINE o == Outcome(p, p.sent.gen, "failed")
             q == [p EXCEPT !.indicator = "error", !.status = o]
  <2>1. tab' = [tab EXCEPT ![t] = Settle(q, t)]
    BY <1>7 DEF NetworkError, PageStep
  <2>2. o \in {"idle", "pending", "inflight", "saved", "failed"}
    <3>1. p.sent.gen \in Nat
      BY <1>1, <1>7 DEF NetworkError, Page, Request
    <3> QED
      BY <1>1, <3>1, OutcomeType
  <2> HIDE DEF o, p
  <2>3. q \in Page /\ q.load = p.load
    BY <1>1, <2>2 DEF Page
  <2> HIDE DEF q
  <2>4. Settle(q, t).load = p.load
    BY <2>3, QueueKeepsLoad
  <2> QED
    BY <1>2, <2>1, <2>4 DEF NoNewSnapshot, p
<1>8. CASE LoadRow(t)
  <2>1. PICK l : tab' = [tab EXCEPT ![t] = [p EXCEPT !.load = l]] /\ l.phase = "row"
    <3> DEFINE l == p.load
               view == CASE row.status = "in_progress" -> "editable"
                         [] row.status = "disrupted"   -> "disrupted"
                         [] row.status = "submitted"   -> "locked"
               answer == IF row.status = "submitted" THEN row.frozen ELSE row.answer
               version == IF row.status = "submitted" THEN 0 ELSE row.version
               m == [l EXCEPT !.phase = "row", !.view = view, !.answer = answer,
                              !.version = version]
    <3>1. l \in Snapshot
      BY <1>1, <1>8 DEF LoadRow, Page
    <3>2. tab' = [tab EXCEPT ![t] = [p EXCEPT !.load = m]]
      BY <1>8 DEF LoadRow, SetLoad
    <3> HIDE DEF l, view, answer, version
    <3>3. m.phase = "row"
      BY <3>1 DEF Snapshot
    <3> QED
      BY <3>2, <3>3
  <2>2. [p EXCEPT !.load = l].load = l
    BY <1>1 DEF Page
  <2> QED
    BY <1>2, <2>1, <2>2 DEF NoNewSnapshot
<1>9. CASE ApplySnapshot(t)
  <2> DEFINE q == IF p.load.why = "restore" /\ p.load.view = "disrupted"
                    THEN [p EXCEPT !.load = None] ELSE Applied(p)
  <2>1. tab' = [tab EXCEPT ![t] = q]
    BY <1>9 DEF ApplySnapshot
  <2>2. q.load = None
    BY <1>1 DEF Applied, Page
  <2> QED
    BY <1>2, <2>1, <2>2 DEF NoNewSnapshot
<1>10. ASSUME NEW l, tab' = [tab EXCEPT ![t] = [p EXCEPT !.load = l]],
             l = None \/ l = Requested("page") \/ l = Requested("restore")
      PROVE  \A u \in Tabs : NoNewSnapshot(tab[u], tab'[u])
  <2>1. [p EXCEPT !.load = l].load = l
    BY <1>1 DEF Page
  <2> QED
    BY <1>2, <1>10, <1>r, <2>1 DEF NoNewSnapshot
<1>11. CASE LoadFails(t)
  BY <1>10, <1>11 DEF LoadFails, SetLoad
<1>12. CASE HeartbeatRefused(t)
  BY <1>10, <1>12 DEF HeartbeatRefused, SetLoad
<1>13. CASE Restore(t)
  BY <1>10, <1>13 DEF Restore
<1>14. CASE Reload(t)
  <2> DEFINE q == FreshPage(p.page + 1, p.edits, p.retries)
  <2>1. q.load = Requested("page") /\ tab' = [tab EXCEPT ![t] = q]
    BY <1>14 DEF FreshPage, Reload
  <2> HIDE DEF q
  <2> QED
    BY <1>2, <1>r, <2>1 DEF NoNewSnapshot
<1> QED
  BY <1>3, <1>4, <1>5, <1>6, <1>7, <1>8, <1>9, <1>11, <1>12, <1>13, <1>14

\* A snapshot keeps covering the answers it shows: a save accepted after its
\* first read has a higher version than the one it shows.
LEMMA CoverStep ==
  ASSUME TypeOK, AllBehind, SnapshotSeqCoversAnswers, [Next]_vars
  PROVE  SnapshotSeqCoversAnswers'
<1>1. /\ tab \in [Tabs -> Page] /\ row.version \in Nat
      /\ \A rc \in receipts : rc.seq \in Nat /\ rc.version \in Nat
  BY DEF TypeOK, Row, Receipt
<1>2. ASSUME \A u \in Tabs : NoNewSnapshot(tab[u], tab'[u])
      PROVE  SnapshotSeqCoversAnswers'
  <2> SUFFICES ASSUME NEW u \in Tabs, tab'[u].load # None,
                      tab'[u].load.phase = "seq", NEW rc \in receipts',
                      rc.version <= tab'[u].load.version
               PROVE  rc.seq <= tab'[u].load.seq
    BY DEF SnapshotSeqCoversAnswers
  <2>1. tab'[u].load = tab[u].load
    BY <1>2 DEF NoNewSnapshot
  <2>2. tab[u].load.version \in Nat /\ tab[u].load.version <= row.version
    <3>1. tab[u] \in Page /\ Behind(tab[u], row.version)
      BY <1>1 DEF AllBehind
    <3>2. tab[u].load \in Snapshot
      BY <2>1, <3>1 DEF Page
    <3> QED
      BY <2>1, <3>1, <3>2 DEF Snapshot, Behind
  <2>3. rc \in receipts
    <3>1. CASE Keeps
      BY <3>1 DEF Keeps
    <3>2. ASSUME NEW r \in net, Writes(r) PROVE rc \in receipts
      <4>1. rc \in receipts \/ rc.version = row.version + 1
        BY <3>2 DEF Writes
      <4> QED
        BY <1>1, <2>1, <2>2, <4>1
    <3> QED
      BY <3>1, <3>2, WritesOrKeeps
  <2> QED
    BY <2>1, <2>3 DEF SnapshotSeqCoversAnswers
<1>3. CASE UNCHANGED vars \/ Submit \/ Disrupt \/ \E r \in net : SaveAnswer(r)
  <2>1. tab' = tab
    BY <1>3 DEF vars, Submit, Disrupt, SaveAnswer
  <2> QED
    BY <1>2, <2>1 DEF NoNewSnapshot
<1>4. ASSUME NEW t \in Tabs, LoadSeq(t) PROVE SnapshotSeqCoversAnswers'
  <2> DEFINE l == tab[t].load
  <2>1. l \in Snapshot
    BY <1>1, <1>4 DEF LoadSeq, Page
  <2>2. PICK q : /\ \A rc \in receipts : rc.seq <= q
                 /\ SetLoad(t, [l EXCEPT !.phase = "seq", !.seq = q])
    BY <1>4 DEF LoadSeq
  <2> DEFINE m == [l EXCEPT !.phase = "seq", !.seq = q]
  <2>3. m.seq = q
    BY <2>1 DEF Snapshot
  <2>4. receipts' = receipts /\ tab' = [tab EXCEPT ![t] = [tab[t] EXCEPT !.load = m]]
    BY <2>2 DEF SetLoad
  <2> HIDE DEF m
  <2>5. [tab[t] EXCEPT !.load = m].load = m
    BY <1>1 DEF Page
  <2>6. tab'[t].load = m /\ \A u \in Tabs \ {t} : tab'[u] = tab[u]
    BY <1>1, <2>4, <2>5
  <2> QED
    BY <2>2, <2>3, <2>4, <2>6 DEF SnapshotSeqCoversAnswers
<1>5. ASSUME NEW t \in Tabs,
             \/ Edit(t) \/ FireTimer(t) \/ Retry(t) \/ Receive(t)
             \/ NetworkError(t) \/ LoadRow(t) \/ ApplySnapshot(t)
             \/ LoadFails(t) \/ HeartbeatRefused(t) \/ Restore(t) \/ Reload(t)
      PROVE  SnapshotSeqCoversAnswers'
  BY <1>2, <1>5, OnlyLoadSeqCompletes
<1> QED
  BY <1>3, <1>4, <1>5 DEF Next

-----------------------------------------------------------------------------
(***************************************************************************)
(* The save queue of a single tab keeps up with the server.  What follows  *)
(* holds as long as no request is lost, no page reloaded and the attempt   *)
(* not disrupted.  The predicates are about a page p and the server's row  *)
(* w, its receipts R, the requests N on the wire and the replies A.        *)
(***************************************************************************)

OneTab == \A t, u \in Tabs : t = u

Undisturbed == faults = [errors |-> 0, reloads |-> 0, disruptions |-> 0]

\* Only the last save of the chain can be the newest edit, and then it holds
\* what the editor shows.
Waiting(p) ==
  /\ p.pending # None => p.pending.gen = p.gen /\ p.pending.answer = p.draft
  /\ \A i \in 1 .. Len(p.queue) :
       /\ p.queue[i].gen <= p.gen
       /\ p.queue[i].gen = p.gen =>
            i = Len(p.queue) /\ p.pending = None /\ p.queue[i].answer = p.draft

\* Save s may be sent before what is waiting behind it.
GoesFirst(p, s) ==
  /\ s.gen <= p.gen
  /\ s.gen = p.gen => p.queue = << >> /\ p.pending = None /\ s.answer = p.draft

Chain(p) ==
  /\ Waiting(p)
  /\ p.sent = None => p.queue = << >>
  /\ p.sent # None => GoesFirst(p, p.sent)
  /\ p.status = "saved" => p.sent = None /\ p.pending = None

KnownIn(r, R) == {rc \in R : rc.seq = r.seq}

\* No request on the wire can be accepted as new any more.
Spent(r, w, R) == w.status = "submitted" \/ KnownIn(r, R) # {}

\* The page knows the newest version and all the keys: it may send.
Ready(p, w, R, N) ==
  /\ \A rc \in R : rc.seq <= p.seq
  /\ \A r \in N : Spent(r, w, R)
  /\ w.status # "submitted" => p.version = w.version

\* The save under way is based on the newest version until it is accepted, and
\* is the newest version from then on.
UnderWay(r, w, R) ==
  /\ \A rc \in KnownIn(r, R) : rc.answer = r.answer /\ rc.version = w.version
  /\ w.status # "submitted" /\ KnownIn(r, R) = {} => r.base = w.version

TrueReply(reply, r, w, R) ==
  /\ reply.req = r
  /\ \/ /\ reply.result = "accepted"
        /\ KnownIn(r, R) # {} /\ reply.version = w.version
     \/ reply.result = "ATTEMPT_ALREADY_SUBMITTED" /\ w.status = "submitted"

Sync(p, w, R, N, A) ==
  /\ \A rc \in R : rc.seq <= p.seq
  /\ \A r \in N \ {p.sent} : Spent(r, w, R)
  /\ p.sent = None /\ w.status # "submitted" => p.version = w.version
  /\ p.sent # None => p.sent.seq = p.seq /\ UnderWay(p.sent, w, R)
  /\ \A reply \in A : TrueReply(reply, p.sent, w, R)
  /\ p.status = "saved" => p.draft = w.answer

\* Before its first snapshot the page has done nothing, and nobody else has.
Blank(p, w, R, N, A) ==
  /\ p.sent = None /\ p.pending = None /\ p.queue = << >> /\ p.status = "idle"
  /\ R = {} /\ N = {} /\ A = {}
  /\ w.version = 0 /\ w.answer = None

\* Any snapshot after the first one is of a submitted attempt.
Loads(p, w) ==
  /\ p.view = "editable" /\ p.load # None => w.status = "submitted"
  /\ p.load # None /\ p.load.phase # "requested" =>
       \/ p.load.view = "locked" /\ w.status = "submitted"
       \/ p.load.view = "editable" /\ p.view = "loading" /\ p.load.answer = None

Tidy(p, w, R, N, A) ==
  /\ w.status # "disrupted" /\ p.view # "disrupted"
  /\ p.view = "locked" => w.status = "submitted"
  /\ p.view = "loading" => Blank(p, w, R, N, A)
  /\ p.view = "editable" => Chain(p) /\ Sync(p, w, R, N, A)
  /\ Loads(p, w)

QuietInv ==
  OneTab /\ Undisturbed =>
    \A t \in Tabs : Tidy(tab[t], row, receipts, net, replies)

\* The parts of a page that the queue does not look at.
LEMMA TidyFields ==
  ASSUME NEW p, NEW q, NEW w, NEW R, NEW N, NEW A,
         q.view = p.view, q.load = p.load, q.draft = p.draft, q.gen = p.gen,
         q.version = p.version, q.seq = p.seq, q.pending = p.pending,
         q.queue = p.queue, q.sent = p.sent, q.status = p.status
  PROVE  /\ Chain(p) => Chain(q)
         /\ Sync(p, w, R, N, A) => Sync(q, w, R, N, A)
         /\ Loads(p, w) => Loads(q, w)
<1>1. Chain(p) => Chain(q)
  BY DEF Chain, Waiting, GoesFirst
<1>2. Sync(p, w, R, N, A) => Sync(q, w, R, N, A)
  BY DEF Sync
<1>3. Loads(p, w) => Loads(q, w)
  BY DEF Loads
<1> QED
  BY <1>1, <1>2, <1>3

\* A new edit is the newest, and waits (saveAnswer of the page).
LEMMA ScheduleTidy ==
  ASSUME NEW p \in Page, NEW a \in Answers, NEW w, NEW R, NEW N, NEW A,
         Chain(p), Sync(p, w, R, N, A)
  PROVE  LET q == Schedule(p, a) IN
         /\ Chain(q) /\ Sync(q, w, R, N, A)
         /\ q.view = p.view /\ q.load = p.load
<1> DEFINE q == Schedule(p, a)
           new == [answer |-> a, gen |-> p.gen + 1]
<1>1. /\ q.view = p.view /\ q.load = p.load /\ q.version = p.version
      /\ q.seq = p.seq /\ q.queue = p.queue /\ q.sent = p.sent
      /\ q.draft = a /\ q.gen = p.gen + 1 /\ q.status = "pending"
      /\ q.pending = new
  BY DEF Schedule, Page
<1>2. new.gen = p.gen + 1 /\ new.answer = a
  OBVIOUS
<1>3. /\ p.gen \in Nat /\ p.queue \in Seq(Save)
      /\ p.sent # None => p.sent.gen \in Nat
  BY DEF Page, Request
<1>4. \A i \in 1 .. Len(p.queue) : p.queue[i].gen \in Nat
  <2>1. \A i \in 1 .. Len(p.queue) : p.queue[i] \in Save
    BY <1>3
  <2> QED
    BY <2>1 DEF Save
<1> HIDE DEF q, new
<1>5. Waiting(q)
  BY <1>1, <1>2, <1>3, <1>4 DEF Waiting, Chain
<1>6. q.sent # None => GoesFirst(q, q.sent)
  BY <1>1, <1>3 DEF GoesFirst, Chain
<1>7. Chain(q)
  BY <1>1, <1>5, <1>6 DEF Chain
<1>8. Sync(q, w, R, N, A)
  BY <1>1 DEF Sync
<1> QED
  BY <1>1, <1>7, <1>8 DEF q

\* Sending a save from a page that is ready (the callback of runSave).
LEMMA LaunchTidy ==
  ASSUME NEW p \in Page, NEW t \in Tabs, NEW s \in Save, NEW w,
         NEW R \in SUBSET Receipt, NEW N,
         p.view = "editable", Waiting(p), GoesFirst(p, s), p.status # "saved",
         Ready(p, w, R, N)
  PROVE  LET q == Launch(p, t, s) IN
         /\ Chain(q) /\ Sync(q, w, R, N \cup Sent(q), {})
         /\ q.view = p.view /\ q.load = p.load
<1> DEFINE q == Launch(p, t, s)
           r == [tab |-> t, page |-> p.page, gen |-> s.gen, seq |-> p.seq + 1,
                 base |-> p.version, answer |-> s.answer]
<1>1. r \in Request /\ r # None
  BY NoneAssumption DEF Request, Page, Save
<1>2. /\ r.gen = s.gen /\ r.seq = p.seq + 1 /\ r.base = p.version
      /\ r.answer = s.answer
  OBVIOUS
<1>3. /\ q.sent = r /\ q.seq = p.seq + 1 /\ q.status = Outcome(p, s.gen, "inflight")
      /\ q.view = p.view /\ q.load = p.load /\ q.version = p.version
      /\ q.queue = p.queue /\ q.pending = p.pending /\ q.draft = p.draft
      /\ q.gen = p.gen
  BY DEF Launch, Page
<1> HIDE DEF q, r
<1>4. q.status # "saved"
  BY <1>3 DEF Outcome
<1>5. Waiting(q) /\ GoesFirst(q, q.sent)
  BY <1>2, <1>3 DEF Waiting, GoesFirst
<1>6. Chain(q)
  BY <1>1, <1>3, <1>4, <1>5 DEF Chain
<1>7. p.seq \in Nat /\ \A rc \in R : rc.seq \in Nat
  BY DEF Page, Receipt
<1>8. \A rc \in R : rc.seq <= q.seq /\ rc.seq # r.seq
  BY <1>2, <1>3, <1>7 DEF Ready
<1>9. KnownIn(r, R) = {}
  BY <1>8 DEF KnownIn
<1>10. UnderWay(r, w, R)
  BY <1>2, <1>9 DEF UnderWay, Ready
<1>11. \A x \in (N \cup Sent(q)) \ {q.sent} : Spent(x, w, R)
  BY DEF Sent, Ready
<1>12. Sync(q, w, R, N \cup Sent(q), {})
  BY <1>1, <1>2, <1>3, <1>4, <1>8, <1>10, <1>11 DEF Sync
<1> QED
  BY <1>3, <1>6, <1>12 DEF q

\* The debounce timer of an editable page.
LEMMA FireTidy ==
  ASSUME NEW p \in Page, NEW t \in Tabs, NEW w, NEW R \in SUBSET Receipt,
         NEW N \in SUBSET Request, NEW A \in SUBSET Reply,
         p.view = "editable", p.pending # None, Chain(p), Sync(p, w, R, N, A)
  PROVE  LET q == Fire(p, t) IN
         /\ Chain(q) /\ Sync(q, w, R, N \cup Sent(q), A)
         /\ q.view = p.view /\ q.load = p.load
<1> DEFINE q == Fire(p, t)
<1>1. p.pending \in Save /\ p.pending.gen = p.gen /\ p.pending.answer = p.draft
      /\ p.gen \in Nat /\ p.status # "saved"
  BY DEF Page, Chain, Waiting
<1>2. CASE p.sent = None
  <2> DEFINE x == [p EXCEPT !.pending = None]
  <2>1. /\ x \in Page /\ x.view = p.view /\ x.load = p.load /\ x.queue = p.queue
        /\ x.pending = None /\ x.draft = p.draft /\ x.gen = p.gen
        /\ x.status = p.status /\ x.seq = p.seq /\ x.version = p.version
    BY DEF Page
  <2>2. q = Launch(x, t, p.pending)
    BY <1>2 DEF Fire
  <2> HIDE DEF x, q
  <2>3. p.queue = << >> /\ Len(p.queue) = 0
    BY <1>2 DEF Chain
  <2>4. Waiting(x) /\ GoesFirst(x, p.pending)
    BY <1>1, <2>1, <2>3 DEF Waiting, GoesFirst
  <2>5. A = {}
    BY <1>2, NoneAssumption DEF Sync, TrueReply, Reply
  <2>6. None \notin N
    BY NoneAssumption
  <2>7. Ready(x, w, R, N)
    BY <1>2, <2>1, <2>6 DEF Ready, Sync
  <2>8. /\ Chain(q) /\ Sync(q, w, R, N \cup Sent(q), {})
        /\ q.view = x.view /\ q.load = x.load
    BY <1>1, <2>1, <2>2, <2>4, <2>7, LaunchTidy
  <2> QED
    BY <2>1, <2>5, <2>8 DEF q
<1>3. CASE p.sent # None
  <2>1. p.queue \in Seq(Save)
    BY DEF Page
  <2> DEFINE k == Len(p.queue) + 1
  <2>2. /\ q.view = p.view /\ q.load = p.load /\ q.draft = p.draft /\ q.gen = p.gen
        /\ q.version = p.version /\ q.seq = p.seq /\ q.pending = None
        /\ q.queue = Append(p.queue, p.pending) /\ q.sent = p.sent
        /\ q.status = p.status
    BY <1>3 DEF Fire, Page
  <2>3. /\ Len(q.queue) = k /\ q.queue[k] = p.pending /\ k \in Nat
        /\ \A i \in 1 .. Len(q.queue) : i = k \/ (i \in 1 .. Len(p.queue)
                                                 /\ q.queue[i] = p.queue[i])
    BY <1>1, <2>1, <2>2
  <2> HIDE DEF q, k
  <2>4. Waiting(q)
    BY <1>1, <2>2, <2>3 DEF Waiting, Chain
  <2>5. GoesFirst(q, q.sent)
    BY <1>3, <2>2 DEF GoesFirst, Chain
  <2>6. Chain(q)
    BY <1>1, <1>3, <2>2, <2>4, <2>5 DEF Chain
  <2>7. Sync(q, w, R, N \cup Sent(q), A)
    BY <1>1, <1>3, <2>2 DEF Sync, Sent
  <2> QED
    BY <2>2, <2>6, <2>7 DEF q
<1> QED
  BY <1>2, <1>3

\* The save under way is settled and the page is ready for the next one.
LEMMA SettleTidy ==
  ASSUME NEW p \in Page, NEW t \in Tabs, NEW w, NEW R \in SUBSET Receipt,
         NEW N \in SUBSET Request,
         p.view = "editable", p.sent # None, Waiting(p), Ready(p, w, R, N),
         p.status = "saved" => p.queue = << >> /\ p.pending = None /\ p.draft = w.answer
  PROVE  LET q == Settle(p, t) IN
         /\ Chain(q) /\ Sync(q, w, R, N \cup Sent(q), {})
         /\ q.view = p.view /\ q.load = p.load
<1> DEFINE q == Settle(p, t)
<1>1. CASE p.queue = << >>
  <2>1. /\ q.view = p.view /\ q.load = p.load /\ q.draft = p.draft /\ q.gen = p.gen
        /\ q.version = p.version /\ q.seq = p.seq /\ q.pending = p.pending
        /\ q.queue = p.queue /\ q.sent = None /\ q.status = p.status
    BY <1>1 DEF Settle, Page
  <2> HIDE DEF q
  <2>2. Waiting(q)
    BY <2>1 DEF Waiting
  <2>3. Chain(q)
    BY <1>1, <2>1, <2>2 DEF Chain
  <2>4. Sync(q, w, R, N \cup Sent(q), {})
    BY <2>1 DEF Sync, Ready, Sent
  <2> QED
    BY <2>1, <2>3, <2>4 DEF q
<1>2. CASE p.queue # << >>
  <2> DEFINE x == [p EXCEPT !.queue = Tail(@)]
             s == Head(p.queue)
  <2>1. p.queue \in Seq(Save) /\ Len(p.queue) \in Nat /\ Len(p.queue) > 0
    BY <1>2 DEF Page
  <2>2. /\ s \in Save /\ s = p.queue[1] /\ Tail(p.queue) \in Seq(Save)
        /\ Len(Tail(p.queue)) = Len(p.queue) - 1
        /\ \A i \in 1 .. Len(Tail(p.queue)) : Tail(p.queue)[i] = p.queue[i + 1]
    BY <1>2, <2>1
  <2>3. /\ x \in Page /\ x.view = p.view /\ x.load = p.load
        /\ x.queue = Tail(p.queue) /\ x.pending = p.pending /\ x.draft = p.draft
        /\ x.gen = p.gen /\ x.status = p.status /\ x.seq = p.seq
        /\ x.version = p.version
    BY <2>2 DEF Page
  <2>4. q = Launch(x, t, s)
    BY <1>2 DEF Settle
  <2> HIDE DEF x, s, q
  <2>5. Waiting(x)
    BY <2>1, <2>2, <2>3 DEF Waiting
  <2>6. GoesFirst(x, s)
    <3>1. s.gen <= p.gen /\ (s.gen = p.gen =>
             1 = Len(p.queue) /\ p.pending = None /\ s.answer = p.draft)
      <4>1. 1 \in 1 .. Len(p.queue)
        BY <2>1
      <4> QED
        BY <2>2, <4>1 DEF Waiting
    <3>2. 1 = Len(p.queue) => Tail(p.queue) = << >>
      <4> DEFINE z == Tail(p.queue)
      <4>1. z \in Seq(Save) /\ Len(z) = Len(p.queue) - 1
        BY <2>2
      <4> HIDE DEF z
      <4>2. Len(p.queue) = 1 => Len(z) = 0
        BY <4>1
      <4>3. Len(z) = 0 => z = << >>
        BY <4>1
      <4> QED
        BY <4>2, <4>3 DEF z
    <3> QED
      BY <2>3, <3>1, <3>2 DEF GoesFirst
  <2>7. Ready(x, w, R, N) /\ x.status # "saved"
    BY <1>2, <2>3 DEF Ready
  <2>8. /\ Chain(q) /\ Sync(q, w, R, N \cup Sent(q), {})
        /\ q.view = x.view /\ q.load = x.load
    BY <2>2, <2>3, <2>4, <2>5, <2>6, <2>7, LaunchTidy, ZenonT(30)
  <2> QED
    BY <2>3, <2>8 DEF q
<1> QED
  BY <1>1, <1>2

\* What the page makes of the reply to the save under way.
LEMMA ReceivedTidy ==
  ASSUME NEW p \in Page, NEW reply \in Reply, NEW w, NEW R \in SUBSET Receipt,
         NEW N \in SUBSET Request, NEW A,
         p.sent # None, Chain(p), Sync(p, w, R, N, A), reply \in A,
         \A rc \in R : rc.version = w.version => w.answer = rc.answer
  PROVE  LET q == Received(p, reply) IN
         /\ q.sent = p.sent /\ q.view = p.view /\ Waiting(q) /\ Ready(q, w, R, N)
         /\ q.status = "saved" =>
              q.queue = << >> /\ q.pending = None /\ q.draft = w.answer
         /\ \/ q.load = p.load
            \/ q.load = Requested("page") /\ w.status = "submitted"
<1> DEFINE q == Received(p, reply)
<1>1. TrueReply(reply, p.sent, w, R) /\ p.status # "saved"
  BY DEF Sync, Chain
<1>2. Spent(p.sent, w, R)
  BY <1>1 DEF TrueReply, Spent
<1>3. \A r \in N : Spent(r, w, R)
  BY <1>2 DEF Sync
<1>4. CASE reply.result = "accepted"
  <2>1. /\ q.sent = p.sent /\ q.view = p.view /\ q.load = p.load
        /\ q.draft = p.draft /\ q.gen = p.gen /\ q.queue = p.queue
        /\ q.pending = p.pending /\ q.seq = p.seq /\ q.version = reply.version
        /\ q.status = Outcome(p, p.sent.gen, "saved")
    BY <1>4 DEF Received, Page
  <2>2. reply.version = w.version /\ KnownIn(p.sent, R) # {}
    BY <1>1, <1>4 DEF TrueReply
  <2> HIDE DEF q
  <2>3. Waiting(q)
    BY <2>1 DEF Waiting, Chain
  <2>4. Ready(q, w, R, N)
    BY <1>3, <2>1, <2>2 DEF Ready, Sync
  <2>5. w.answer = p.sent.answer
    <3>1. PICK rc \in KnownIn(p.sent, R) : TRUE
      BY <2>2
    <3>2. rc \in R /\ rc.version = w.version /\ rc.answer = p.sent.answer
      BY <3>1 DEF Sync, UnderWay, KnownIn
    <3> QED
      BY <3>2
  <2>6. q.status = "saved" => p.sent.gen = p.gen
    BY <1>1, <2>1 DEF Outcome
  <2>7. q.status = "saved" =>
          q.queue = << >> /\ q.pending = None /\ q.draft = w.answer
    BY <2>1, <2>5, <2>6 DEF Chain, GoesFirst
  <2>8. q.sent = p.sent /\ q.view = p.view /\ q.load = p.load
    BY <2>1
  <2> QED
    BY <2>3, <2>4, <2>7, <2>8 DEF q
<1>5. CASE reply.result = "ATTEMPT_ALREADY_SUBMITTED"
  <2>1. /\ q.sent = p.sent /\ q.view = p.view
        /\ q.draft = p.draft /\ q.gen = p.gen /\ q.queue = p.queue
        /\ q.pending = p.pending /\ q.seq = p.seq
        /\ q.load = Reconciling(p)
        /\ q.status = Outcome(p, p.sent.gen, "failed")
    BY <1>5 DEF Received, Page
  <2>2. w.status = "submitted"
    BY <1>1, <1>5 DEF TrueReply
  <2> HIDE DEF q
  <2>3. Waiting(q) /\ q.status # "saved"
    BY <1>1, <2>1 DEF Waiting, Chain, Outcome
  <2>4. Ready(q, w, R, N)
    BY <1>3, <2>1, <2>2 DEF Ready, Sync
  <2>5. q.load = p.load \/ q.load = Requested("page")
    BY <2>1 DEF Reconciling
  <2> QED
    BY <2>1, <2>2, <2>3, <2>4, <2>5 DEF q
<1> QED
  BY <1>1, <1>4, <1>5 DEF TrueReply

\* The view of a page is no concern of the queue.
LEMMA QueueKeepsView ==
  ASSUME NEW p \in Page, NEW t \in Tabs
  PROVE  /\ p.pending # None => Fire(p, t).view = p.view
         /\ Settle(p, t).view = p.view
<1>1. ASSUME NEW q \in Page, NEW s \in Save PROVE Launch(q, t, s).view = q.view
  BY DEF Launch, Page
<1>2. ASSUME p.pending # None PROVE Fire(p, t).view = p.view
  <2> DEFINE q == [p EXCEPT !.pending = None]
  <2>1. q \in Page /\ q.view = p.view /\ p.pending \in Save
    BY <1>2 DEF Page
  <2>2. CASE p.sent = None
    BY <1>1, <2>1, <2>2 DEF Fire
  <2>3. CASE p.sent # None
    BY <2>3 DEF Fire, Page
  <2> QED
    BY <2>2, <2>3
<1>3. Settle(p, t).view = p.view
  <2>1. CASE p.queue = << >>
    BY <2>1 DEF Settle, Page
  <2>2. CASE p.queue # << >>
    <3> DEFINE q == [p EXCEPT !.queue = Tail(@)]
    <3>1. p.queue \in Seq(Save)
      BY DEF Page
    <3>2. Head(p.queue) \in Save /\ Tail(p.queue) \in Seq(Save)
      BY <2>2, <3>1
    <3>3. q \in Page /\ q.view = p.view
      BY <3>2 DEF Page
    <3> QED
      BY <1>1, <2>2, <3>2, <3>3 DEF Settle
  <2> QED
    BY <2>1, <2>2
<1> QED
  BY <1>2, <1>3

\* A page whose chain and server are in step is tidy; so is a locked one.
LEMMA TidyEditable ==
  ASSUME NEW p, NEW w, NEW R, NEW N, NEW A, p.view = "editable",
         w.status # "disrupted", Chain(p), Sync(p, w, R, N, A), Loads(p, w)
  PROVE  Tidy(p, w, R, N, A)
BY DEF Tidy

LEMMA TidyLocked ==
  ASSUME NEW p, NEW w, NEW R, NEW N, NEW A, p.view = "locked",
         w.status = "submitted", Loads(p, w)
  PROVE  Tidy(p, w, R, N, A)
BY DEF Tidy

\* The loads of a page that asks for a snapshot of a submitted attempt.
LEMMA RequestedLoads ==
  ASSUME NEW p, NEW w, NEW why, p.load = Requested(why), w.status = "submitted"
  PROVE  Loads(p, w)
BY DEF Loads, Requested

\* Submitting the attempt spends every request.
LEMMA SubmitTidy ==
  ASSUME TypeOK, NEW p \in Page, Tidy(p, row, receipts, net, replies), Submit
  PROVE  Tidy(p, row', receipts', net', replies')
<1>1. /\ row'.status = "submitted" /\ row'.version = row.version
      /\ row'.answer = row.answer
      /\ receipts' = receipts /\ net' = net /\ replies' = replies
  BY DEF Submit, TypeOK, Row
<1> DEFINE w == row'
<1> HIDE DEF w
<1>2. w.status = "submitted" /\ w.version = row.version /\ w.answer = row.answer
  BY <1>1 DEF w
<1>3. Loads(p, w)
  BY <1>2 DEF Tidy, Loads
<1>4. Blank(p, row, receipts, net, replies) => Blank(p, w, receipts, net, replies)
  BY <1>2 DEF Blank
<1>5. ASSUME Sync(p, row, receipts, net, replies)
      PROVE  Sync(p, w, receipts, net, replies)
  <2>1. \A r \in net : Spent(r, w, receipts)
    BY <1>2 DEF Spent
  <2>2. p.sent # None => UnderWay(p.sent, w, receipts)
    BY <1>2, <1>5 DEF Sync, UnderWay
  <2>3. \A reply \in replies : TrueReply(reply, p.sent, w, receipts)
    BY <1>2, <1>5 DEF Sync, TrueReply
  <2> QED
    BY <1>2, <1>5, <2>1, <2>2, <2>3 DEF Sync
<1>6. Tidy(p, w, receipts, net, replies)
  BY <1>2, <1>3, <1>4, <1>5 DEF Tidy
<1> QED
  BY <1>1, <1>6 DEF w

\* The server gets a save: a new one is the one under way, any other leaves
\* the server as it is and is answered truly.
LEMMA SaveTidy ==
  ASSUME TypeOK, OneTab, NEW t \in Tabs, NEW r \in net, SaveAnswer(r),
         Tidy(tab[t], row, receipts, net, replies)
  PROVE  Tidy(tab'[t], row', receipts', net', replies')
<1> DEFINE p == tab[t]
<1>1. /\ p \in Page /\ r \in Request /\ r # None /\ r.tab = t /\ r.seq \in Nat
      /\ r.base \in Nat /\ row.version \in Nat /\ row \in Row
  BY NoneAssumption DEF TypeOK, Request, OneTab, Row
<1>2. tab'[t] = p /\ net' = net
  BY DEF SaveAnswer
<1>3. Known(r) = KnownIn(r, receipts)
  BY DEF Known, KnownIn
<1>4. tab[r.tab] = p
  BY <1>1
<1> HIDE DEF p
<1>5. Tidy(p, row, receipts, net, replies)
  BY DEF p
<1>6. p.view \in {"editable", "locked"}
  BY <1>1, <1>5 DEF Tidy, Blank, Page
<1>7. CASE Verdict(r) = "new"
  <2>1. row.status # "submitted" /\ KnownIn(r, receipts) = {} /\ r.base = row.version
    BY <1>1, <1>3, <1>7 DEF Verdict
  <2>2. p.view = "editable"
    BY <1>5, <1>6, <2>1 DEF Tidy
  <2>3. Chain(p) /\ Sync(p, row, receipts, net, replies) /\ Loads(p, row)
    BY <1>5, <2>2 DEF Tidy
  <2>4. p.sent = r
    BY <2>1, <2>3 DEF Sync, Spent
  <2> DEFINE rc == [seq |-> r.seq, answer |-> r.answer, version |-> row.version + 1]
             w == row'
             R == receipts \cup {rc}
             reply == [req |-> r, result |-> "accepted",
                       version |-> row.version + 1, answer |-> row.answer]
  <2>5. w.status = row.status /\ w.answer = r.answer /\ w.version = row.version + 1
    BY <1>1, <1>7 DEF SaveAnswer, Row
  <2>6. rc.seq = r.seq /\ rc.answer = r.answer /\ rc.version = row.version + 1
    OBVIOUS
  <2>7. /\ reply.req = r /\ reply.result = "accepted"
        /\ reply.version = row.version + 1
    OBVIOUS
  <2>8. receipts' = R /\ replies' = replies \cup {reply}
    BY <1>4, <1>7, <2>4 DEF SaveAnswer, Answer
  <2> HIDE DEF rc, w, reply
  <2>9. replies = {}
    BY <2>1, <2>3, <2>4 DEF Sync, TrueReply
  <2>10. KnownIn(r, R) = {rc}
    BY <2>1, <2>6 DEF KnownIn
  <2>11. UnderWay(r, w, R)
    BY <2>5, <2>6, <2>10 DEF UnderWay
  <2>12. TrueReply(reply, r, w, R)
    BY <2>5, <2>7, <2>10 DEF TrueReply
  <2>13. r.seq = p.seq /\ \A x \in receipts : x.seq <= p.seq
    BY <1>1, <2>3, <2>4 DEF Sync
  <2>14. \A x \in R : x.seq <= p.seq
    BY <1>1, <2>6, <2>13
  <2>15. \A x \in net \ {r} : Spent(x, w, R)
    <3>1. ASSUME NEW x \in net \ {r} PROVE Spent(x, w, R)
      <4>1. Spent(x, row, receipts)
        BY <2>3, <2>4 DEF Sync
      <4> QED
        BY <2>5, <4>1 DEF Spent, KnownIn
    <3> QED
      BY <3>1
  <2>16. p.status # "saved"
    BY <1>1, <2>3, <2>4 DEF Chain
  <2>17. Sync(p, w, R, net, {reply})
    BY <1>1, <2>4, <2>11, <2>12, <2>13, <2>14, <2>15, <2>16 DEF Sync
  <2>18. Loads(p, w)
    BY <2>3, <2>5 DEF Loads
  <2>19. w.status # "disrupted"
    BY <1>5, <2>5 DEF Tidy
  <2>20. Tidy(p, w, R, net, {reply})
    BY <2>2, <2>3, <2>17, <2>18, <2>19, TidyEditable
  <2>21. replies' = {reply}
    BY <2>8, <2>9
  <2> HIDE DEF R
  <2> QED
    BY <1>2, <2>8, <2>20, <2>21 DEF w
<1>8. CASE Verdict(r) # "new"
  <2>1. /\ row' = row /\ receipts' = receipts
        /\ Answer(r, Verdict(r), ServerVersion(r))
    BY <1>8 DEF SaveAnswer
  <2>2. CASE p.view = "locked"
    <3>1. row.status = "submitted" /\ Loads(p, row)
      BY <1>5, <2>2 DEF Tidy
    <3>2. Tidy(p, row, receipts, net, replies')
      BY <2>2, <3>1, TidyLocked
    <3> QED
      BY <1>2, <2>1, <3>2
  <2>3. CASE p.view = "editable" /\ p.sent # r
    <3>1. replies' = replies
      BY <1>4, <2>1, <2>3 DEF Answer
    <3> QED
      BY <1>2, <1>5, <2>1, <3>1
  <2>4. CASE p.view = "editable" /\ p.sent = r
    <3> DEFINE reply == [req |-> r, result |-> Verdict(r),
                         version |-> ServerVersion(r), answer |-> row.answer]
    <3>1. /\ reply.req = r /\ reply.result = Verdict(r)
          /\ reply.version = ServerVersion(r)
      OBVIOUS
    <3>2. replies' = replies \cup {reply}
      BY <1>4, <2>1, <2>4 DEF Answer
    <3> HIDE DEF reply
    <3>3. Chain(p) /\ Sync(p, row, receipts, net, replies) /\ Loads(p, row)
      BY <1>5, <2>4 DEF Tidy
    <3>4. UnderWay(r, row, receipts)
      BY <1>1, <2>4, <3>3 DEF Sync
    <3>5. TrueReply(reply, r, row, receipts)
      <4>1. CASE row.status = "submitted"
        BY <3>1, <4>1 DEF TrueReply, Verdict
      <4>2. CASE row.status # "submitted" /\ Known(r) # {}
        <5>1. PICK rc \in Known(r) : rc = CHOOSE x \in Known(r) : TRUE
          BY <4>2
        <5>2. rc.answer = r.answer /\ rc.version = row.version
          BY <1>3, <3>4 DEF UnderWay
        <5>3. Verdict(r) = "accepted"
          BY <4>2, <5>2 DEF Verdict
        <5>4. ServerVersion(r) = row.version
          BY <4>2, <5>1, <5>2 DEF ServerVersion
        <5> QED
          BY <1>3, <3>1, <4>2, <5>3, <5>4 DEF TrueReply
      <4>3. CASE row.status # "submitted" /\ Known(r) = {}
        <5>1. r.base = row.version
          BY <1>3, <3>4, <4>3 DEF UnderWay
        <5> QED
          BY <1>1, <1>8, <4>3, <5>1 DEF Verdict
      <4> QED
        BY <4>1, <4>2, <4>3
    <3>6. Sync(p, row, receipts, net, replies \cup {reply})
      BY <2>4, <3>3, <3>5 DEF Sync
    <3>7. row.status # "disrupted"
      BY <1>5 DEF Tidy
    <3>8. Tidy(p, row, receipts, net, replies \cup {reply})
      BY <2>4, <3>3, <3>6, <3>7, TidyEditable
    <3> QED
      BY <1>2, <2>1, <3>2, <3>8
  <2> QED
    BY <1>6, <2>2, <2>3, <2>4
<1> QED
  BY <1>7, <1>8

\* A step of the page's queue from an editable page.
LEMMA PageStepTidy ==
  ASSUME TypeOK, NEW t \in Tabs, NEW q, PageStep(t, q),
         row.status # "disrupted", q.view = "editable", Chain(q),
         Sync(q, row, receipts, net \cup Sent(q), replies'), Loads(q, row)
  PROVE  Tidy(tab'[t], row', receipts', net', replies')
<1>1. /\ tab'[t] = q /\ row' = row /\ receipts' = receipts
      /\ net' = net \cup Sent(q)
  BY DEF PageStep, TypeOK
<1>2. Tidy(q, row, receipts, net \cup Sent(q), replies')
  BY TidyEditable
<1> QED
  BY <1>1, <1>2

\* Edits, the timer and retries.
LEMMA EditTidy ==
  ASSUME TypeOK, NEW t \in Tabs, Tidy(tab[t], row, receipts, net, replies),
         Edit(t) \/ FireTimer(t) \/ Retry(t)
  PROVE  Tidy(tab'[t], row', receipts', net', replies')
<1> DEFINE p == tab[t]
<1>1. p \in Page /\ receipts \in SUBSET Receipt /\ net \in SUBSET Request
      /\ replies \in SUBSET Reply
  BY DEF TypeOK
<1>2. replies' = replies
  BY DEF Edit, FireTimer, Retry
<1>3. Tidy(p, row, receipts, net, replies) /\ row.status # "disrupted"
  BY DEF Tidy
<1>4. p.view = "editable" => Chain(p) /\ Sync(p, row, receipts, net, replies)
                             /\ Loads(p, row)
  BY <1>3 DEF Tidy
<1>5. CASE Edit(t)
  <2>1. PICK a \in Answers :
          PageStep(t, [Schedule(p, a) EXCEPT !.edits = @ + 1])
    BY <1>5 DEF Edit
  <2>2. p.view = "editable"
    BY <1>5 DEF Edit
  <2> DEFINE s == Schedule(p, a)
             q == [s EXCEPT !.edits = @ + 1]
  <2> HIDE DEF p
  <2>3. s \in Page
    BY <1>1, ScheduleType
  <2>4. /\ Chain(s) /\ Sync(s, row, receipts, net, replies)
        /\ s.view = p.view /\ s.load = p.load
    BY <1>1, <1>4, <2>2, ScheduleTidy
  <2> HIDE DEF s
  <2>5. /\ q.view = s.view /\ q.load = s.load /\ q.draft = s.draft /\ q.gen = s.gen
        /\ q.version = s.version /\ q.seq = s.seq /\ q.pending = s.pending
        /\ q.queue = s.queue /\ q.sent = s.sent /\ q.status = s.status
    BY <2>3 DEF Page
  <2>6. PageStep(t, q)
    BY <2>1 DEF s
  <2> HIDE DEF q
  <2>7. Chain(q) /\ Sync(q, row, receipts, net, replies)
    BY <2>4, <2>5, TidyFields
  <2>8. Sync(q, row, receipts, net \cup Sent(q), replies)
    BY <2>7 DEF Sync, Sent
  <2>9. Loads(q, row)
    BY <1>4, <2>2, <2>4, <2>5 DEF Loads
  <2> QED
    BY <1>2, <1>3, <2>2, <2>4, <2>5, <2>6, <2>7, <2>8, <2>9, PageStepTidy DEF p
<1>6. CASE FireTimer(t)
  <2> DEFINE q == Fire(p, t)
  <2>1. PageStep(t, q) /\ p.pending # None
    BY <1>6 DEF FireTimer
  <2> HIDE DEF p
  <2>2. q.view = p.view /\ q.load = p.load
    BY <1>1, <2>1, QueueKeepsView, QueueKeepsLoad
  <2>3. CASE p.view = "editable"
    <3>1. Chain(q) /\ Sync(q, row, receipts, net \cup Sent(q), replies)
      BY <1>1, <1>4, <2>1, <2>3, FireTidy
    <3> HIDE DEF q
    <3>2. Loads(q, row)
      BY <1>4, <2>2, <2>3 DEF Loads
    <3> QED
      BY <1>2, <1>3, <2>1, <2>2, <2>3, <3>1, <3>2, PageStepTidy DEF p
  <2>4. CASE p.view = "locked"
    <3> HIDE DEF q
    <3>1. row.status = "submitted" /\ Loads(q, row)
      BY <1>3, <2>2, <2>4 DEF Tidy, Loads
    <3>2. tab'[t] = q /\ row' = row
      BY <2>1 DEF PageStep, TypeOK
    <3>3. Tidy(q, row, receipts', net', replies')
      BY <2>2, <2>4, <3>1, TidyLocked
    <3> QED
      BY <3>2, <3>3
  <2> QED
    BY <1>1, <1>3, <2>1, <2>3, <2>4 DEF Tidy, Blank, Page
<1>7. CASE Retry(t)
  <2> DEFINE s == Schedule(p, p.draft)
             x == [s EXCEPT !.retries = @ + 1]
             q == Fire(x, t)
  <2>1. p.view = "editable" /\ p.draft \in Answers
    BY <1>1, <1>7 DEF Retry, Page, MaybeAnswer
  <2>2. PageStep(t, q)
    BY <1>7 DEF Retry
  <2> HIDE DEF p
  <2>3. s \in Page /\ s.pending \in Save
    BY <1>1, <2>1, ScheduleType
  <2>4. /\ Chain(s) /\ Sync(s, row, receipts, net, replies)
        /\ s.view = p.view /\ s.load = p.load
    BY <1>1, <1>4, <2>1, ScheduleTidy
  <2> HIDE DEF s
  <2>5. /\ x.view = s.view /\ x.load = s.load /\ x.draft = s.draft /\ x.gen = s.gen
        /\ x.version = s.version /\ x.seq = s.seq /\ x.pending = s.pending
        /\ x.queue = s.queue /\ x.sent = s.sent /\ x.status = s.status
        /\ x \in Page
    BY <2>3 DEF Page
  <2> HIDE DEF x
  <2>6. Chain(x) /\ Sync(x, row, receipts, net, replies)
    BY <2>4, <2>5, TidyFields
  <2>7. x.pending # None /\ x.view = "editable"
    BY <2>1, <2>3, <2>4, <2>5, NoneAssumption
  <2>8. /\ Chain(q) /\ Sync(q, row, receipts, net \cup Sent(q), replies)
        /\ q.view = x.view /\ q.load = x.load
    BY <1>1, <2>5, <2>6, <2>7, FireTidy
  <2> HIDE DEF q
  <2>9. Loads(q, row)
    BY <1>4, <2>1, <2>4, <2>5, <2>8 DEF Loads
  <2> QED
    BY <1>2, <1>3, <2>1, <2>2, <2>4, <2>5, <2>8, <2>9, PageStepTidy DEF p
<1> QED
  BY <1>5, <1>6, <1>7

\* The reply to the save under way.
LEMMA ReceiveTidy ==
  ASSUME TypeOK, ReceiptLedger, NEW t \in Tabs,
         Tidy(tab[t], row, receipts, net, replies), Receive(t)
  PROVE  Tidy(tab'[t], row', receipts', net', replies')
<1> DEFINE p == tab[t]
<1>1. PICK reply \in replies :
        /\ reply.req = p.sent
        /\ PageStep(t, Settle(Received(p, reply), t))
        /\ replies' = {other \in replies : other.req # reply.req}
  BY DEF Receive
<1>2. /\ p \in Page /\ receipts \in SUBSET Receipt /\ net \in SUBSET Request
      /\ reply \in Reply /\ reply.req \in Request
  BY <1>1 DEF TypeOK, Reply
<1>3. p.sent # None
  BY <1>1, <1>2, NoneAssumption
<1>4. Tidy(p, row, receipts, net, replies) /\ row.status # "disrupted"
  BY DEF Tidy
<1> DEFINE s == Received(p, reply)
           q == Settle(s, t)
<1>5. PageStep(t, q)
  BY <1>1
<1> HIDE DEF p
<1>6. s \in Page
  BY <1>2, <1>3, ReceivedType
<1>7. q.view = s.view /\ q.load = s.load
  BY <1>6, QueueKeepsView, QueueKeepsLoad
<1>8. CASE p.view = "editable"
  <2>1. Chain(p) /\ Sync(p, row, receipts, net, replies) /\ Loads(p, row)
    BY <1>4, <1>8 DEF Tidy
  <2>2. \A rc \in receipts : rc.version = row.version => row.answer = rc.answer
    BY DEF ReceiptLedger
  <2>3. /\ s.sent = p.sent /\ s.view = p.view /\ Waiting(s)
        /\ Ready(s, row, receipts, net)
        /\ s.status = "saved" =>
             s.queue = << >> /\ s.pending = None /\ s.draft = row.answer
        /\ \/ s.load = p.load
           \/ s.load = Requested("page") /\ row.status = "submitted"
    BY <1>2, <1>3, <2>1, <2>2, ReceivedTidy
  <2> HIDE DEF s
  <2>4. Chain(q) /\ Sync(q, row, receipts, net \cup Sent(q), {})
    BY <1>2, <1>3, <1>6, <1>8, <2>3, SettleTidy
  <2>5. replies' = {}
    BY <1>1, <2>1 DEF Sync, TrueReply
  <2> HIDE DEF q
  <2>6. Loads(q, row)
    <3>1. CASE s.load = p.load
      BY <1>7, <1>8, <2>1, <2>3, <3>1 DEF Loads
    <3>2. CASE s.load = Requested("page") /\ row.status = "submitted"
      BY <1>7, <3>2, RequestedLoads
    <3> QED
      BY <2>3, <3>1, <3>2
  <2> QED
    BY <1>4, <1>5, <1>7, <1>8, <2>3, <2>4, <2>5, <2>6, PageStepTidy
<1>9. CASE p.view = "locked"
  <2>1. row.status = "submitted" /\ Loads(p, row)
    BY <1>4, <1>9 DEF Tidy
  <2>2. s.view = p.view /\ (s.load = p.load \/ s.load = Requested("page"))
    BY <1>2 DEF Received, Reconciling, Page
  <2> HIDE DEF s, q
  <2>3. Loads(q, row)
    <3>1. CASE s.load = p.load
      BY <1>7, <1>9, <2>1, <2>2, <3>1 DEF Loads
    <3>2. CASE s.load = Requested("page")
      BY <1>7, <2>1, <3>2, RequestedLoads
    <3> QED
      BY <2>2, <3>1, <3>2
  <2>4. tab'[t] = q /\ row' = row
    BY <1>5 DEF PageStep, TypeOK
  <2>5. Tidy(q, row, receipts', net', replies')
    BY <1>7, <1>9, <2>1, <2>2, <2>3, TidyLocked
  <2> QED
    BY <2>4, <2>5
<1> QED
  BY <1>2, <1>3, <1>4, <1>8, <1>9 DEF Tidy, Blank, Page

\* A step that only replaces the snapshot the page waits for.
LEMMA SetLoadTidy ==
  ASSUME TypeOK, NEW t \in Tabs, NEW load, SetLoad(t, load),
         Tidy(tab[t], row, receipts, net, replies),
         Loads([tab[t] EXCEPT !.load = load], row)
  PROVE  Tidy(tab'[t], row', receipts', net', replies')
<1> DEFINE p == tab[t]
           q == [p EXCEPT !.load = load]
<1>1. p \in Page
  BY DEF TypeOK
<1>2. /\ tab'[t] = q /\ row' = row /\ receipts' = receipts
      /\ net' = net /\ replies' = replies
  BY DEF SetLoad, TypeOK
<1> HIDE DEF p
<1>3. /\ q.view = p.view /\ q.draft = p.draft /\ q.gen = p.gen
      /\ q.version = p.version /\ q.seq = p.seq /\ q.pending = p.pending
      /\ q.queue = p.queue /\ q.sent = p.sent /\ q.status = p.status
  BY <1>1 DEF Page
<1>4. Tidy(p, row, receipts, net, replies) /\ Loads(q, row)
  BY DEF p
<1> HIDE DEF q
<1>5. Chain(p) => Chain(q)
  BY <1>3 DEF Chain, Waiting, GoesFirst
<1>6. Sync(p, row, receipts, net, replies) => Sync(q, row, receipts, net, replies)
  BY <1>3 DEF Sync
<1>7. Blank(p, row, receipts, net, replies) => Blank(q, row, receipts, net, replies)
  BY <1>3 DEF Blank
<1>8. Tidy(q, row, receipts, net, replies)
  BY <1>3, <1>4, <1>5, <1>6, <1>7 DEF Tidy
<1> QED
  BY <1>2, <1>8

\* Snapshots: the first one is empty, the later ones lock the page.
LEMMA LoadTidy ==
  ASSUME TypeOK, NEW t \in Tabs, Tidy(tab[t], row, receipts, net, replies),
         LoadRow(t) \/ LoadSeq(t) \/ HeartbeatRefused(t)
  PROVE  Tidy(tab'[t], row', receipts', net', replies')
<1> DEFINE p == tab[t]
<1>1. p \in Page /\ row.status \in {"in_progress", "submitted"}
  BY DEF TypeOK, Row, Tidy
<1>2. Tidy(p, row, receipts, net, replies) /\ Loads(p, row)
  BY DEF Tidy
<1>3. ASSUME NEW m PROVE /\ [p EXCEPT !.load = m].load = m
                         /\ [p EXCEPT !.load = m].view = p.view
  BY <1>1 DEF Page
<1>4. CASE LoadRow(t)
  <2> DEFINE v == CASE row.status = "in_progress" -> "editable"
                    [] row.status = "disrupted"   -> "disrupted"
                    [] row.status = "submitted"   -> "locked"
             a == IF row.status = "submitted" THEN row.frozen ELSE row.answer
             m == [p.load EXCEPT !.phase = "row", !.view = v, !.answer = a,
                    !.version = IF row.status = "submitted" THEN 0 ELSE row.version]
  <2>1. p.load \in Snapshot /\ p.load # None
    BY <1>1, <1>4 DEF LoadRow, Page
  <2>2. SetLoad(t, m)
    BY <1>4 DEF LoadRow
  <2>3. m.view = v /\ m.answer = a
    BY <2>1 DEF Snapshot
  <2>4. \/ v = "locked" /\ row.status = "submitted"
        \/ v = "editable" /\ row.status # "submitted" /\ a = row.answer
    BY <1>1
  <2> HIDE DEF v, a, m
  <2>5. row.status # "submitted" => p.view = "loading" /\ row.answer = None
    BY <1>1, <1>2, <2>1 DEF Tidy, Loads, Blank, Page
  <2> DEFINE q == [p EXCEPT !.load = m]
  <2>6. q.load = m /\ q.view = p.view
    BY <1>3
  <2> HIDE DEF q
  <2>7. Loads(q, row)
    BY <1>2, <2>3, <2>4, <2>5, <2>6 DEF Loads
  <2> QED
    BY <2>2, <2>7, SetLoadTidy DEF q
<1>5. CASE LoadSeq(t)
  <2>1. PICK k : SetLoad(t, [p.load EXCEPT !.phase = "seq", !.seq = k])
    BY <1>5 DEF LoadSeq
  <2> DEFINE m == [p.load EXCEPT !.phase = "seq", !.seq = k]
             q == [p EXCEPT !.load = m]
  <2>2. p.load \in Snapshot /\ p.load # None /\ p.load.phase = "row"
    BY <1>1, <1>5 DEF LoadSeq, Page
  <2>3. m.view = p.load.view /\ m.answer = p.load.answer
    BY <2>2 DEF Snapshot
  <2>4. SetLoad(t, m)
    BY <2>1
  <2> HIDE DEF m
  <2>5. q.load = m /\ q.view = p.view
    BY <1>3
  <2> HIDE DEF q
  <2>6. Loads(q, row)
    BY <1>2, <2>2, <2>3, <2>5 DEF Loads
  <2> QED
    BY <2>4, <2>6, SetLoadTidy DEF q
<1>6. CASE HeartbeatRefused(t)
  <2> DEFINE q == [p EXCEPT !.load = Requested("page")]
  <2>1. row.status = "submitted" /\ SetLoad(t, Requested("page"))
    BY <1>1, <1>6 DEF HeartbeatRefused
  <2>2. q.load = Requested("page")
    BY <1>3
  <2> HIDE DEF q
  <2>3. Loads(q, row)
    BY <2>1, <2>2, RequestedLoads
  <2> QED
    BY <2>1, <2>3, SetLoadTidy DEF q
<1> QED
  BY <1>4, <1>5, <1>6

\* Applying the first snapshot makes an untouched page editable.
LEMMA ApplyTidy ==
  ASSUME TypeOK, NEW t \in Tabs, Tidy(tab[t], row, receipts, net, replies),
         ApplySnapshot(t)
  PROVE  Tidy(tab'[t], row', receipts', net', replies')
<1> DEFINE p == tab[t]
           q == Applied(p)
<1>1. p \in Page /\ p.load \in Snapshot /\ p.load # None /\ p.load.phase = "seq"
  BY DEF ApplySnapshot, TypeOK, Page
<1>2. Tidy(p, row, receipts, net, replies) /\ Loads(p, row)
  BY DEF Tidy
<1>3. \/ p.load.view = "locked" /\ row.status = "submitted"
      \/ p.load.view = "editable" /\ p.view = "loading" /\ p.load.answer = None
  BY <1>1, <1>2 DEF Loads
<1>4. /\ tab'[t] = q /\ row' = row /\ receipts' = receipts
      /\ net' = net /\ replies' = replies
  BY <1>3 DEF ApplySnapshot, TypeOK
<1>5. /\ q.view = p.load.view /\ q.draft = p.load.answer /\ q.load = None
      /\ p.load.answer = None => q.version = 0 /\ q.seq = 0
      /\ q.pending = p.pending /\ q.queue = p.queue /\ q.sent = p.sent
      /\ q.status = p.status /\ q.gen = p.gen
  BY <1>1 DEF Applied, Page
<1> HIDE DEF p, q
<1>6. Loads(q, row)
  BY <1>5 DEF Loads
<1>7. CASE p.load.view = "locked" /\ row.status = "submitted"
  BY <1>4, <1>5, <1>6, <1>7, TidyLocked
<1>8. CASE p.load.view = "editable" /\ p.view = "loading" /\ p.load.answer = None
  <2>1. Blank(p, row, receipts, net, replies) /\ row.status # "disrupted"
    BY <1>2, <1>8 DEF Tidy
  <2>2. Len(q.queue) = 0
    BY <1>5, <2>1 DEF Blank
  <2>3. Chain(q)
    BY <1>5, <2>1, <2>2 DEF Chain, Waiting, Blank
  <2>4. Sync(q, row, receipts, net, replies)
    BY <1>5, <1>8, <2>1 DEF Sync, Blank
  <2>5. Tidy(q, row, receipts, net, replies)
    BY <1>5, <1>6, <1>8, <2>1, <2>3, <2>4, TidyEditable
  <2> QED
    BY <1>4, <2>5
<1> QED
  BY <1>3, <1>7, <1>8

\* Faults are never undone: a state without any was reached without any.
LEMMA FaultsStay ==
  ASSUME TypeOK, [Next]_vars, Undisturbed'
  PROVE  /\ Undisturbed /\ ~ Disrupt
         /\ \A t \in Tabs : ~ NetworkError(t) /\ ~ LoadFails(t) /\ ~ Reload(t)
<1>1. faults \in Faults
  BY DEF TypeOK
<1>2. faults'.errors = 0 /\ faults'.reloads = 0 /\ faults'.disruptions = 0
  BY DEF Undisturbed
<1> DEFINE more ==
      \/ faults' = [faults EXCEPT !.errors = @ + 1]
      \/ faults' = [faults EXCEPT !.reloads = @ + 1]
      \/ faults' = [faults EXCEPT !.disruptions = @ + 1]
<1>3. ~ more
  BY <1>1, <1>2 DEF Faults
<1>4. ~ Disrupt
  BY <1>3 DEF Disrupt
<1>5. \A t \in Tabs : ~ NetworkError(t) /\ ~ LoadFails(t) /\ ~ Reload(t)
  BY <1>3 DEF NetworkError, LoadFails, Reload
<1>6. faults' = faults \/ more
  <2>1. CASE UNCHANGED vars
    BY <2>1 DEF vars
  <2>2. CASE Submit \/ Disrupt \/ \E r \in net : SaveAnswer(r)
    BY <2>2 DEF Submit, Disrupt, SaveAnswer
  <2>3. ASSUME NEW t \in Tabs,
               \/ Edit(t) \/ FireTimer(t) \/ Retry(t) \/ Receive(t)
               \/ NetworkError(t)
        PROVE  faults' = faults \/ more
    BY <2>3 DEF Edit, FireTimer, Retry, Receive, NetworkError
  <2>4. ASSUME NEW t \in Tabs,
               \/ LoadRow(t) \/ LoadSeq(t) \/ ApplySnapshot(t) \/ LoadFails(t)
               \/ HeartbeatRefused(t) \/ Restore(t) \/ Reload(t)
        PROVE  faults' = faults \/ more
    BY <2>4 DEF LoadRow, LoadSeq, ApplySnapshot, LoadFails, HeartbeatRefused,
                Restore, Reload
  <2> QED
    BY <2>1, <2>2, <2>3, <2>4 DEF Next
<1> QED
  BY <1>3, <1>4, <1>5, <1>6 DEF Undisturbed

\* Every step keeps an undisturbed single tab in step with the server.
LEMMA QuietStep ==
  ASSUME TypeOK, ReceiptLedger, QuietInv, [Next]_vars
  PROVE  QuietInv'
<1>1. SUFFICES ASSUME OneTab, Undisturbed', NEW t \in Tabs
               PROVE  Tidy(tab[t], row, receipts, net, replies)'
  BY DEF QuietInv, OneTab
<1>2. /\ Undisturbed /\ ~ Disrupt
      /\ \A u \in Tabs : ~ NetworkError(u) /\ ~ LoadFails(u) /\ ~ Reload(u)
  BY <1>1, FaultsStay
<1>3. Tidy(tab[t], row, receipts, net, replies) /\ tab[t] \in Page
  BY <1>1, <1>2 DEF QuietInv, TypeOK
<1>4. ASSUME Tidy(tab'[t], row', receipts', net', replies')
      PROVE  Tidy(tab[t], row, receipts, net, replies)'
  BY <1>4
<1>5. \A u \in Tabs : u = t
  BY <1>1 DEF OneTab
<1>6. ~ Restore(t)
  BY <1>3 DEF Restore, Tidy
<1>7. CASE UNCHANGED vars
  BY <1>3, <1>4, <1>7 DEF vars
<1>8. CASE Submit
  <2>1. tab' = tab
    BY <1>8 DEF Submit
  <2> QED
    BY <1>3, <1>4, <1>8, <2>1, SubmitTidy
<1>9. CASE \E r \in net : SaveAnswer(r)
  BY <1>1, <1>3, <1>4, <1>9, SaveTidy
<1>10. CASE Edit(t) \/ FireTimer(t) \/ Retry(t)
  BY <1>3, <1>4, <1>10, EditTidy
<1>11. CASE Receive(t)
  BY <1>3, <1>4, <1>11, ReceiveTidy
<1>12. CASE LoadRow(t) \/ LoadSeq(t) \/ HeartbeatRefused(t)
  BY <1>3, <1>4, <1>12, LoadTidy
<1>13. CASE ApplySnapshot(t)
  BY <1>3, <1>4, <1>13, ApplyTidy
<1> QED
  BY <1>2, <1>5, <1>6, <1>7, <1>8, <1>9, <1>10, <1>11, <1>12, <1>13 DEF Next

-----------------------------------------------------------------------------
(***************************************************************************)
(* The inductive invariant and what follows from it.                       *)
(***************************************************************************)

IInv ==
  /\ TypeOK
  /\ ReceiptLedger
  /\ FreezeIsNewest
  /\ AcksAreTrue
  /\ AllBehind
  /\ SnapshotSeqCoversAnswers
  /\ QuietInv

\* It holds before the first page has loaded.
LEMMA InitInv == Init => IInv
<1> SUFFICES ASSUME Init PROVE IInv
  OBVIOUS
<1>1. TypeOK
  BY InitType
<1>2. ReceiptLedger /\ FreezeIsNewest /\ AcksAreTrue
  BY DEF Init, ReceiptLedger, FreezeIsNewest, AcksAreTrue
<1>3. \A t \in Tabs : /\ tab[t].version = 0 /\ tab[t].sent = None
                      /\ tab[t].load = Requested("page")
  BY DEF Init, FreshPage
<1>4. Requested("page").version = 0 /\ Requested("page").phase = "requested"
  BY DEF Requested
<1>5. AllBehind
  BY <1>3, <1>4 DEF Init, AllBehind, Behind
<1>6. SnapshotSeqCoversAnswers
  BY <1>3, <1>4 DEF SnapshotSeqCoversAnswers
<1>7. QuietInv
  <2>1. \A t \in Tabs :
          /\ tab[t].view = "loading" /\ tab[t].pending = None
          /\ tab[t].queue = << >> /\ tab[t].status = "idle"
    BY DEF Init, FreshPage
  <2>2. /\ receipts = {} /\ net = {} /\ replies = {} /\ row.version = 0
        /\ row.answer = None /\ row.status = "in_progress"
    BY DEF Init
  <2> QED
    BY <1>3, <1>4, <2>1, <2>2 DEF QuietInv, Tidy, Blank, Loads
<1> QED
  BY <1>1, <1>2, <1>5, <1>6, <1>7 DEF IInv

\* Every step preserves it.
LEMMA NextInv == IInv /\ [Next]_vars => IInv'
<1> SUFFICES ASSUME IInv, [Next]_vars PROVE IInv'
  OBVIOUS
<1>1. TypeOK /\ TypeOK'
  BY NextType DEF IInv
<1>2. ReceiptLedger /\ ReceiptLedger'
  BY <1>1, LedgerStep DEF IInv
<1>3. FreezeIsNewest'
  BY <1>1, FreezeStep DEF IInv
<1>4. AcksAreTrue'
  BY <1>1, <1>2, AcksStep DEF IInv
<1>5. AllBehind /\ AllBehind'
  BY <1>1, <1>2, BehindStep DEF IInv
<1>6. SnapshotSeqCoversAnswers'
  BY <1>1, <1>5, CoverStep DEF IInv
<1>7. QuietInv'
  BY <1>1, <1>2, QuietStep DEF IInv
<1> QED
  BY <1>1, <1>2, <1>3, <1>4, <1>5, <1>6, <1>7 DEF IInv

\* The inductive invariant holds in every reachable state.
THEOREM Invariance == Spec => []IInv
BY InitInv, NextInv, PTL DEF Spec

\* The receipts of a question are a complete and exact history of its answer.
THEOREM LedgerCorrect == Spec => []ReceiptLedger
<1>1. IInv => ReceiptLedger
  BY DEF IInv
<1> QED
  BY <1>1, Invariance, PTL

\* What is frozen at submission is the newest accepted answer.
THEOREM FreezeCorrect == Spec => []FreezeIsNewest
<1>1. IInv => FreezeIsNewest
  BY DEF IInv
<1> QED
  BY <1>1, Invariance, PTL

\* Every acknowledgement has its receipt.
THEOREM AcksCorrect == Spec => []AcksAreTrue
<1>1. IInv => AcksAreTrue
  BY DEF IInv
<1> QED
  BY <1>1, Invariance, PTL

\* No page, request, reply or snapshot is ahead of the server.
THEOREM VersionsCorrect == Spec => []ClientNotAhead
<1>1. IInv => ClientNotAhead
  BY DEF IInv, AllBehind, Behind, ClientNotAhead
<1> QED
  BY <1>1, Invariance, PTL

\* A snapshot read in two parts never offers a key of an answer it shows.
THEOREM SnapshotsCorrect == Spec => []SnapshotSeqCoversAnswers
<1>1. IInv => SnapshotSeqCoversAnswers
  BY DEF IInv
<1> QED
  BY <1>1, Invariance, PTL

\* No save of the web client is ever refused as FUTURE_VERSION.
THEOREM NeverFuture == Spec => [](\A r \in net : Verdict(r) # "FUTURE_VERSION")
<1>1. IInv => \A r \in net : Verdict(r) # "FUTURE_VERSION"
  <2> SUFFICES ASSUME IInv, NEW r \in net PROVE Verdict(r) # "FUTURE_VERSION"
    OBVIOUS
  <2>1. r.base \in Nat /\ row.version \in Nat /\ r.base <= row.version
    BY DEF IInv, TypeOK, Row, Request, AllBehind
  <2> QED
    BY <2>1 DEF Verdict
<1> QED
  BY <1>1, Invariance, PTL

\* With a single tab that no fault has met, a page that reports its answer as
\* saved shows the answer of the server: however edits, timers, the chain of
\* saves, late deliveries and the end of the attempt interleave.
THEOREM QueueCorrect == Spec => [](OneTab => QueueKeepsUp)
<1>1. IInv => (OneTab => QueueKeepsUp)
  <2> SUFFICES ASSUME IInv, OneTab, Undisturbed, NEW t \in Tabs,
                      tab[t].view = "editable", tab[t].status = "saved"
               PROVE  tab[t].draft = row.answer
    BY DEF QueueKeepsUp, Undisturbed, SavedShowsServerAnswer
  <2>1. Tidy(tab[t], row, receipts, net, replies)
    BY DEF IInv, QuietInv
  <2> QED
    BY <2>1 DEF Tidy, Sync
<1> QED
  BY <1>1, Invariance, PTL

\* The history of the answer is never rewritten.
THEOREM HistoryCorrect == Spec => SaveHistoryKept
<1>1. TypeOK /\ [Next]_vars =>
        [/\ receipts \subseteq receipts'
         /\ row'.version >= row.version
         /\ row.status = "submitted" => row' = row /\ receipts' = receipts]_vars
  BY HistoryStep
<1> QED
  BY <1>1, TypeCorrect, PTL DEF Spec, SaveHistoryKept

-----------------------------------------------------------------------------
(***************************************************************************)
(* The protocol implements AnswerContract.                                 *)
(***************************************************************************)

\* The log is a sequence, with one place per version.
LogFits ==
  /\ Log \in Seq(Answers) /\ Len(Log) = row.version /\ row.version \in Nat
  /\ \A rc \in receipts : rc.version \in 1 .. row.version
                          /\ Log[rc.version] = rc.answer

\* It is, because the receipts are a complete and exact history.
LEMMA LogShape == TypeOK /\ ReceiptLedger => LogFits
<1> SUFFICES ASSUME TypeOK, ReceiptLedger PROVE LogFits
  OBVIOUS
<1>1. row.version \in Nat
  BY DEF TypeOK, Row
<1>2. \A v \in 1 .. row.version :
        /\ (CHOOSE rc \in receipts : rc.version = v) \in receipts
        /\ (CHOOSE rc \in receipts : rc.version = v).version = v
  BY DEF ReceiptLedger
<1>3. \A rc \in receipts : rc.answer \in Answers
  BY DEF TypeOK, Receipt
<1>4. \A v \in 1 .. row.version : Log[v] = (CHOOSE rc \in receipts : rc.version = v).answer
  BY DEF Log
<1>5. Log \in [1 .. row.version -> Answers]
  BY <1>2, <1>3 DEF Log
<1>6. Log \in Seq(Answers) /\ Len(Log) = row.version
  BY <1>1, <1>5
<1>7. ASSUME NEW rc \in receipts
      PROVE  rc.version \in 1 .. row.version /\ Log[rc.version] = rc.answer
  <2>1. rc.version \in 1 .. row.version
    BY DEF ReceiptLedger
  <2>2. (CHOOSE other \in receipts : other.version = rc.version) = rc
    BY <1>2, <2>1 DEF ReceiptLedger
  <2> QED
    BY <1>4, <2>1, <2>2
<1> QED
  BY <1>1, <1>6, <1>7 DEF LogFits

\* A step that keeps the history keeps the log.
LEMMA LogKept ==
  ASSUME receipts' = receipts, row'.version = row.version
  PROVE  Log' = Log
BY DEF Log

\* A save that is written is the next entry of the log.
LEMMA LogGrows ==
  ASSUME TypeOK, ReceiptLedger, ReceiptLedger', TypeOK', NEW r \in net, Writes(r)
  PROVE  Log' = Append(Log, r.answer) /\ r.answer \in Answers
<1>1. /\ Log \in Seq(Answers) /\ Len(Log) = row.version /\ row.version \in Nat
      /\ \A rc \in receipts : rc.version \in 1 .. row.version
                              /\ Log[rc.version] = rc.answer
  BY LogShape DEF LogFits
<1>2. /\ Log' \in Seq(Answers) /\ Len(Log') = row'.version
      /\ \A rc \in receipts' : Log'[rc.version] = rc.answer
  <2>1. LogFits'
    BY LogShape, PTL
  <2> QED
    BY <2>1 DEF LogFits
<1>3. row'.version = row.version + 1
  BY DEF Writes, TypeOK, Row
<1>4. \A v \in 1 .. row.version : \E rc \in receipts : rc.version = v
  BY DEF ReceiptLedger
<1>5. \A v \in 1 .. row.version : Log'[v] = Log[v]
  BY <1>1, <1>2, <1>4 DEF Writes
<1> DEFINE new == [seq |-> r.seq, answer |-> r.answer, version |-> row.version + 1]
<1>6. new \in receipts' /\ new.version = row.version + 1 /\ new.answer = r.answer
  BY DEF Writes
<1> HIDE DEF new
<1>7. Log'[row.version + 1] = r.answer
  BY <1>2, <1>6
<1>8. r.answer \in Answers
  BY DEF TypeOK, Request
<1> QED
  BY <1>1, <1>2, <1>3, <1>5, <1>7, <1>8

\* Replies that are received, given up or kept say nothing new.
LEMMA NothingTold ==
  ASSUME replies' \subseteq replies
  PROVE  Acknowledged' \subseteq Acknowledged
BY DEF Acknowledged

\* One more reply tells of one more save if it is an acceptance, and of none
\* otherwise.
LEMMA OneTold ==
  ASSUME NEW x, replies' = replies \cup {x}
  PROVE  /\ x.result = "accepted" =>
              Acknowledged' = Acknowledged \cup {<<x.version, x.req.answer>>}
         /\ x.result # "accepted" => Acknowledged' = Acknowledged
BY DEF Acknowledged

\* What a save under way does to the replies.
LEMMA AnswerTold ==
  ASSUME NEW r, NEW result, NEW v, Answer(r, result, v)
  PROVE  \/ Acknowledged' = Acknowledged
         \/ /\ result = "accepted"
            /\ Acknowledged' = Acknowledged \cup {<<v, r.answer>>}
<1> DEFINE x == [req |-> r, result |-> result, version |-> v, answer |-> row.answer]
<1>1. x.req = r /\ x.result = result /\ x.version = v
  OBVIOUS
<1>2. replies' = replies \/ replies' = replies \cup {x}
  BY DEF Answer
<1> HIDE DEF x
<1>3. CASE replies' = replies
  BY <1>3 DEF Acknowledged
<1>4. CASE replies' = replies \cup {x}
  BY <1>1, <1>4, OneTold
<1> QED
  BY <1>2, <1>3, <1>4

\* A delivery is Accept, Repeat or a stutter of the contract.
LEMMA SaveMapped ==
  ASSUME IInv, IInv', NEW r \in net, SaveAnswer(r)
  PROVE  [Contract!CNext]_(Contract!cvars)
<1>1. TypeOK /\ TypeOK' /\ ReceiptLedger /\ ReceiptLedger' /\ row \in Row
  BY DEF IInv, TypeOK
<1>2. LogFits
  BY <1>1, LogShape
<1>3. CASE Verdict(r) = "new"
  <2>1. /\ Writes(r) /\ row.status # "submitted" /\ Answer(r, "accepted", row.version + 1)
        /\ row' = [row EXCEPT !.answer = r.answer, !.version = @ + 1]
    BY <1>3 DEF SaveAnswer, Verdict, Writes
  <2>2. row'.status = row.status /\ row'.frozen = row.frozen
    BY <1>1, <2>1 DEF Row
  <2>3. Log' = Append(Log, r.answer) /\ r.answer \in Answers
    BY <1>1, <2>1, LogGrows
  <2>4. Acknowledged' \in {Acknowledged, Acknowledged \cup {<<Len(Log) + 1, r.answer>>}}
    BY <1>2, <2>1, AnswerTold DEF LogFits
  <2>5. Contract!Accept(r.answer)
    BY <2>1, <2>2, <2>3, <2>4 DEF Contract!Accept
  <2> QED
    BY <2>3, <2>5 DEF Contract!CNext
<1>4. CASE Verdict(r) # "new"
  <2>1. /\ row' = row /\ receipts' = receipts
        /\ Answer(r, Verdict(r), ServerVersion(r))
    BY <1>4 DEF SaveAnswer
  <2>2. Log' = Log
    BY <2>1, LogKept
  <2>3. CASE Acknowledged' = Acknowledged
    BY <2>1, <2>2, <2>3 DEF Contract!cvars
  <2>4. CASE /\ Verdict(r) = "accepted"
             /\ Acknowledged' = Acknowledged \cup {<<ServerVersion(r), r.answer>>}
    <3>1. row.status # "submitted" /\ Known(r) # {}
      BY <2>4 DEF Verdict
    <3>2. PICK rc \in Known(r) : rc.answer = r.answer
      BY <2>4, <3>1 DEF Verdict
    <3>3. (CHOOSE c \in Known(r) : TRUE) \in Known(r)
      BY <3>1
    <3>4. (CHOOSE c \in Known(r) : TRUE) = rc
      BY <1>1, <3>2, <3>3 DEF Known, ReceiptLedger
    <3>5. ServerVersion(r) = rc.version /\ rc \in receipts
      BY <3>1, <3>2, <3>4 DEF ServerVersion, Known
    <3>6. rc.version \in 1 .. Len(Log) /\ Log[rc.version] = r.answer
      BY <1>2, <3>2, <3>5 DEF LogFits
    <3>7. Contract!Repeat(rc.version)
      BY <2>1, <2>2, <2>4, <3>1, <3>5, <3>6 DEF Contract!Repeat
    <3> QED
      BY <3>6, <3>7 DEF Contract!CNext
  <2> QED
    BY <2>1, <2>3, <2>4, AnswerTold
<1> QED
  BY <1>3, <1>4

\* The end of the attempt is Close: what is frozen is the last entry.
LEMMA SubmitMapped ==
  ASSUME IInv, Submit
  PROVE  Contract!CNext
<1>1. TypeOK /\ ReceiptLedger /\ LogFits /\ row \in Row
  BY LogShape DEF IInv, TypeOK
<1>2. /\ row.status # "submitted" /\ row'.status = "submitted"
      /\ row'.frozen = row.answer /\ row'.version = row.version
      /\ receipts' = receipts /\ replies' = replies
  BY <1>1 DEF Submit, Row
<1>3. Log' = Log /\ Acknowledged' = Acknowledged
  BY <1>2, LogKept DEF Acknowledged
<1>4. row.answer = IF Log = << >> THEN None ELSE Log[Len(Log)]
  <2>1. CASE row.version = 0
    BY <1>1, <2>1 DEF ReceiptLedger, LogFits
  <2>2. CASE row.version # 0
    <3>1. PICK rc \in receipts : rc.version = row.version
      BY <1>1, <2>2 DEF ReceiptLedger, LogFits
    <3>2. row.answer = rc.answer /\ rc.answer = Log[Len(Log)] /\ Log # << >>
      BY <1>1, <2>2, <3>1 DEF ReceiptLedger, LogFits
    <3> QED
      BY <3>2
  <2> QED
    BY <2>1, <2>2
<1>5. Contract!Close
  BY <1>2, <1>3, <1>4 DEF Contract!Close
<1> QED
  BY <1>5 DEF Contract!CNext

\* The pages, the network and the disruptions at most forget replies.
LEMMA PageMapped ==
  ASSUME TypeOK,
         \/ Disrupt
         \/ \E t \in Tabs :
              \/ Edit(t) \/ FireTimer(t) \/ Retry(t) \/ Receive(t)
              \/ NetworkError(t) \/ LoadRow(t) \/ LoadSeq(t)
              \/ ApplySnapshot(t) \/ LoadFails(t) \/ HeartbeatRefused(t)
              \/ Restore(t) \/ Reload(t)
  PROVE  Contract!CNext
<1>1. row \in Row
  BY DEF TypeOK
<1>2. receipts' = receipts /\ replies' \subseteq replies
  BY DEF Disrupt, Edit, FireTimer, Retry, Receive, NetworkError, PageStep,
         LoadRow, LoadSeq, ApplySnapshot, LoadFails, HeartbeatRefused,
         Restore, Reload, SetLoad
<1>3. CASE row' = row
  <2>1. Contract!Forget
    BY <1>2, <1>3, LogKept, NothingTold DEF Contract!Forget
  <2> QED
    BY <2>1 DEF Contract!CNext
<1>4. CASE \/ row.status # "submitted" /\ row' = [row EXCEPT !.status = "disrupted"]
           \/ row.status # "submitted" /\ row' = [row EXCEPT !.status = "in_progress"]
  <2>1. /\ row.status # "submitted" /\ row'.status # "submitted"
        /\ row'.version = row.version /\ row'.frozen = row.frozen
    BY <1>1, <1>4 DEF Row
  <2>2. Contract!Forget
    BY <1>2, <2>1, LogKept, NothingTold DEF Contract!Forget
  <2> QED
    BY <2>2 DEF Contract!CNext
<1> QED
  BY <1>3, <1>4 DEF Disrupt, Edit, FireTimer, Retry, Receive, NetworkError, PageStep,
     LoadRow, LoadSeq, ApplySnapshot, LoadFails, HeartbeatRefused,
     Restore, Reload, SetLoad

\* Every step is a step of the contract or a stutter.
LEMMA NextMapped == IInv /\ IInv' /\ [Next]_vars => [Contract!CNext]_(Contract!cvars)
<1> SUFFICES ASSUME IInv, IInv', [Next]_vars PROVE [Contract!CNext]_(Contract!cvars)
  OBVIOUS
<1>1. CASE UNCHANGED vars
  <2>1. row' = row /\ receipts' = receipts /\ replies' = replies
    BY <1>1 DEF vars
  <2>2. Log' = Log /\ Acknowledged' = Acknowledged
    BY <2>1, LogKept DEF Acknowledged
  <2> QED
    BY <2>1, <2>2 DEF Contract!cvars
<1>2. TypeOK
  BY DEF IInv
<1> QED
  BY <1>1, <1>2, SaveMapped, SubmitMapped, PageMapped DEF Next

\* Before the first page has loaded the log is empty.
LEMMA InitMapped == Init => Contract!CInit
<1> SUFFICES ASSUME Init PROVE Contract!CInit
  OBVIOUS
<1>1. row.version = 0 /\ row.status = "in_progress" /\ row.frozen = None /\ replies = {}
  BY DEF Init
<1>2. LogFits
  BY InitInv, LogShape DEF IInv
<1>3. Log = << >>
  BY <1>1, <1>2 DEF LogFits
<1>4. Acknowledged = {}
  BY <1>1 DEF Acknowledged
<1> QED
  BY <1>1, <1>3, <1>4 DEF Contract!CInit

\* Whatever tabs, deliveries, retries, losses and reloads do, the answers saved
\* for a question are an append-only log that is closed once, every
\* acknowledgement names an entry of it, and grading gets the last one.
THEOREM KeepsTheContract == Spec => ImplementsAnswerContract
<1>1. Spec => Contract!CInit
  BY InitMapped DEF Spec
<1>2. Spec => [][Contract!CNext]_(Contract!cvars)
  BY NextMapped, Invariance, PTL DEF Spec
<1> QED
  BY <1>1, <1>2, PTL DEF ImplementsAnswerContract, Contract!CSpec
=============================================================================
