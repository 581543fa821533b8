---------------------------- MODULE AnswerProtocol ----------------------------
(***************************************************************************)
(* Saving the answer to one question of one attempt: the pages of the      *)
(* candidate's browser tabs (TakeExamPage, useSubmitFlush), the network,   *)
(* and the server's versioned answer with its replay receipts              *)
(* (answerProtocol.ts).  Questions do not interact: versions, receipts,    *)
(* client sequence numbers and the save chain are all kept per question.   *)
(*                                                                         *)
(* The network delivers a request late, more than once or never, and       *)
(* loses replies.  A save request, once sent, stays in net: a delivery may *)
(* happen after its page gave up on it or was reloaded.                    *)
(***************************************************************************)
EXTENDS Integers, Sequences

CONSTANTS
  None,            \* undefined / NULL
  Tabs, Answers,
  \* --- bounds of the model
  MaxEdits,        \* edits per tab
  MaxRetries,      \* retries of failed saves per tab
  MaxErrors,       \* requests the browser gives up on
  MaxReloads,      \* page reloads
  MaxDisruptions   \* times the heartbeat scanner disrupts the attempt

ASSUME BoundAssumption ==
  /\ MaxEdits \in Nat /\ MaxRetries \in Nat /\ MaxErrors \in Nat
  /\ MaxReloads \in Nat /\ MaxDisruptions \in Nat

VARIABLES
  row,       \* exam_attempts: status, the question's answer, the frozen answer
  receipts,  \* exam_answer_save_receipts of the question
  tab,       \* the page in each tab
  net,       \* save requests that may reach the server
  replies,   \* replies to requests a page is waiting for
  faults     \* how often the environment has failed so far

vars == <<row, receipts, tab, net, replies, faults>>

-----------------------------------------------------------------------------
MaybeAnswer == Answers \cup {None}

Row == [status : {"in_progress", "disrupted", "submitted"},
        answer : MaybeAnswer, version : Nat, frozen : MaybeAnswer]

Receipt == [seq : Nat, answer : Answers, version : Nat]

\* A save waiting in the queue of a page.
Save == [answer : Answers, gen : Nat]

\* page and gen are not on the wire: they tell requests of one tab apart.
Request == [tab : Tabs, page : Nat, gen : Nat, seq : Nat, base : Nat,
            answer : Answers]

Results == {"accepted", "ATTEMPT_ALREADY_SUBMITTED", "CONFLICTING_PAYLOAD",
            "STALE_VERSION", "FUTURE_VERSION"}

Reply == [req : Request, result : Results, version : Nat, answer : MaybeAnswer]

\* A snapshot on its way to the page: the attempt is read first, the highest
\* accepted client sequence number after it.
Snapshot == [why : {"page", "restore"}, phase : {"requested", "row", "seq"},
             view : {"editable", "disrupted", "locked"},
             answer : MaybeAnswer, version : Nat, seq : Nat]

\* NULL is neither an answer nor a record.
ASSUME NoneAssumption ==
  None \notin Answers /\ None \notin Save /\ None \notin Request /\ None \notin Snapshot

Page == [page : Nat,
         view : {"loading", "editable", "disrupted", "locked"},
         draft : MaybeAnswer,            \* what the editor shows
         version : Nat, seq : Nat,       \* versionsRef, clientSeqsRef
         gen : Nat,                      \* questionGenerations
         pending : Save \cup {None},     \* waiting for the debounce timer
         queue : Seq(Save),              \* waiting for the save under way
         sent : Request \cup {None},     \* the save under way
         status : {"idle", "pending", "inflight", "saved", "failed"},
         indicator : {"idle", "saving", "saved", "error"},
         load : Snapshot \cup {None},
         edits : Nat, retries : Nat]

Faults == [errors : Nat, reloads : Nat, disruptions : Nat]

\* The row, the receipts, the network and every page keep their types.
TypeOK ==
  /\ row \in Row
  /\ receipts \subseteq Receipt
  /\ tab \in [Tabs -> Page]
  /\ net \subseteq Request
  /\ replies \subseteq Reply
  /\ faults \in Faults

Requested(why) == [why |-> why, phase |-> "requested", view |-> "locked",
                   answer |-> None, version |-> 0, seq |-> 0]

\* A page that has just been opened: it holds nothing and asks for a snapshot.
FreshPage(number, edits, retries) ==
  [page |-> number, view |-> "loading", draft |-> None, version |-> 0,
   seq |-> 0, gen |-> 0, pending |-> None, queue |-> << >>, sent |-> None,
   status |-> "idle", indicator |-> "idle", load |-> Requested("page"),
   edits |-> edits, retries |-> retries]

Init ==
  /\ row = [status |-> "in_progress", answer |-> None, version |-> 0,
            frozen |-> None]
  /\ receipts = {}
  /\ tab = [t \in Tabs |-> FreshPage(0, 0, 0)]
  /\ net = {}
  /\ replies = {}
  /\ faults = [errors |-> 0, reloads |-> 0, disruptions |-> 0]

-----------------------------------------------------------------------------
(***************************************************************************)
(* The server.                                                             *)
(***************************************************************************)

Known(r) == {rc \in receipts : rc.seq = r.seq}

\* Fault: the status of the attempt is not part of the decision.
VerdictIgnoringStatus(r) ==
  IF Known(r) # {}
    THEN IF \E rc \in Known(r) : rc.answer = r.answer
           THEN "accepted" ELSE "CONFLICTING_PAYLOAD"
  ELSE IF r.base < row.version THEN "STALE_VERSION"
  ELSE IF r.base > row.version THEN "FUTURE_VERSION"
  ELSE "new"

\* Fault: replays are told from new saves by their base version only.
VerdictWithoutReceipts(r) ==
  IF row.status = "submitted" THEN "ATTEMPT_ALREADY_SUBMITTED"
  ELSE IF r.base < row.version THEN "STALE_VERSION"
  ELSE IF r.base > row.version THEN "FUTURE_VERSION"
  ELSE "new"

\* Fault: a known key is acknowledged without comparing the answers.
VerdictWithoutIdentity(r) ==
  IF row.status = "submitted" THEN "ATTEMPT_ALREADY_SUBMITTED"
  ELSE IF Known(r) # {} THEN "accepted"
  ELSE IF r.base < row.version THEN "STALE_VERSION"
  ELSE IF r.base > row.version THEN "FUTURE_VERSION"
  ELSE "new"

\* processSaveAnswer, in its order; an accepted save is new or a replay.
Verdict(r) ==
  IF row.status = "submitted" THEN "ATTEMPT_ALREADY_SUBMITTED"
  ELSE IF Known(r) # {}
    THEN IF \E rc \in Known(r) : rc.answer = r.answer
           THEN "accepted" ELSE "CONFLICTING_PAYLOAD"
  ELSE IF r.base < row.version THEN "STALE_VERSION"
  ELSE IF r.base > row.version THEN "FUTURE_VERSION"
  ELSE "new"

\* Fault: a reply carries the version the save would have got.
ServerVersionNext(r) == row.version + 1

\* The version a reply carries when nothing is written.
ServerVersion(r) ==
  IF row.status = "submitted" THEN 0
  ELSE IF Known(r) # {} THEN (CHOOSE rc \in Known(r) : TRUE).version
  ELSE row.version

\* A reply matters only to the page that is waiting for it.
Answer(r, result, version) ==
  replies' = IF tab[r.tab].sent = r
               THEN replies \cup {[req |-> r, result |-> result,
                                   version |-> version, answer |-> row.answer]}
               ELSE replies

\* saveAnswer: the answer and its receipt are one transaction.
SaveAnswer(r) ==
  /\ \/ /\ Verdict(r) = "new"
        /\ row' = [row EXCEPT !.answer = r.answer, !.version = @ + 1]
        /\ receipts' = receipts \cup
             {[seq |-> r.seq, answer |-> r.answer, version |-> row.version + 1]}
        /\ Answer(r, "accepted", row.version + 1)
     \/ /\ Verdict(r) # "new"
        /\ Answer(r, Verdict(r), ServerVersion(r))
        /\ UNCHANGED <<row, receipts>>
  /\ UNCHANGED <<tab, net, faults>>

\* Any of the submissions of ExamRuntime: candidate, deadline, force-submit.
Submit ==
  /\ row.status # "submitted"
  /\ row' = [row EXCEPT !.status = "submitted", !.frozen = row.answer]
  /\ UNCHANGED <<receipts, tab, net, replies, faults>>

\* The heartbeat scanner.
Disrupt ==
  /\ row.status = "in_progress"
  /\ faults.disruptions < MaxDisruptions
  /\ row' = [row EXCEPT !.status = "disrupted"]
  /\ faults' = [faults EXCEPT !.disruptions = @ + 1]
  /\ UNCHANGED <<receipts, tab, net, replies>>

-----------------------------------------------------------------------------
(***************************************************************************)
(* The page: editing and the save queue.                                   *)
(***************************************************************************)

\* saveAnswer of the page, up to scheduleSave.
Schedule(p, a) ==
  [p EXCEPT !.draft = a,
            !.gen = @ + 1,
            !.pending = [answer |-> a, gen |-> p.gen + 1],
            !.status = "pending",
            !.indicator = "saving"]

\* Fault: the outcome of an older save counts for the newest edit.
OutcomeOfAnySave(p, gen, status) == status

\* The outcome of save number gen; a newer edit owns the status already.
Outcome(p, gen, status) == IF gen = p.gen THEN status ELSE p.status

\* The callback of save s runs: the key and the base version are taken now.
\* If the page has become read-only, this save and all behind it fail.
Launch(p, t, s) ==
  IF p.view = "editable"
    THEN [p EXCEPT
            !.seq = @ + 1,
            !.sent = [tab |-> t, page |-> p.page, gen |-> s.gen,
                      seq |-> p.seq + 1, base |-> p.version,
                      answer |-> s.answer],
            !.status = Outcome(p, s.gen, "inflight")]
    ELSE [p EXCEPT
            !.sent = None,
            !.queue = << >>,
            !.status = Outcome(p, (IF p.queue = << >> THEN s
                                   ELSE p.queue[Len(p.queue)]).gen, "failed"),
            !.indicator = "idle"]

\* The debounce timer fires, or a flush drains it: runSave.
Fire(p, t) ==
  IF p.sent = None
    THEN Launch([p EXCEPT !.pending = None], t, p.pending)
    ELSE [p EXCEPT !.pending = None, !.queue = Append(@, p.pending)]

\* Fault: the saves behind the one that is settled are forgotten.
SettleAlone(p, t) == [p EXCEPT !.sent = None]

\* The save under way is settled: the next one in the chain runs.
Settle(p, t) ==
  IF p.queue = << >>
    THEN [p EXCEPT !.sent = None]
    ELSE Launch([p EXCEPT !.queue = Tail(@)], t, Head(p.queue))

Sent(p) == {p.sent} \ {None}

\* The page of tab t becomes p, with whatever request that puts on the wire.
PageStep(t, p) ==
  /\ tab' = [tab EXCEPT ![t] = p]
  /\ net' = net \cup Sent(p)
  /\ UNCHANGED <<row, receipts>>

Edit(t) ==
  /\ tab[t].view = "editable"
  /\ tab[t].edits < MaxEdits
  /\ \E a \in Answers \ {tab[t].draft} :
       PageStep(t, [Schedule(tab[t], a) EXCEPT !.edits = @ + 1])
  /\ UNCHANGED <<replies, faults>>

FireTimer(t) ==
  /\ tab[t].pending # None
  /\ PageStep(t, Fire(tab[t], t))
  /\ UNCHANGED <<replies, faults>>

\* retryFailedSaves, on a heartbeat or when the browser is back online: what
\* the editor shows is saved again, and the flush does not wait for the timer.
Retry(t) ==
  /\ tab[t].status = "failed"
  /\ tab[t].view = "editable"
  /\ tab[t].draft # None
  /\ tab[t].retries < MaxRetries
  /\ PageStep(t, Fire([Schedule(tab[t], tab[t].draft) EXCEPT !.retries = @ + 1], t))
  /\ UNCHANGED <<replies, faults>>

\* A terminal rejection makes the page read the attempt again.
Reconciling(p) == IF p.load = None THEN Requested("page") ELSE p.load

\* What the page makes of the reply to the save under way.
Received(p, reply) ==
  LET gen == p.sent.gen IN
  IF reply.result = "accepted"
    THEN [p EXCEPT !.version = reply.version, !.indicator = "saved",
                   !.status = Outcome(p, gen, "saved")]
  ELSE IF reply.result = "STALE_VERSION"
    THEN [p EXCEPT !.version = reply.version, !.draft = reply.answer,
                   !.indicator = "saved", !.status = Outcome(p, gen, "saved")]
  ELSE [p EXCEPT !.indicator = "error", !.status = Outcome(p, gen, "failed"),
                 !.load = IF reply.result = "ATTEMPT_ALREADY_SUBMITTED"
                            THEN Reconciling(p) ELSE @]

Receive(t) ==
  /\ \E reply \in replies :
       /\ reply.req = tab[t].sent
       /\ PageStep(t, Settle(Received(tab[t], reply), t))
       /\ replies' = {other \in replies : other.req # reply.req}
  /\ UNCHANGED faults

\* The browser gives up on the request; it may have reached the server, or
\* still reach it.
NetworkError(t) ==
  LET p == tab[t] IN
  /\ p.sent # None
  /\ faults.errors < MaxErrors
  /\ PageStep(t, Settle([p EXCEPT !.indicator = "error",
                           !.status = Outcome(p, p.sent.gen, "failed")], t))
  /\ replies' = {reply \in replies : reply.req # p.sent}
  /\ faults' = [faults EXCEPT !.errors = @ + 1]

-----------------------------------------------------------------------------
(***************************************************************************)
(* The page: snapshots.                                                    *)
(***************************************************************************)

SetLoad(t, load) ==
  /\ tab' = [tab EXCEPT ![t].load = load]
  /\ UNCHANGED <<row, receipts, net, replies>>

\* GET take, first read: the attempt row.
LoadRow(t) ==
  /\ tab[t].load # None
  /\ tab[t].load.phase = "requested"
  /\ SetLoad(t, [tab[t].load EXCEPT
       !.phase = "row",
       !.view = CASE row.status = "in_progress" -> "editable"
                  [] row.status = "disrupted"   -> "disrupted"
                  [] row.status = "submitted"   -> "locked",
       !.answer = IF row.status = "submitted" THEN row.frozen ELSE row.answer,
       !.version = IF row.status = "submitted" THEN 0 ELSE row.version])
  /\ UNCHANGED faults

\* Fault: the highest key is read before the answer it belongs to.
LoadStaleSeq(t) ==
  /\ tab[t].load # None
  /\ tab[t].load.phase = "row"
  /\ \E q \in {0} \cup {rc.seq : rc \in receipts} :
       SetLoad(t, [tab[t].load EXCEPT !.phase = "seq", !.seq = q])
  /\ UNCHANGED faults

\* GET take, second read: findMaxClientSeqByQuestion.
LoadSeq(t) ==
  /\ tab[t].load # None
  /\ tab[t].load.phase = "row"
  /\ \E q \in {0} \cup {rc.seq : rc \in receipts} :
       /\ \A rc \in receipts : rc.seq <= q
       /\ SetLoad(t, [tab[t].load EXCEPT !.phase = "seq", !.seq = q])
  /\ UNCHANGED faults

\* applySnapshot: drafts, versions and keys are replaced, whatever is being
\* edited or saved; the save queue is left alone.
Applied(p) ==
  [p EXCEPT !.view = p.load.view,
            !.draft = p.load.answer,
            !.version = IF p.load.answer = None THEN 0 ELSE p.load.version,
            !.seq = IF p.load.answer = None \/ p.load.view = "locked"
                      THEN 0 ELSE p.load.seq,
            !.load = None]

\* After a restore, a snapshot that is still disrupted is not applied.
ApplySnapshot(t) ==
  LET p == tab[t] IN
  /\ p.load # None
  /\ p.load.phase = "seq"
  /\ tab' = [tab EXCEPT ![t] =
               IF p.load.why = "restore" /\ p.load.view = "disrupted"
                 THEN [p EXCEPT !.load = None] ELSE Applied(p)]
  /\ UNCHANGED <<row, receipts, net, replies, faults>>

\* A snapshot that cannot be had: the page asks again, or stays as it is.
LoadFails(t) ==
  /\ tab[t].load # None
  /\ faults.errors < MaxErrors
  /\ SetLoad(t, IF tab[t].view = "loading" THEN Requested("page") ELSE None)
  /\ faults' = [faults EXCEPT !.errors = @ + 1]

\* A heartbeat is refused because the attempt has left in_progress.
HeartbeatRefused(t) ==
  /\ row.status # "in_progress"
  /\ tab[t].view = "editable"
  /\ tab[t].load = None
  /\ SetLoad(t, Requested("page"))
  /\ UNCHANGED faults

\* useAttemptRestore: the command, then a snapshot whatever came of it, the
\* command being lost included.
Restore(t) ==
  /\ tab[t].view = "disrupted"
  /\ tab[t].load = None
  /\ tab' = [tab EXCEPT ![t].load = Requested("restore")]
  /\ \/ /\ row' = IF row.status = "disrupted"
                    THEN [row EXCEPT !.status = "in_progress"] ELSE row
        /\ UNCHANGED faults
     \/ /\ faults.errors < MaxErrors
        /\ faults' = [faults EXCEPT !.errors = @ + 1]
        /\ UNCHANGED row
  /\ UNCHANGED <<receipts, net, replies>>

\* The candidate reloads the page, or opens the attempt in it again.
Reload(t) ==
  LET p == tab[t] IN
  /\ faults.reloads < MaxReloads
  /\ tab' = [tab EXCEPT ![t] = FreshPage(p.page + 1, p.edits, p.retries)]
  /\ replies' = {reply \in replies : reply.req # p.sent}
  /\ faults' = [faults EXCEPT !.reloads = @ + 1]
  /\ UNCHANGED <<row, receipts, net>>

-----------------------------------------------------------------------------
Next ==
  \/ Submit \/ Disrupt
  \/ \E r \in net : SaveAnswer(r)
  \/ \E t \in Tabs :
       \/ Edit(t) \/ FireTimer(t) \/ Retry(t) \/ Receive(t) \/ NetworkError(t)
       \/ LoadRow(t) \/ LoadSeq(t) \/ ApplySnapshot(t) \/ LoadFails(t)
       \/ HeartbeatRefused(t) \/ Restore(t) \/ Reload(t)

Spec == Init /\ [][Next]_vars

\* Timers fire, the server answers what reaches it, replies arrive unless the
\* browser gives up, and heartbeats keep retrying failed saves and noticing
\* that the attempt has ended.  Nothing is assumed of the candidate, of the
\* scanner or of the ways to end the attempt.
Fairness ==
  \A t \in Tabs :
    /\ WF_vars(FireTimer(t)) /\ WF_vars(Retry(t)) /\ WF_vars(Receive(t))
    /\ WF_vars(LoadRow(t)) /\ WF_vars(LoadSeq(t)) /\ WF_vars(ApplySnapshot(t))
    /\ WF_vars(HeartbeatRefused(t))
    /\ WF_vars(\E r \in net : tab[t].sent = r /\ SaveAnswer(r))

FairSpec == Spec /\ Fairness

-----------------------------------------------------------------------------
(***************************************************************************)
(* What the candidate is promised: the contract, and the mapping to it.    *)
(***************************************************************************)

\* The receipts, in the order of the versions they wrote.
Log == [v \in 1 .. row.version |-> (CHOOSE rc \in receipts : rc.version = v).answer]

Acknowledged ==
  {<<reply.version, reply.req.answer>> :
     reply \in {other \in replies : other.result = "accepted"}}

Contract == INSTANCE AnswerContract WITH
  log <- Log, open <- row.status # "submitted", graded <- row.frozen,
  told <- Acknowledged

\* Tabs, late and repeated deliveries, replays, conflicts, reloads and the ways
\* to end the attempt do to the answer only what the contract allows: nothing
\* that was accepted is rewritten or dropped, nothing is accepted twice or
\* after the end, and grading gets the last accepted answer.
ImplementsAnswerContract == Contract!CSpec

-----------------------------------------------------------------------------
(***************************************************************************)
(* Safety.                                                                 *)
(***************************************************************************)

\* The receipts are a complete and exact history of the answer: every version
\* was written once, under its own key, and the answer in force is the one of
\* the newest receipt, whatever was replayed, raced or delivered late.
ReceiptLedger ==
  /\ \A rc \in receipts : rc.version \in 1 .. row.version
  /\ \A v \in 1 .. row.version : \E rc \in receipts : rc.version = v
  /\ \A rc, other \in receipts :
       rc.seq = other.seq \/ rc.version = other.version => rc = other
  /\ \A rc \in receipts : rc.version = row.version => row.answer = rc.answer
  /\ row.version = 0 => row.answer = None

\* What is graded is the newest accepted answer: the freeze loses no
\* acknowledged save and no save gets in after it.
FreezeIsNewest ==
  row.status = "submitted" => row.frozen = row.answer

\* Every acknowledgement is true: the server has a receipt of exactly that
\* answer, under that key, at the version it reports.
AcksAreTrue ==
  \A reply \in replies : reply.result = "accepted" =>
    \E rc \in receipts : /\ rc.seq = reply.req.seq
                         /\ rc.answer = reply.req.answer
                         /\ rc.version = reply.version

\* No page is ahead of the server: through replays, conflicts, adoptions and
\* snapshots read in two parts, a page never believes in a version that does
\* not exist, so no save of the web client is refused as FUTURE_VERSION.
ClientNotAhead ==
  /\ \A t \in Tabs : tab[t].version <= row.version
  /\ \A r \in net : r.base <= row.version
  /\ \A t \in Tabs : tab[t].load # None => tab[t].load.version <= row.version
  /\ \A reply \in replies : reply.version <= row.version

\* A snapshot never hands a page a key that one of the answers it shows was
\* saved under, although answer and keys are read at different times.
SnapshotSeqCoversAnswers ==
  \A t \in Tabs :
    tab[t].load # None /\ tab[t].load.phase = "seq" =>
      \A rc \in receipts :
        rc.version <= tab[t].load.version => rc.seq <= tab[t].load.seq

\* History is never rewritten: receipts are only added, versions only grow,
\* and once the attempt is submitted the answer, the receipts and the frozen
\* answer stay as they are.
SaveHistoryKept ==
  [][/\ receipts \subseteq receipts'
     /\ row'.version >= row.version
     /\ row.status = "submitted" => row' = row /\ receipts' = receipts]_vars

\* A page that reports its answer as saved shows the answer of the server.
SavedShowsServerAnswer ==
  \A t \in Tabs :
    tab[t].view = "editable" /\ tab[t].status = "saved" =>
      tab[t].draft = row.answer

\* In a single tab, as long as no request is lost, no page reloaded and the
\* attempt not disrupted, the debounce timer, the chain of saves and the
\* outcomes they report keep the page and the server together.
QueueKeepsUp ==
  faults = [errors |-> 0, reloads |-> 0, disruptions |-> 0] =>
    SavedShowsServerAnswer

(***************************************************************************)
(* Liveness.                                                               *)
(***************************************************************************)

\* Every edit is resolved once the network works again, through lost requests,
\* conflicts and reloads: it is saved, or the page stops being editable.  A
\* disruption of the attempt is the exception: see FailedSaveRetried.
EditsSettle ==
  \A t \in Tabs :
    tab[t].status \in {"pending", "inflight", "failed"} ~>
      \/ tab[t].status = "saved"
      \/ tab[t].view # "editable"
      \/ faults.disruptions > 0

-----------------------------------------------------------------------------
(***************************************************************************)
(* What the documentation says of saving and the code does not do.         *)
(***************************************************************************)

\* standard-supported-capabilities.md, of a failed save: "retry happens
\* automatically while the page is alive".
FailedSaveRetried ==
  \A t \in Tabs :
    tab[t].status = "failed" /\ tab[t].view = "editable" ~>
      tab[t].status # "failed" \/ tab[t].view # "editable"
=============================================================================
