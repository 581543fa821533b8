---------------------------- MODULE AnswerContract ----------------------------
(***************************************************************************)
(* What saving an answer promises, without pages, keys, versions, retries  *)
(* or a network: the answers accepted for a question form a log that only  *)
(* grows, at the end and while the attempt is open; whoever is told that   *)
(* an answer was saved is told a place of the log that holds it; and what  *)
(* is graded is the last entry when the attempt is closed.                 *)
(*                                                                         *)
(* AnswerProtocol is the protocol that does this; it implements this       *)
(* module.                                                                 *)
(***************************************************************************)
EXTENDS Naturals, Sequences

CONSTANTS None, Answers

VARIABLES
  log,    \* the accepted answers, in order
  open,   \* whether the attempt takes answers
  graded, \* the answer handed to grading, or None
  told    \* acknowledgements on their way: places of the log and their answers

cvars == <<log, open, graded, told>>

CInit ==
  /\ log = << >>
  /\ open = TRUE
  /\ graded = None
  /\ told = {}

\* An answer is accepted; its sender may still be waiting for the news.
Accept(a) ==
  /\ open
  /\ log' = Append(log, a)
  /\ told' \in {told, told \cup {<<Len(log) + 1, a>>}}
  /\ UNCHANGED <<open, graded>>

\* An answer that was accepted before is acknowledged again.
Repeat(v) ==
  /\ open
  /\ told' = told \cup {<<v, log[v]>>}
  /\ UNCHANGED <<log, open, graded>>

\* Acknowledgements arrive, or are lost.
Forget ==
  /\ told' \subseteq told
  /\ UNCHANGED <<log, open, graded>>

Close ==
  /\ open
  /\ open' = FALSE
  /\ graded' = IF log = << >> THEN None ELSE log[Len(log)]
  /\ UNCHANGED <<log, told>>

CNext ==
  \/ \E a \in Answers : Accept(a)
  \/ \E v \in 1 .. Len(log) : Repeat(v)
  \/ Forget \/ Close

CSpec == CInit /\ [][CNext]_cvars
=============================================================================
