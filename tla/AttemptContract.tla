--------------------------- MODULE AttemptContract ---------------------------
(***************************************************************************)
(* What an enrollment promises the candidate, without clocks, scanners,    *)
(* interruptions, locks or requests: one attempt at a time, as many as the *)
(* retake policy allows; what is written in it is handed in once and as it *)
(* stands; it is marked once; and the mark and the result of the           *)
(* enrollment change together.                                             *)
(*                                                                         *)
(* ExamRuntime is the platform that does this; it implements this module.  *)
(***************************************************************************)
EXTENDS Naturals

CONSTANTS
  None,
  AttemptNos,   \* the attempts of the enrollment, numbered from 1
  Scores,
  RetakePolicy, MaxAttempts, ScoreStrategy, PassingScore

VARIABLES
  stage,  \* attempt -> "unused", "open", "handed_in" or "marked"
  work,   \* attempt -> the answers written so far
  paper,  \* attempt -> the answers handed in, or None
  mark,   \* attempt -> its score, or None
  final,  \* the attempt whose mark is the result of the enrollment, or None
  over    \* whether the enrollment is completed

cvars == <<stage, work, paper, mark, final, over>>

CInit ==
  /\ stage = [n \in AttemptNos |-> "unused"]
  /\ work = [n \in AttemptNos |-> 0]
  /\ paper = [n \in AttemptNos |-> None]
  /\ mark = [n \in AttemptNos |-> None]
  /\ final = None
  /\ over = FALSE

\* The retake policy allows an attempt number n.
Allowed(n) ==
  /\ RetakePolicy = "max_attempts" => n <= MaxAttempts
  /\ RetakePolicy = "pass_then_stop" =>
       \A m \in AttemptNos : stage[m] = "marked" => mark[m] < PassingScore

\* The next attempt is opened, with a blank paper.
Begin(n) ==
  /\ ~over
  /\ stage[n] = "unused"
  /\ \A m \in AttemptNos : m < n => stage[m] \in {"handed_in", "marked"}
  /\ Allowed(n)
  /\ stage' = [stage EXCEPT ![n] = "open"]
  /\ work' = [work EXCEPT ![n] = 0]
  /\ mark' = [mark EXCEPT ![n] = None]
  /\ UNCHANGED <<paper, final, over>>

Write(n) ==
  /\ stage[n] = "open"
  /\ work' = [work EXCEPT ![n] = @ + 1]
  /\ UNCHANGED <<stage, paper, mark, final, over>>

HandIn(n) ==
  /\ stage[n] = "open"
  /\ stage' = [stage EXCEPT ![n] = "handed_in"]
  /\ paper' = [paper EXCEPT ![n] = work[n]]
  /\ UNCHANGED <<work, mark, final, over>>

\* The result of the enrollment after attempt n is marked.
ResultAfter(n, score) ==
  IF \/ final = None
     \/ ScoreStrategy = "latest"
     \/ ScoreStrategy = "highest" /\ score > mark[final]
    THEN n ELSE final

\* An attempt that was handed in is marked; one without manual questions is
\* handed in and marked in one step.
Mark(n, score) ==
  /\ stage[n] \in {"open", "handed_in"}
  /\ stage' = [stage EXCEPT ![n] = "marked"]
  /\ paper' = IF stage[n] = "open" THEN [paper EXCEPT ![n] = work[n]] ELSE paper
  /\ mark' = [mark EXCEPT ![n] = score]
  /\ final' = ResultAfter(n, score)
  /\ over' \in {over, TRUE}
  /\ UNCHANGED work

CNext ==
  \E n \in AttemptNos :
    \/ Begin(n) \/ Write(n) \/ HandIn(n)
    \/ \E score \in Scores : Mark(n, score)

CSpec == CInit /\ [][CNext]_cvars
=============================================================================
