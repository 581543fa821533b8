-------------------------- MODULE MCCommandReceipts --------------------------
(* A few commands that meet in their operation id or their attempt. *)
EXTENDS CommandReceipts

CONSTANTS a1, a2, o1, o2

Cmd(kind, op, attempt, payload, at) ==
  [kind |-> kind, op |-> op, attempt |-> attempt, payload |-> payload, at |-> at]

\* One operation id for two attempts and three kinds; two grants for one attempt
\* that together exceed what the exam's close allows.
RacingCommands ==
  {Cmd("force_submit", o1, a1, 1, 1), Cmd("misconduct_mark", o1, a2, 1, 1),
   Cmd("time_grant", o1, a1, 1, 1), Cmd("time_grant", o2, a1, 2, 1)}
=============================================================================
