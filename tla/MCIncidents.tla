------------------------------ MODULE MCIncidents ------------------------------
(* A few commands that meet in their operation id, their version or their link. *)
EXTENDS Incidents

CONSTANTS a1, a2, a3, k1, k2, e1, g1, g2, o1, o2, o3, low, high

MCAttemptOf == [x \in {e1, g1, g2} |-> IF x = g2 THEN a2 ELSE a1]

MCCandidateOf == [a \in {a1, a2, a3} |-> IF a = a3 THEN k2 ELSE k1]

Cmd(kind, op, incident, arg, expectedVersion) ==
  [kind |-> kind, op |-> op, incident |-> incident, arg |-> arg,
   expectedVersion |-> expectedVersion]

RacingCommands ==
  {Cmd("create", o1, None, k1, 0),
   Cmd("resolve", o2, 1, None, 1), Cmd("severity", o3, 1, high, 1),
   Cmd("dismiss", o1, 1, None, 2),
   Cmd("link_action", o2, 1, g1, 0), Cmd("link_action", o3, 2, g1, 0),
   Cmd("link_action", o1, 1, g2, 0),
   Cmd("link_attempt", o2, 1, a3, 0), Cmd("link_attempt", e1, 1, a2, 0),
   Cmd("link_interruption", o2, 1, e1, 0)}
================================================================================
