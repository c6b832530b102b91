--------------------------- MODULE MCRelayClient ----------------------------
(***************************************************************************)
(* Model-checking instance of RelayClient: two events with a command or a  *)
(* fault; an event with two commands, two faults or one of each; commands  *)
(* and faults; two telemetry frames with two faults, three with one, and   *)
(* one with two faults and a command.                                      *)
(***************************************************************************)
EXTENDS RelayClient

Mix(e, c, m, x) == [events |-> e, commands |-> c, frames |-> m, faults |-> x]

MCBudgets ==
    {Mix(2, 0, 0, 1), Mix(2, 1, 0, 0), Mix(1, 0, 0, 2), Mix(1, 1, 0, 1),
     Mix(1, 2, 0, 0), Mix(0, 2, 0, 1), Mix(0, 0, 0, 3),
     Mix(0, 0, 2, 2), Mix(0, 0, 3, 1), Mix(0, 1, 1, 2)}
=============================================================================
