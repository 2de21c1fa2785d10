------------------------------ MODULE MCTimers ------------------------------
(***************************************************************************)
(* Two agents of one process: walker has two waits, as under a parallel,   *)
(* and guard has one.                                                      *)
(***************************************************************************)
EXTENDS Timers

MCOwner == [n \in Waits |-> IF n = "w_guard" THEN "guard" ELSE "walker"]

MCMaxSeq == [a \in Agents |-> IF a = "guard" THEN 1 ELSE 2]
=============================================================================
