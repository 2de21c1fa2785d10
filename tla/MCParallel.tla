----------------------------- MODULE MCParallel -----------------------------
(***************************************************************************)
(* Trees in which branches race, and that block in every cycle.            *)
(*   te  data/btree/test_event.json: a timer against two events, one of    *)
(*       them in a nested parallel;                                        *)
(*   wa  a race inside a loop, so that interrupted nodes are entered       *)
(*       again, with an action that dispatches the event a sibling waits   *)
(*       for;                                                              *)
(*   rs  a sequence that ends in a reset, between two asynchronous actions.*)
(***************************************************************************)
EXTENDS Forest

KindTable == Attribute([
  te_root |-> "root", te_race |-> "parallel", te_test |-> "wait_event",
  te_inner |-> "parallel", te_test2 |-> "wait_event",
  wa_root |-> "root", wa_loop |-> "while_loop", wa_race |-> "parallel",
  wa_event |-> "wait_event", wa_steps |-> "sequence",
  rs_root |-> "root", rs_race |-> "parallel", rs_seq |-> "sequence",
  rs_wait |-> "wait_event", rs_reset |-> "reset"], "action")

ChildrenTable == Attribute([
  te_root |-> <<"te_race">>, te_race |-> <<"te_timer", "te_test", "te_inner">>,
  te_inner |-> <<"te_test2", "te_log">>,
  wa_root |-> <<"wa_loop">>, wa_loop |-> <<"wa_race", "wa_ack">>,
  wa_race |-> <<"wa_event", "wa_steps", "wa_timer">>,
  wa_steps |-> <<"wa_walk", "wa_shout">>,
  rs_root |-> <<"rs_race">>, rs_race |-> <<"rs_timer", "rs_seq", "rs_timer2">>,
  rs_seq |-> <<"rs_wait", "rs_reset">>], <<>>)

EventOfTable == Attribute([
  te_test |-> "test", te_test2 |-> "test2", wa_event |-> "test",
  rs_wait |-> "test"], NoEvent)

WeightsTable == [n \in Node |-> <<>>]

OutcomesTable == Attribute([
  te_timer |-> Async, te_log |-> Async, wa_walk |-> Async,
  wa_shout |-> {"pending", "true"}, wa_timer |-> Async, wa_ack |-> Sync,
  rs_timer |-> Async, rs_timer2 |-> Async], {})

RaisesTable == Attribute([wa_shout |-> {"test"}], {})

\* What the configurations substitute for the constants.  TLC evaluates these at
\* every use, and the tables once.
MCKind == KindTable

MCChildren == ChildrenTable

MCEventOf == EventOfTable

MCWeights == WeightsTable

MCOutcomes == OutcomesTable

MCRaises == RaisesTable
=============================================================================
