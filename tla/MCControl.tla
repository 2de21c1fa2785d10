----------------------------- MODULE MCControl -----------------------------
(***************************************************************************)
(* Composites, races and configuration errors.  Composites that run one    *)
(* child at a time:                                                        *)
(*   pa  a patrol: a select over a sequence and a decorated action;        *)
(*   gu  a guard: a loop around a choice, in a sequence that always goes   *)
(*       on;                                                               *)
(*   ch  chance: a shuffled sequence over a weighted choice and a sub tree.*)
(* Races that may be decided in the pass that starts them:                 *)
(*   re  two nested races, and an action that dispatches in the pass in    *)
(*       which the inner race ends;                                        *)
(*   ea  a shuffled sequence whose siblings may both answer before it is   *)
(*       entered.                                                          *)
(* A configuration error, which the runtime meets only when the node at    *)
(* fault is entered:                                                       *)
(*   b1  an if_else with two children;                                     *)
(*   b2  an action that is unknown or unusable, and a wait_event without   *)
(*       an event, in a race;                                              *)
(*   b3  a probility whose weights do not match its children;              *)
(*   b4  a probility with no weight above zero;                            *)
(*   b5  a random_seq without children;                                    *)
(*   b6  a sub_tree that cannot be loaded, beside a random_seq that has    *)
(*       not been entered yet;                                             *)
(*   b7  a second parallel layer under which an action is unknown.         *)
(***************************************************************************)
EXTENDS Forest

KindTable == Attribute([
  pa_root |-> "root", pa_state |-> "select", pa_chase |-> "sequence",
  pa_rest |-> "negative",
  gu_root |-> "root", gu_all |-> "always_seq", gu_loop |-> "while_loop",
  gu_choose |-> "if_else", gu_sure |-> "always_true", gu_wait |-> "wait_event",
  ch_root |-> "root", ch_any |-> "random_seq", ch_dice |-> "probility",
  ch_sub |-> "sub_tree", ch_sub_root |-> "root",
  re_root |-> "root", re_outer |-> "parallel", re_inner |-> "parallel",
  re_event |-> "wait_event", re_not |-> "negative", re_not2 |-> "negative",
  ea_root |-> "root", ea_race |-> "parallel", ea_wrap |-> "always_true",
  ea_any |-> "random_seq", ea_wait |-> "wait_event", ea_wait2 |-> "wait_event",
  b1_root |-> "root", b1_if |-> "if_else", b1_then |-> "wait_event",
  b2_root |-> "root", b2_race |-> "parallel", b2_wait |-> "wait_event",
  b2_late |-> "wait_event",
  b3_root |-> "root", b3_seq |-> "sequence", b3_wait |-> "wait_event",
  b3_dice |-> "probility", b3_one |-> "wait_event", b3_two |-> "wait_event",
  b4_root |-> "root", b4_dice |-> "probility", b4_one |-> "wait_event",
  b5_root |-> "root", b5_none |-> "random_seq",
  b6_root |-> "root", b6_race |-> "parallel", b6_any |-> "random_seq",
  b6_wait |-> "wait_event", b6_sub |-> "sub_tree",
  b7_root |-> "root", b7_race |-> "parallel", b7_wrap |-> "negative",
  b7_any |-> "random_seq", b7_wait |-> "wait_event", b7_deep |-> "negative"],
  "action")

ChildrenTable == Attribute([
  pa_root |-> <<"pa_state">>, pa_state |-> <<"pa_chase", "pa_rest">>,
  pa_chase |-> <<"pa_sight", "pa_move", "pa_look">>, pa_rest |-> <<"pa_wait">>,
  gu_root |-> <<"gu_all">>, gu_all |-> <<"gu_loop", "gu_wait">>,
  gu_loop |-> <<"gu_alarm", "gu_choose">>,
  gu_choose |-> <<"gu_enemy", "gu_fight", "gu_sure">>,
  gu_sure |-> <<"gu_flee">>,
  ch_root |-> <<"ch_any">>, ch_any |-> <<"ch_dice", "ch_wait", "ch_sub">>,
  ch_dice |-> <<"ch_yes", "ch_never", "ch_maybe">>,
  ch_sub |-> <<"ch_sub_root">>, ch_sub_root |-> <<"ch_sub_act">>,
  re_root |-> <<"re_outer">>, re_outer |-> <<"re_inner", "re_not">>,
  re_inner |-> <<"re_event", "re_now">>, re_not |-> <<"re_not2">>,
  re_not2 |-> <<"re_shout">>,
  ea_root |-> <<"ea_race">>, ea_race |-> <<"ea_now", "ea_wrap", "ea_also">>,
  ea_wrap |-> <<"ea_any">>, ea_any |-> <<"ea_wait", "ea_wait2">>,
  b1_root |-> <<"b1_if">>, b1_if |-> <<"b1_cond", "b1_then">>,
  b2_root |-> <<"b2_race">>, b2_race |-> <<"b2_wait", "b2_bad", "b2_late">>,
  b3_root |-> <<"b3_seq">>, b3_seq |-> <<"b3_wait", "b3_dice">>,
  b3_dice |-> <<"b3_one", "b3_two">>,
  b4_root |-> <<"b4_dice">>, b4_dice |-> <<"b4_one">>,
  b5_root |-> <<"b5_none">>,
  b6_root |-> <<"b6_race">>, b6_race |-> <<"b6_sub", "b6_any">>,
  b6_any |-> <<"b6_wait">>,
  b7_root |-> <<"b7_race">>, b7_race |-> <<"b7_wrap", "b7_deep">>,
  b7_wrap |-> <<"b7_any">>, b7_any |-> <<"b7_wait">>, b7_deep |-> <<"b7_bad">>],
  <<>>)

EventOfTable == Attribute([
  gu_wait |-> "test", re_event |-> "test", ea_wait |-> "test",
  ea_wait2 |-> "test2", b1_then |-> "test", b2_wait |-> "test",
  b3_wait |-> "test", b3_one |-> "test", b3_two |-> "test", b4_one |-> "test",
  b6_wait |-> "test", b7_wait |-> "test"], NoEvent)

WeightsTable == Attribute([
  ch_dice |-> <<1, 0, 2>>, b3_dice |-> <<1>>, b4_dice |-> <<0>>], <<>>)

OutcomesTable == Attribute([
  pa_sight |-> Sync, pa_move |-> Async, pa_look |-> Sync, pa_wait |-> Async,
  gu_alarm |-> Async, gu_enemy |-> Sync, gu_fight |-> Sync, gu_flee |-> Sync,
  ch_yes |-> {"true"}, ch_never |-> {"true"}, ch_maybe |-> Sync,
  ch_wait |-> Async, ch_sub_act |-> Sync, re_now |-> {"pending", "true"},
  re_shout |-> {"true"}, ea_now |-> {"pending", "true"},
  ea_also |-> {"pending", "false"}, b1_cond |-> Sync,
  b2_bad |-> {"unknown", "invalid", "pending"},
  b7_bad |-> {"unknown", "invalid"}], {})

RaisesTable == Attribute([re_shout |-> {"test"}], {})

\* What the configurations substitute for the constants.  TLC evaluates these at
\* every use, and the tables once.
MCKind == KindTable

MCChildren == ChildrenTable

MCEventOf == EventOfTable

MCWeights == WeightsTable

MCOutcomes == OutcomesTable

MCRaises == RaisesTable
=============================================================================
