SPECIFICATION Spec
CONSTANTS
  Node = {
    "pa_root", "pa_state", "pa_chase", "pa_rest", "pa_sight", "pa_move",
    "pa_look", "pa_wait",
    "gu_root", "gu_all", "gu_loop", "gu_choose", "gu_sure", "gu_wait",
    "gu_alarm", "gu_enemy", "gu_fight", "gu_flee",
    "ch_root", "ch_any", "ch_dice", "ch_sub", "ch_sub_root", "ch_wait",
    "ch_yes", "ch_never", "ch_maybe", "ch_sub_act",
    "re_root", "re_outer", "re_inner", "re_event", "re_not", "re_not2",
    "re_now", "re_shout",
    "ea_root", "ea_race", "ea_wrap", "ea_any", "ea_wait", "ea_wait2", "ea_now",
    "ea_also",
    "b1_root", "b1_if", "b1_then", "b1_cond",
    "b2_root", "b2_race", "b2_wait", "b2_late", "b2_bad",
    "b3_root", "b3_seq", "b3_wait", "b3_dice", "b3_one", "b3_two",
    "b4_root", "b4_dice", "b4_one",
    "b5_root", "b5_none",
    "b6_root", "b6_race", "b6_any", "b6_wait", "b6_sub",
    "b7_root", "b7_race", "b7_wrap", "b7_any", "b7_wait", "b7_deep", "b7_bad"}
  Roots = {
    "pa_root", "gu_root", "ch_root", "re_root", "ea_root", "b1_root",
    "b2_root", "b3_root", "b4_root", "b5_root", "b6_root", "b7_root"}
  NoNode = NoNode
  Event = {"test", "test2"}
  NoEvent = NoEvent
  MaxEvents = 2
  Kind <- MCKind
  Children <- MCChildren
  Lineage <- Ancestry
  EventOf <- MCEventOf
  Weights <- MCWeights
  Outcomes <- MCOutcomes
  Raises <- MCRaises
CHECK_DEADLOCK FALSE
INVARIANTS
  TypeOK
  CursorInRange
  ControlPath
  ControlQueued
  RunSemantics
  RunsSoFar
  RaceSettled
  FrontsDistinct
PROPERTIES
  ImplementsConfiguration
  PollSettles
