SPECIFICATION FairSpec
CONSTANTS
  Node = {
    "te_root", "te_race", "te_test", "te_inner", "te_test2", "te_timer",
    "te_log",
    "wa_root", "wa_loop", "wa_race", "wa_event", "wa_steps", "wa_ack",
    "wa_timer", "wa_walk", "wa_shout",
    "rs_root", "rs_race", "rs_seq", "rs_wait", "rs_reset", "rs_timer",
    "rs_timer2"}
  Roots = {"te_root", "wa_root", "rs_root"}
  NoNode = NoNode
  Event = {"test", "test2"}
  NoEvent = NoEvent
  MaxEvents = 2
  Kind <- MCKind
  Children <- MCChildren
  Lineage <- Ancestry
  EventOf <- MCEventOf
  Weights <- MCWeights
  Outcomes <- MCOutcomes
  Raises <- MCRaises
CHECK_DEADLOCK FALSE
INVARIANTS
  CursorInRange
  ControlPath
  ControlQueued
  RaceSettled
  SteadyWhileIntact
PROPERTIES
  ImplementsConfiguration
  PollReturns
  EventsTaken
  ReadyVisited
