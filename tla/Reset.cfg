SPECIFICATION FairSpec
CONSTANTS
  Node = {
    "rs_root", "rs_race", "rs_seq", "rs_wait", "rs_reset", "rs_timer",
    "rs_timer2"}
  Roots = {"rs_root"}
  NoNode = NoNode
  Event = {"test", "test2"}
  NoEvent = NoEvent
  MaxEvents = 2
  Kind <- MCKind
  Children <- MCChildren
  Lineage <- Ancestry
  EventOf <- MCEventOf
  Weights <- MCWeights
  Outcomes <- MCOutcomes
  Raises <- MCRaises
CHECK_DEADLOCK FALSE
PROPERTIES
  ResetRestarts
