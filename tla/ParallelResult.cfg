SPECIFICATION Spec
CONSTANTS
  Node = {
    "te_root", "te_race", "te_test", "te_inner", "te_test2", "te_timer",
    "te_log"}
  Roots = {"te_root"}
  NoNode = NoNode
  Event = {"test", "test2"}
  NoEvent = NoEvent
  MaxEvents = 2
  Kind <- MCKind
  Children <- MCChildren
  Lineage <- Ancestry
  EventOf <- MCEventOf
  Weights <- MCWeights
  Outcomes <- MCOutcomes
  Raises <- MCRaises
CHECK_DEADLOCK FALSE
INVARIANTS
  ParallelReturnsTrue
