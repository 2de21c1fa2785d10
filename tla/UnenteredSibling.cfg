SPECIFICATION Spec
CONSTANTS
  Node = {
    "ea_root", "ea_race", "ea_wrap", "ea_any", "ea_wait", "ea_wait2",
    "ea_now", "ea_also"}
  Roots = {"ea_root"}
  NoNode = NoNode
  Event = {"test", "test2"}
  NoEvent = NoEvent
  MaxEvents = 2
  Kind <- MCKind
  Children <- MCChildren
  Lineage <- Ancestry
  EventOf <- MCEventOf
  Weights <- MCWeights
  Outcomes <- MCOutcomes
  Raises <- MCRaises
CHECK_DEADLOCK FALSE
PROPERTIES
  ParallelInterrupts
