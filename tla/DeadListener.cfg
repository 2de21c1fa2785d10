SPECIFICATION Spec
CONSTANTS
  Node = {
    "re_root", "re_outer", "re_inner", "re_event", "re_not", "re_not2",
    "re_now", "re_shout"}
  Roots = {"re_root"}
  NoNode = NoNode
  Event = {"test", "test2"}
  NoEvent = NoEvent
  MaxEvents = 2
  Kind <- MCKind
  Children <- MCChildren
  Lineage <- Ancestry
  EventOf <- MCEventOf
  Weights <- MCWeights
  Outcomes <- MCOutcomes
  Raises <- MCRaises
CHECK_DEADLOCK FALSE
PROPERTIES
  EventKeepsRunning
