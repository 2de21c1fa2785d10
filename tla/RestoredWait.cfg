SPECIFICATION PersistenceSpec
CONSTANTS
  Node = {"r_root","r_race","r_any","r_hear","r_step","r_wait","s_root","s_seq","s_fill","s_pick","s_add","s_wait","s_again"}
  Roots = {"r_root","s_root"}
  NoNode = NoNode
  Event = {"test"}
  NoEvent = NoEvent
  MaxEvents = 1
  Kind <- MCKind
  Children <- MCChildren
  Lineage <- Ancestry
  EventOf <- MCEventOf
  Weights <- MCWeights
  Outcomes <- MCOutcomes
  Raises <- MCRaises
  MaxInt = 2
  Waits = {"r_wait","s_wait"}
  Request <- MCRequest
  NoKey = NoKey
  Told <- MCTold
  Gone = Gone
  MaxSeq = 2
  MaxCallbacks = 2
CHECK_DEADLOCK FALSE
PROPERTIES
  WaitsRestored
