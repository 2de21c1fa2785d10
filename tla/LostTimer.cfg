SPECIFICATION Spec
CONSTANTS
  Agents = {"walker", "guard"}
  Waits = {"w_step", "w_limit", "w_guard"}
  Owner <- MCOwner
  Gone = Gone
  Gaps = {1, 2}
  MaxTime = 3
  MaxSeq <- MCMaxSeq
CHECK_DEADLOCK FALSE
INVARIANTS
  WaitsReturn
