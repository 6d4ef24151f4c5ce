SPECIFICATION Spec
CONSTANTS
  DemoMalls = {"alpha"}
  LiveMalls = {"shop"}
  Scripts = {s1, s2}
  Requests = {"agent", "admin"}
  Kinds <- RequestKinds
  Production = FALSE
  MaxClaims = 2
SYMMETRY ScriptSymmetry
INVARIANTS TypeOK ErasedLeaveNoRows
PROPERTIES ErasedRightfully EraseAllOrNothing
CHECK_DEADLOCK FALSE
