SPECIFICATION Spec
CONSTANTS
  Flows = {f1, f2, f3, f4}
  Kinds = {"callback", "refresh", "sync", "mock", "page"}
SYMMETRY FlowSymmetry
INVARIANTS TypeOK RefreshTokenUsable  HealthyAfterSync
CHECK_DEADLOCK FALSE
