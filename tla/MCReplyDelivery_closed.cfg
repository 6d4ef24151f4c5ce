\* The status race on its own: three requests and no loss.
CONSTANTS
  Operators = {ann, bob}
  Bodies = {"apology", "refund"}
  MaxRequests = 3
  MaxLost = 0
SYMMETRY Symmetry
SPECIFICATION Spec
CHECK_DEADLOCK FALSE
PROPERTY ClosedAsReported
