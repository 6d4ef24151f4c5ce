\* Two operators, four requests, one of them lost: a failure, a race and a retry.
CONSTANTS
  Operators = {ann, bob}
  Bodies = {"apology", "refund"}
  MaxRequests = 4
  MaxLost = 1
SYMMETRY Symmetry
SPECIFICATION Spec
CHECK_DEADLOCK FALSE
INVARIANT TypeOK
INVARIANT SendsAccounted
INVARIANT NoNumberSkipped
INVARIANT NumbersCount
PROPERTY RetrySendsWhatIsOffered
PROPERTY ClosedUnlessMoved
