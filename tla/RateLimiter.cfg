\* Three threads, a lag of a third of the window.
CONSTANTS
  Threads = {one, two, three}
  Limit = 2
  Window = 3
  MaxLag = 1
SPECIFICATION Spec
INVARIANT TypeOK
INVARIANT LimitHolds
PROPERTY RefusedForAReason
