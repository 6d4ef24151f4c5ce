\* Three callers, so that two old calls can overtake a probe.
CONSTANTS
  Callers = {one, two, three}
  Threshold = 2
  Recovery = 3
  MaxLag = 2
  MaxCount = 3
SPECIFICATION FairSpec
INVARIANT TypeOK
INVARIANT CountMatchesState
INVARIANT HalfOpenIsProbing
PROPERTY QuietPeriod
PROPERTY EventuallyProbed
