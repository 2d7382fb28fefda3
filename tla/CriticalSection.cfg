SPECIFICATION FairSpec
CONSTANTS
  Threads = {a, b, c}
  Nobody = Nobody
INVARIANTS MutualExclusion NoFalseReentry
PROPERTIES ImplementsMutex SomeoneEnters
