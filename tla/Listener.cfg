SPECIFICATION FairSpec
CONSTANTS
  Conns = {c1, c2, c3}
  Results = {"result"}
  None = None
INVARIANTS SerialUnlessRereleased NoLateResult
PROPERTIES EventuallyFree RequestSettles
