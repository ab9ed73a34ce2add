SPECIFICATION Spec
CONSTANTS
  Conns = {c1, c2}
  Shas = {s1, s2}
  Targets = {t1}
  MaxRequests = 2
  None = None
SYMMETRY Symmetry
INVARIANTS ApprovalIsShaBound ApprovalIsOfTheRequest NoPushBehindAFailure GateIsDecidable OutcomeReported
PROPERTIES KeepsThePromise ImplementsTheHub
