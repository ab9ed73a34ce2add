SPECIFICATION FairSpec
CONSTANTS
  Conns = {c1, c2}
  Shas = {s1, s2}
  Targets = {t1}
  MaxRequests = 1
  None = None
PROPERTIES RequestEnds
