SPECIFICATION FairSpec
CONSTANTS
  MaxLines = 3
  Context = Context
  None = None
INVARIANTS NothingSaidIsLost LineIsForItsQuestion
PROPERTIES EndsWhenTold GateIsAnswered
CHECK_DEADLOCK FALSE
