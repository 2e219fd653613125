SPECIFICATION Spec
CONSTANTS
  s1 = s1
  s2 = s2
  c1 = c1
  c2 = c2
  d1 = d1
  Subject <- MCSubject
  Login <- MCLogin
  Operator <- MCOperator
  MaxUser = 3
CONSTRAINT Bounded
SYMMETRY Symmetric
PROPERTY ContextIsActive
CHECK_DEADLOCK FALSE
