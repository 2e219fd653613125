SPECIFICATION Spec
CONSTANTS
  p1 = p1
  p2 = p2
  p3 = p3
  None = None
  Process <- MCProcess
  Latest <- MCLatest
  Statements <- MCStatements
  Fresh <- MCFresh
  Found = {0, 1, 2, 3, 4, 5, 6}
  Additional = 2
SYMMETRY Symmetric
INVARIANTS
  StampTellsShape
  NoStatementFails
