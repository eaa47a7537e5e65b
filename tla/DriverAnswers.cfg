CONSTANTS
  t1 = t1
  t2 = t2
  NoOptions = NoOptions
  Alphabet <- MCAlphabet
  Statements <- MCStatements
  Table <- MCTable
  Options <- MCOptions
  MaxText = 5
  MaxRows = 5
  MaxOthers = 2
SPECIFICATION Spec
INVARIANTS
  TypeOK
  ScannerReadsCode
  GuardsHold
  AnswersAreTrue
  SchemasAreWhole
CHECK_DEADLOCK FALSE
