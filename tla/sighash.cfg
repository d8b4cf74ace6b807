CONSTANTS
  NIn = 3
  NOut = 2
  Scripts <- MCScripts
  HashTypes = {0, 1, 2, 3, 4, 35, 129, 130, 131}
  SigScripts <- MCSigScripts
  OnCurve = {75}
SPECIFICATION Spec
INVARIANTS
  SighashOfOriginal
PROPERTIES
  TxIntact
  SighashRefines
