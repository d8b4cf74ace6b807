CONSTANTS
  Verifiers = {v1, v2}
  Jobs <- MCJobs
  SubScripts <- MCSubScripts
  Tx <- MCTx
  Heap <- MCHeap
  Signed <- MCSigned
  MaxEntries = 2
  OnCurve = {75}
SPECIFICATION Spec
INVARIANTS
  CacheSound
  VerdictSound
  VerifyCorrect
