CONSTANTS
  MaxKeys = 2
  MutBytes = {0, 2, 4, 20, 81, 106, 172, 174}
  OnCurve = {75}
SPECIFICATION Spec
INVARIANTS
  ClassifierAgrees
  PayToAddrRoundTrip
  MultiSigRoundTrip
  P2SHScriptInfo
  PackagesAgree
  PkScriptRoundTrip
