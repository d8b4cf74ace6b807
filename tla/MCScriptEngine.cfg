CONSTANTS
  RedeemScripts <- MCRedeemScripts
  RedeemBody <- MCRedeemBody
  HashOf <- MCHashOf
  SigScripts <- MCSigScripts
  PkScripts <- MCPkScripts
  FlagSets <- MCFlagSets
  MaxStackSize <- MCMaxStackSize
  MaxScriptSize <- MCMaxScriptSize
SPECIFICATION Spec
INVARIANTS
  TypeOK
  RedeemCommitted
  NoPanic
PROPERTIES
  Terminates
  ExecuteAdvances
  EngineImplementsVerify
CHECK_DEADLOCK FALSE
