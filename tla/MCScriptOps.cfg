CONSTANTS
  RedeemScripts <- MCRedeemScripts
  RedeemBody <- MCRedeemBody
  HashOf <- MCHashOf
  SigScripts <- MCSigScripts
  PkScripts <- MCPkScripts
  FlagSets <- MCFlagSets
  MaxStackSize <- MCMaxStackSize
  MaxScriptSize <- MCMaxScriptSize
SPECIFICATION Spec
INVARIANT
  ScriptOpsBounded
CHECK_DEADLOCK FALSE
