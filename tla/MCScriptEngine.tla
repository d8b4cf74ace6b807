--------------------------- MODULE MCScriptEngine ---------------------------
(***************************************************************************)
(* Model-checking instance of ScriptEngine.  Every signature script of up  *)
(* to two tokens over SigTokens is run against a set of public key scripts *)
(* that covers bare scripts and a P2SH commitment to each redeem value.    *)
(***************************************************************************)
EXTENDS ScriptEngine, FiniteSets, TLC

(* Two redeem scripts: one that succeeds, one with an unbalanced OP_IF.    *)
MCRedeemScripts == {"R1", "R2"}
MCRedeemBody == ("R1" :> << Tok("OP_1") >>) @@ ("R2" :> << Tok("OP_1"), Tok("OP_IF") >>)

(* Distinct digests, named after their preimages.                          *)
MCHashOf == [x \in {"F", "T", "BIG"} \cup MCRedeemScripts |-> "H_" \o x]

SigTokens ==
  { Tok("OP_0"), Tok("OP_1"), Push("OP_DATA", "T"), Push("OP_PUSHDATA2", "BIG"),
    Tok("OP_IF"), Tok("OP_ELSE"), Tok("OP_ENDIF"), Tok("OP_TOALTSTACK"),
    Tok("OP_FROMALTSTACK"), Tok("OP_HASH160"), Tok("OP_CAT"), Tok("OP_VERIF"),
    Tok("OP_BAD") }
  \cup { Push("OP_DATA", r) : r \in MCRedeemScripts }
  \cup { Push("OP_PUSHDATA1", r) : r \in MCRedeemScripts }

MCSigScripts == UNION { [1..n -> SigTokens] : n \in 0..2 }
                \cup { << Tok("OP_0"), Tok("OP_IF"), Tok("OP_ELSE") >>,
                       << Tok("OP_1"), Tok("OP_TOALTSTACK"), Tok("OP_0"), Tok("OP_0"),
                          Tok("OP_FROMALTSTACK") >>,
                       << Tok("OP_0"), Tok("OP_IF"), Tok("OP_CAT"), Tok("OP_ENDIF") >> }

P2SH(x) == << Tok("OP_HASH160"), Push("OP_DATA", Hash(x)), Tok("OP_EQUAL") >>

MCPkScripts ==
  { << >>, << Tok("OP_1") >>, << Tok("OP_ENDIF") >>, << Tok("OP_FROMALTSTACK") >>,
    << Tok("OP_IF"), Tok("OP_1"), Tok("OP_ENDIF") >>,
    << Tok("OP_NOTIF"), Tok("OP_1"), Tok("OP_ELSE"), Tok("OP_0"), Tok("OP_ENDIF") >> }
  \cup { P2SH(x) : x \in {"F", "T"} \cup MCRedeemScripts }

MCFlagSets == { {}, {"Bip16"}, {"Bip16", "CleanStack"}, {"Bip16", "MinimalData"},
                {"SigPushOnly"} }

MCMaxStackSize == 2
MCMaxScriptSize == 5

(* The refinement: the engine's outcome is the reference verdict.          *)
VerdictOfEngine == CASE status = "valid"   -> "valid"
                     [] status = "invalid" -> "invalid"
                     [] OTHER              -> "pending"

Ref == INSTANCE ScriptVerify
         WITH sigScript <- scripts[1], pkScript <- scripts[2], vflags <- flags,
              verdict <- VerdictOfEngine

(* Execute agrees with the reference VerifyScript on every input: a valid  *)
(* verdict exactly when the reference accepts, reached in one step or at   *)
(* NewEngine.                                                              *)
EngineImplementsVerify == Ref!VSpec

(* The limit of spec.md section 4.3 (201 non-push opcodes per script),     *)
(* scaled to the scripts of this model.                                    *)
MaxOpsPerScript == 1

NonPushOps(s) == Cardinality({i \in 1..Len(s) : s[i].op \notin PushOpNames \cup {"OP_1"}})

(* The specification bounds the number of non-push opcodes of a script:    *)
(* no engine whose scripts exceed it ends valid.  executeOpcode never      *)
(* counts them (numOps is only reset, in Step), so this fails.            *)
ScriptOpsBounded ==
  status = "valid" => \A i \in 1..Len(scripts) : NonPushOps(scripts[i]) <= MaxOpsPerScript
=============================================================================
