---------------------------- MODULE ScriptEngine ----------------------------
(***************************************************************************)
(* The script virtual machine of thoughtd/txscript (src/unnamed/part_003): *)
(* NewEngine builds an engine for a signature script and a public key      *)
(* script, Execute calls Step until it reports done and then checks the    *)
(* final stack with CheckErrorCondition.  Step executes one opcode and, at *)
(* the end of a script, moves to the next one; with BIP16 (P2SH) the       *)
(* engine saves the stack left by the signature script and, once the       *)
(* public key script has checked the hash, runs the redeem script taken    *)
(* from that saved stack.                                                  *)
(*                                                                         *)
(* One behaviour is one call of NewEngine followed by one call of Execute. *)
(* Not modelled: the transaction and input index (only the signature       *)
(* script of the input matters here), numOps (never incremented by the     *)
(* code modelled here), lastCodeSep (no OP_CODESEPARATOR in the alphabet), *)
(* script versions other than 0 (NewEngine always builds version 0).       *)
(***************************************************************************)
EXTENDS Script

CONSTANTS
  SigScripts,     \* signature scripts NewEngine may be given
  PkScripts,      \* public key scripts NewEngine may be given
  FlagSets,       \* flag combinations NewEngine may be given
  MaxStackSize,   \* combined depth of the data and alt stacks
  MaxScriptSize   \* longest script NewEngine accepts (in tokens)

ASSUME EngineAssumption ==
  /\ SigScripts \subseteq Seq(Token)
  /\ PkScripts \subseteq Seq(Token)
  /\ FlagSets \subseteq SUBSET Flags
  /\ MaxStackSize \in Nat
  /\ MaxScriptSize \in Nat

VARIABLES
  scripts,          \* the scripts executed in order: sig, pk (, redeem)
  scriptIdx,        \* index (from 0) of the script being executed
  pc,               \* tokens of the current script consumed by the tokenizer
  opcodeIdx,        \* opcode number within the current script
  dstack,           \* data stack (top is the last element)
  astack,           \* alternate stack
  condStack,        \* conditional execution stack
  savedFirstStack,  \* stack after the signature script (BIP16)
  bip16,            \* the public key script is P2SH and Bip16 is set
  flags,            \* the ScriptFlags of the engine
  status,           \* "running", "finishing" (Step reported done),
                    \* "valid", "invalid" or "panic"
  err               \* the error kind returned, or "none"

vars == <<scripts, scriptIdx, pc, opcodeIdx, dstack, astack, condStack,
          savedFirstStack, bip16, flags, status, err>>

Statuses == {"running", "finishing", "valid", "invalid", "panic"}
Errors == {"none", "ErrEvalFalse", "ErrNotPushOnly", "ErrScriptTooBig",
           "ErrMalformedPush", "ErrDisabledOpcode", "ErrReservedOpcode",
           "ErrElementTooBig", "ErrMinimalData", "ErrInvalidStackOperation",
           "ErrUnbalancedConditional", "ErrStackOverflow", "ErrEmptyStack",
           "ErrCleanStack"}

Top(s) == s[Len(s)]
Pop(s) == SubSeq(s, 1, Len(s) - 1)

hasFlag(f) == f \in flags

(* isBranchExecuting: no conditional, or the innermost one is true.        *)
isBranchExecuting == condStack = << >> \/ Top(condStack) = OpCondTrue

(* The outcome of an opcode: an error, or the three stacks after it.       *)
Ok(d, a, c) == [err |-> "none", dstack |-> d, astack |-> a, condStack |-> c]
Fail(e) == [err |-> e, dstack |-> dstack, astack |-> astack, condStack |-> condStack]

(* The opcode handlers (opcodeIf, opcodeElse, ..., opcodeEqual) for the    *)
(* opcodes of the alphabet, run in an executing branch or, for the         *)
(* conditionals, in any branch.                                            *)
Opfunc(t) ==
  CASE t.op \in PushOpNames \cup {"OP_1"} ->
         Ok(Append(dstack, PushValue(t)), astack, condStack)
    [] t.op \in {"OP_IF", "OP_NOTIF"} ->
         IF ~isBranchExecuting
           THEN Ok(dstack, astack, Append(condStack, OpCondSkip))
         ELSE IF dstack = << >> THEN Fail("ErrInvalidStackOperation")
         ELSE Ok(Pop(dstack), astack,
                 Append(condStack, IF AsBool(Top(dstack)) = (t.op = "OP_IF")
                                     THEN OpCondTrue ELSE OpCondFalse))
    [] t.op = "OP_ELSE" ->
         IF condStack = << >> THEN Fail("ErrUnbalancedConditional")
         ELSE Ok(dstack, astack,
                 [condStack EXCEPT ![Len(condStack)] =
                    IF @ = OpCondTrue THEN OpCondFalse
                    ELSE IF @ = OpCondFalse THEN OpCondTrue ELSE @])
    [] t.op = "OP_ENDIF" ->
         IF condStack = << >> THEN Fail("ErrUnbalancedConditional")
         ELSE Ok(dstack, astack, Pop(condStack))
    [] t.op = "OP_TOALTSTACK" ->
         IF dstack = << >> THEN Fail("ErrInvalidStackOperation")
         ELSE Ok(Pop(dstack), Append(astack, Top(dstack)), condStack)
    [] t.op = "OP_FROMALTSTACK" ->
         IF astack = << >> THEN Fail("ErrInvalidStackOperation")
         ELSE Ok(Append(dstack, Top(astack)), Pop(astack), condStack)
    [] t.op = "OP_HASH160" ->
         IF dstack = << >> THEN Fail("ErrInvalidStackOperation")
         ELSE Ok(Append(Pop(dstack), Hash(Top(dstack))), astack, condStack)
    [] t.op = "OP_EQUAL" ->
         IF Len(dstack) < 2 THEN Fail("ErrInvalidStackOperation")
         ELSE Ok(Append(Pop(Pop(dstack)),
                        IF Top(dstack) = Top(Pop(dstack)) THEN "T" ELSE "F"),
                 astack, condStack)
    [] OTHER -> Fail("ErrReservedOpcode")

ExecuteOpcodeSkipFirst(t) ==
  IF ~isBranchExecuting /\ ~isOpcodeConditional(t.op)
    THEN Ok(dstack, astack, condStack)
  ELSE IF isOpcodeDisabled(t.op) THEN Fail("ErrDisabledOpcode")
  ELSE IF isOpcodeAlwaysIllegal(t.op) THEN Fail("ErrReservedOpcode")
  ELSE IF ElementTooBig(t) THEN Fail("ErrElementTooBig")
  ELSE IF hasFlag("MinimalData") /\ isBranchExecuting /\ t.op \in PushOpNames
          /\ ~MinimalPush(t)
    THEN Fail("ErrMinimalData")
  ELSE Opfunc(t)

(* executeOpcode: the checks made on every opcode the program counter      *)
(* passes, in their order, then the handler.                               *)
ExecuteOpcode(t) ==
  IF isOpcodeDisabled(t.op) THEN Fail("ErrDisabledOpcode")
  ELSE IF isOpcodeAlwaysIllegal(t.op) THEN Fail("ErrReservedOpcode")
  ELSE IF ElementTooBig(t) THEN Fail("ErrElementTooBig")
  ELSE IF ~isBranchExecuting /\ ~isOpcodeConditional(t.op)
    THEN Ok(dstack, astack, condStack)
  ELSE IF hasFlag("MinimalData") /\ isBranchExecuting /\ t.op \in PushOpNames
          /\ ~MinimalPush(t)
    THEN Fail("ErrMinimalData")
  ELSE Opfunc(t)

(* CheckErrorCondition on the stack ds: the error it returns.  With        *)
(* finalScript and CleanStack the stack must hold exactly one value;       *)
(* otherwise it must not be empty, and its top must be true.               *)
CheckErrorCondition(ds, finalScript) ==
  IF finalScript /\ hasFlag("CleanStack") /\ Len(ds) # 1 THEN "ErrCleanStack"
  ELSE IF Len(ds) < 1 THEN "ErrEmptyStack"
  ELSE IF ~AsBool(Top(ds)) THEN "ErrEvalFalse"
  ELSE "none"

(* NewEngine's bip16 flag: Bip16 is set and the public key script is a    *)
(* pay-to-script-hash script.                                              *)
IsP2SHAnyScript(pk, fl) == "Bip16" \in fl
IsP2SH(pk, fl) == "Bip16" \in fl /\ IsScriptHashScript(pk)

(* The checks of NewEngine, in their order: the error it returns.          *)
NewEngineErr(sig, pk, fl) ==
  IF sig = << >> /\ pk = << >> THEN "ErrEvalFalse"
  ELSE IF "SigPushOnly" \in fl /\ ~IsPushOnlyScript(sig) THEN "ErrNotPushOnly"
  ELSE IF IsP2SH(pk, fl) /\ ~IsPushOnlyScript(sig)
    THEN "ErrNotPushOnly"
  ELSE IF Len(sig) > MaxScriptSize THEN "ErrScriptTooBig"
  ELSE IF ~Parses(sig) THEN "ErrMalformedPush"
  ELSE IF Len(pk) > MaxScriptSize THEN "ErrScriptTooBig"
  ELSE IF ~Parses(pk) THEN "ErrMalformedPush"
  ELSE "none"

(* NewEngine: the engine Execute starts from, or the error it returns.     *)
(* An empty signature script is skipped.                                   *)
Init ==
  \E sig \in SigScripts, pk \in PkScripts, fl \in FlagSets :
    /\ scripts = << sig, pk >>
    /\ flags = fl
    /\ bip16 = IsP2SH(pk, fl)
    /\ scriptIdx = IF sig = << >> THEN 1 ELSE 0
    /\ pc = 0
    /\ opcodeIdx = 0
    /\ dstack = << >>
    /\ astack = << >>
    /\ condStack = << >>
    /\ savedFirstStack = << >>
    /\ err = NewEngineErr(sig, pk, fl)
    /\ status = IF err = "none" THEN "running" ELSE "invalid"

-----------------------------------------------------------------------------
(* Variants of the definitions below with a plausible bug each:           *)
(* OverflowDataOnly forgets the alt stack in the size limit,              *)
(* StepEndScriptSameIdx re-enters the same script, StepEndP2SHUnchecked   *)
(* runs the redeem script without checking the public key script's        *)
(* result, and IsP2SHAnyScript (above) sets bip16 for any public key      *)
(* script; ExecuteOpcodeSkipFirst (above) skips an opcode of a branch     *)
(* not taken before checking whether it is disabled.                      *)

(* Step, split by where it returns.  Exec is the outcome of executeOpcode  *)
(* on the next token; AtEnd holds when that token is the script's last.    *)
CurScript == scripts[scriptIdx + 1]

Exec == ExecuteOpcode(CurScript[pc + 1])

OverflowDataOnly == Len(Exec.dstack) > MaxStackSize

Overflow == Len(Exec.dstack) + Len(Exec.astack) > MaxStackSize

AtEnd == pc + 1 = Len(CurScript)

StepOk == status = "running" /\ Exec.err = "none" /\ ~Overflow

(* Step returns an error: from the opcode, from the stack size limit, or   *)
(* because a conditional straddles the end of the script.                  *)
StepFail ==
  /\ status = "running"
  /\ \/ Exec.err # "none" /\ err' = Exec.err
     \/ Exec.err = "none" /\ Overflow /\ err' = "ErrStackOverflow"
     \/ Exec.err = "none" /\ ~Overflow /\ AtEnd /\ Exec.condStack # << >>
        /\ err' = "ErrUnbalancedConditional"
  /\ status' = "invalid"
  /\ UNCHANGED <<scripts, scriptIdx, pc, opcodeIdx, dstack, astack, condStack,
                 savedFirstStack, bip16, flags>>

(* Step within a script: the next opcode is executed.                      *)
Step ==
  /\ StepOk
  /\ ~AtEnd
  /\ dstack' = Exec.dstack
  /\ astack' = Exec.astack
  /\ condStack' = Exec.condStack
  /\ pc' = pc + 1
  /\ opcodeIdx' = opcodeIdx + 1
  /\ UNCHANGED <<scripts, scriptIdx, savedFirstStack, bip16, flags, status, err>>

(* The common tail of a script change: the alt stack is dropped, the       *)
(* opcode index reset, the script at idx skipped when empty, and Step      *)
(* reports done when no script is left.                                    *)
EnterScript(idx, ss, ds) ==
  LET next == IF idx < Len(ss) /\ ss[idx + 1] = << >> THEN idx + 1 ELSE idx
  IN /\ scripts' = ss
     /\ scriptIdx' = next
     /\ dstack' = ds
     /\ astack' = << >>
     /\ condStack' = << >>
     /\ opcodeIdx' = 0
     /\ pc' = 0
     /\ status' = IF next >= Len(ss) THEN "finishing" ELSE "running"
     /\ UNCHANGED <<bip16, flags, err>>

StepEndScriptSameIdx ==
  /\ StepOk
  /\ AtEnd
  /\ Exec.condStack = << >>
  /\ ~(scriptIdx = 1 /\ bip16)
  /\ savedFirstStack' = IF scriptIdx = 0 /\ bip16 THEN Exec.dstack
                                               ELSE savedFirstStack
  /\ EnterScript(scriptIdx, scripts, Exec.dstack)

(* Step at the end of a script that is not the P2SH public key script.     *)
(* After the signature script of a P2SH spend, its stack is saved.         *)
StepEndScript ==
  /\ StepOk
  /\ AtEnd
  /\ Exec.condStack = << >>
  /\ ~(scriptIdx = 1 /\ bip16)
  /\ savedFirstStack' = IF scriptIdx = 0 /\ bip16 THEN Exec.dstack
                                               ELSE savedFirstStack
  /\ EnterScript(scriptIdx + 1, scripts, Exec.dstack)

(* The end of the P2SH public key script: CheckErrorCondition(false) must  *)
(* accept its stack; the redeem script is the top of the saved stack       *)
(* (reading it from an empty saved stack is an index out of range: a Go    *)
(* panic) and must parse.                                                  *)
Redeem == AsScript(Top(savedFirstStack))
P2SHEnd ==
  /\ StepOk
  /\ AtEnd
  /\ Exec.condStack = << >>
  /\ scriptIdx = 1 /\ bip16

StepEndP2SHFail ==
  /\ P2SHEnd
  /\ \/ /\ CheckErrorCondition(Exec.dstack, FALSE) # "none"
        /\ status' = "invalid"
        /\ err' = CheckErrorCondition(Exec.dstack, FALSE)
     \/ /\ CheckErrorCondition(Exec.dstack, FALSE) = "none"
        /\ savedFirstStack = << >> \/ ~Parses(Redeem)
        /\ IF savedFirstStack = << >>
             THEN status' = "panic" /\ err' = err
             ELSE status' = "invalid" /\ err' = "ErrMalformedPush"
  /\ UNCHANGED <<scripts, scriptIdx, pc, opcodeIdx, dstack, astack, condStack,
                 savedFirstStack, bip16, flags>>

StepEndP2SHUnchecked ==
  /\ P2SHEnd
  /\ savedFirstStack # << >>
  /\ Parses(Redeem)
  /\ UNCHANGED savedFirstStack
  /\ EnterScript(2, Append(scripts, Redeem), Pop(savedFirstStack))

StepEndP2SH ==
  /\ P2SHEnd
  /\ CheckErrorCondition(Exec.dstack, FALSE) = "none"
  /\ savedFirstStack # << >>
  /\ Parses(Redeem)
  /\ UNCHANGED savedFirstStack
  /\ EnterScript(2, Append(scripts, Redeem), Pop(savedFirstStack))

(* Execute, once Step has reported done: CheckErrorCondition(true).  The   *)
(* top value is popped (PopBool) once the depth checks have passed.        *)
ExecuteCheck ==
  /\ status = "finishing"
  /\ LET e == CheckErrorCondition(dstack, TRUE) IN
       /\ err' = e
       /\ status' = IF e = "none" THEN "valid" ELSE "invalid"
       /\ dstack' = IF e \in {"none", "ErrEvalFalse"} THEN Pop(dstack) ELSE dstack
  /\ UNCHANGED <<scripts, scriptIdx, pc, opcodeIdx, astack, condStack,
                 savedFirstStack, bip16, flags>>

Next ==
  \/ StepFail
  \/ Step
  \/ StepEndScript
  \/ StepEndP2SHFail
  \/ StepEndP2SH
  \/ ExecuteCheck

(* Execute is a loop in one goroutine: it keeps stepping while it can.     *)
Spec == Init /\ [][Next]_vars /\ WF_vars(Next)

-----------------------------------------------------------------------------
Stack == Seq(Items)

(* The type of every variable; the data and alt stacks together never      *)
(* exceed MaxStackSize (the check at the end of Step).                     *)
TypeOK ==
  /\ scripts \in Seq(Seq(Token))
  /\ Len(scripts) \in {2, 3}
  /\ scriptIdx \in 0..3
  /\ pc \in Nat
  /\ opcodeIdx \in Nat
  /\ dstack \in Stack
  /\ astack \in Stack
  /\ Len(dstack) + Len(astack) <= MaxStackSize
  /\ condStack \in Seq({OpCondFalse, OpCondTrue, OpCondSkip})
  /\ savedFirstStack \in Stack
  /\ bip16 \in BOOLEAN
  /\ flags \subseteq Flags
  /\ status \in Statuses
  /\ err \in Errors

(* P2SH soundness (Step, bip16 branch): a redeem script is only ever run   *)
(* when it is the preimage of the hash the public key script commits to.  *)
(* Breaking it takes a signature script pushing one script, a public key  *)
(* script committing to another, and the end-of-script check skipped.     *)
RedeemCommitted ==
  Len(scripts) = 3 =>
    /\ bip16
    /\ IsScriptHashScript(scripts[2])
    /\ \E x \in BaseItems : /\ scripts[2][2].data = Hash(x)
                            /\ scripts[3] = AsScript(x)

(* The P2SH branch of Step never indexes an empty saved stack (which      *)
(* would panic the process): whenever it is reached, the signature script *)
(* ran and left the redeem script on the stack.                           *)
NoPanic == status # "panic"

(* How far Execute has got: stepping, checking the final stack, returned. *)
Stage(s) == CASE s = "running" -> 0 [] s = "finishing" -> 1 [] OTHER -> 2

(* Execute's loop never goes back: every step of Step or of the final     *)
(* check moves to a later stage, or in the same stage to a later script,  *)
(* or in the same script to a later token.  A script change (the empty   *)
(* script skipped, the redeem script appended after P2SH) never returns   *)
(* to a script already run; with scripts of bounded length this is why    *)
(* Execute returns.                                                        *)
ExecuteAdvances ==
  [][ \/ Stage(status') > Stage(status)
      \/ /\ Stage(status') = Stage(status)
         /\ \/ scriptIdx' > scriptIdx
            \/ scriptIdx' = scriptIdx /\ pc' > pc ]_vars

(* Execute returns: every engine ends valid or invalid.                    *)
Terminates == <>(status \in {"valid", "invalid", "panic"})
=============================================================================
