------------------------- MODULE ScriptEngineProofs -------------------------
(***************************************************************************)
(* Proofs about ScriptEngine for every value of its constants.             *)
(*                                                                         *)
(* TypeCorrect: Execute never builds a state outside TypeOK, in particular *)
(* the data and alt stacks together never exceed MaxStackSize.  TypeOK is  *)
(* not inductive: the redeem script's stack is the saved stack popped, so  *)
(* that stack must be bounded too, and the opcode Step reads must exist,   *)
(* so a running engine's program counter must lie within a script.         *)
(***************************************************************************)
EXTENDS ScriptEngine, SequenceTheorems, TLAPS

CondValues == {OpCondFalse, OpCondTrue, OpCondSkip}

(* The inductive invariant: TypeOK, the saved stack bounded, scripts and   *)
(* script index consistent, and a running engine's next opcode in range.  *)
IInv ==
  /\ TypeOK
  /\ Len(savedFirstStack) <= MaxStackSize
  /\ scriptIdx <= Len(scripts)
  /\ Len(scripts) = 3 => scriptIdx >= 2
  /\ status = "running" => /\ scriptIdx < Len(scripts)
                           /\ pc < Len(scripts[scriptIdx + 1])

(* The scripts and the script index of an IInv state, case by case.      *)
LEMMA ScriptsShape ==
  ASSUME IInv
  PROVE  \/ Len(scripts) = 2 /\ scriptIdx \in 0 .. 2
         \/ Len(scripts) = 3 /\ scriptIdx \in 2 .. 3
<1>1. CASE Len(scripts) = 2
  BY <1>1 DEF IInv, TypeOK
<1>2. CASE Len(scripts) = 3
  BY <1>2 DEF IInv, TypeOK
<1>. QED  BY <1>1, <1>2 DEF IInv, TypeOK

(* Popping a non-empty stack.                                              *)
LEMMA PopTyped ==
  ASSUME NEW S, NEW s \in Seq(S), s # << >>
  PROVE  /\ Pop(s) \in Seq(S)
         /\ Len(Pop(s)) = Len(s) - 1
         /\ Top(s) \in S
<1>. DEFINE Front == [i \in 1 .. Len(s) - 1 |-> s[i]]
<1>1. Front \in Seq(S) /\ Len(Front) = Len(s) - 1 /\ s[Len(s)] \in S
  OBVIOUS
<1>2. SubSeq(s, 1, Len(s) - 1) = Front
  OBVIOUS
<1>. QED  BY <1>1, <1>2 DEF Pop, Top

(* Appending to a sequence.                                                *)
LEMMA AppendLen ==
  ASSUME NEW S, NEW s \in Seq(S), NEW r \in S
  PROVE  Append(s, r) \in Seq(S) /\ Len(Append(s, r)) = Len(s) + 1
OBVIOUS

(* HASH160 of a stack value is a stack value.                              *)
LEMMA HashTyped ==
  ASSUME NEW x
  PROVE  Hash(x) \in Items
BY DEF Hash, Items, Hashes

(* A stack value read back as a script is a script.                        *)
LEMMA AsScriptTyped ==
  ASSUME NEW x
  PROVE  AsScript(x) \in Seq(Token)
<1>1. Tok("OP_BAD") \in Token
  BY DEF Tok, Token, OpNames, PushOpNames, DataPushOpNames
<1>2. RedeemBody \in [RedeemScripts -> Seq(Token)]
  BY RedeemScriptsAssumption
<1>. QED  BY <1>1, <1>2 DEF AsScript

OpResult == [err : Errors, dstack : Stack, astack : Stack, condStack : Seq(CondValues)]

(* Every opcode outcome is typed.                                          *)
LEMMA ExecuteOpcodeTyped ==
  ASSUME TypeOK, NEW t \in Token
  PROVE  ExecuteOpcode(t) \in OpResult
<1>. USE DEF OpResult, CondValues, Stack, OpCondFalse, OpCondTrue, OpCondSkip
<1>1. Fail("ErrDisabledOpcode") \in OpResult /\ Fail("ErrReservedOpcode") \in OpResult
      /\ Fail("ErrElementTooBig") \in OpResult /\ Fail("ErrMinimalData") \in OpResult
      /\ Fail("ErrInvalidStackOperation") \in OpResult
      /\ Fail("ErrUnbalancedConditional") \in OpResult
  BY DEF Fail, TypeOK, Errors
<1>2. Ok(dstack, astack, condStack) \in OpResult
  BY DEF Ok, TypeOK, Errors
<1>3. Opfunc(t) \in OpResult
  <2>. USE DEF TypeOK
  <2>0. /\ dstack # << >> => Pop(dstack) \in Stack /\ Top(dstack) \in Items
        /\ astack # << >> => Pop(astack) \in Stack /\ Top(astack) \in Items
        /\ condStack # << >> => Pop(condStack) \in Seq(CondValues)
    BY PopTyped
  <2>. DEFINE Handled == PushOpNames \cup {"OP_1", "OP_IF", "OP_NOTIF", "OP_ELSE",
                "OP_ENDIF", "OP_TOALTSTACK", "OP_FROMALTSTACK", "OP_HASH160", "OP_EQUAL"}
  <2>1. CASE t.op \in PushOpNames \cup {"OP_1"}
    <3>1. Opfunc(t) = Ok(Append(dstack, PushValue(t)), astack, condStack)
      BY <2>1, Zenon DEF Opfunc, PushOpNames
    <3>2. PushValue(t) \in Items
      BY <2>1 DEF PushValue, Token, Items, BaseItems, PushOpNames, DataPushOpNames,
                 OpNames
    <3>. QED  BY <3>1, <3>2 DEF Ok, Errors
  <2>2. CASE t.op \in {"OP_IF", "OP_NOTIF"}
    <3>1. Opfunc(t) =
            IF ~isBranchExecuting
              THEN Ok(dstack, astack, Append(condStack, OpCondSkip))
            ELSE IF dstack = << >> THEN Fail("ErrInvalidStackOperation")
            ELSE Ok(Pop(dstack), astack,
                    Append(condStack, IF AsBool(Top(dstack)) = (t.op = "OP_IF")
                                        THEN OpCondTrue ELSE OpCondFalse))
      BY <2>2, Zenon DEF Opfunc, PushOpNames
    <3>. QED  BY <3>1, <1>1, <2>0 DEF Ok, Errors
  <2>3. CASE t.op = "OP_ELSE"
    <3>1. Opfunc(t) =
            IF condStack = << >> THEN Fail("ErrUnbalancedConditional")
            ELSE Ok(dstack, astack,
                    [condStack EXCEPT ![Len(condStack)] =
                       IF @ = OpCondTrue THEN OpCondFalse
                       ELSE IF @ = OpCondFalse THEN OpCondTrue ELSE @])
      BY <2>3, Zenon DEF Opfunc, PushOpNames
    <3>2. ASSUME condStack # << >>
          PROVE  [condStack EXCEPT ![Len(condStack)] =
                    IF @ = OpCondTrue THEN OpCondFalse
                    ELSE IF @ = OpCondFalse THEN OpCondTrue ELSE @] \in Seq(CondValues)
      <4>1. Len(condStack) \in 1 .. Len(condStack) /\ condStack[Len(condStack)] \in CondValues
        BY <3>2, EmptySeq, LenProperties, ElementOfSeq
      <4>. QED  BY <4>1, ExceptSeq
    <3>. QED  BY <3>1, <3>2, <1>1 DEF Ok, Errors
  <2>4. CASE t.op = "OP_ENDIF"
    <3>1. Opfunc(t) = IF condStack = << >> THEN Fail("ErrUnbalancedConditional")
                      ELSE Ok(dstack, astack, Pop(condStack))
      BY <2>4, Zenon DEF Opfunc, PushOpNames
    <3>. QED  BY <3>1, <1>1, <2>0 DEF Ok, Errors
  <2>5. CASE t.op = "OP_TOALTSTACK"
    <3>1. Opfunc(t) = IF dstack = << >> THEN Fail("ErrInvalidStackOperation")
                      ELSE Ok(Pop(dstack), Append(astack, Top(dstack)), condStack)
      BY <2>5, Zenon DEF Opfunc, PushOpNames
    <3>. QED  BY <3>1, <1>1, <2>0 DEF Ok, Errors
  <2>6. CASE t.op = "OP_FROMALTSTACK"
    <3>1. Opfunc(t) = IF astack = << >> THEN Fail("ErrInvalidStackOperation")
                      ELSE Ok(Append(dstack, Top(astack)), Pop(astack), condStack)
      BY <2>6, Zenon DEF Opfunc, PushOpNames
    <3>. QED  BY <3>1, <1>1, <2>0 DEF Ok, Errors
  <2>7. CASE t.op = "OP_HASH160"
    <3>1. Opfunc(t) = IF dstack = << >> THEN Fail("ErrInvalidStackOperation")
                      ELSE Ok(Append(Pop(dstack), Hash(Top(dstack))), astack, condStack)
      BY <2>7, Zenon DEF Opfunc, PushOpNames
    <3>. QED  BY <3>1, <1>1, <2>0, HashTyped DEF Ok, Errors
  <2>8. CASE t.op = "OP_EQUAL"
    <3>1. Opfunc(t) = IF Len(dstack) < 2 THEN Fail("ErrInvalidStackOperation")
                      ELSE Ok(Append(Pop(Pop(dstack)),
                                     IF Top(dstack) = Top(Pop(dstack)) THEN "T" ELSE "F"),
                              astack, condStack)
      BY <2>8, Zenon DEF Opfunc, PushOpNames
    <3>2. ASSUME Len(dstack) >= 2
          PROVE  Pop(Pop(dstack)) \in Stack /\ Top(dstack) \in Items
      <4>0. dstack # << >>
        BY <3>2
      <4>1. Pop(dstack) \in Stack /\ Len(Pop(dstack)) = Len(dstack) - 1 /\ Top(dstack) \in Items
        BY <4>0, PopTyped
      <4>2. Pop(dstack) # << >>
        BY <3>2, <4>1
      <4>. QED  BY <4>1, <4>2, PopTyped
    <3>3. {"T", "F"} \subseteq Items
      BY DEF Items, BaseItems
    <3>. QED  BY <3>1, <3>2, <3>3, <1>1 DEF Ok, Errors
  <2>9. CASE t.op \notin Handled
    <3>1. Opfunc(t) = Fail("ErrReservedOpcode")
      BY <2>9, Zenon DEF Opfunc
    <3>. QED  BY <3>1, <1>1
  <2>. QED  BY <2>1, <2>2, <2>3, <2>4, <2>5, <2>6, <2>7, <2>8, <2>9
<1>. QED  BY <1>1, <1>2, <1>3 DEF ExecuteOpcode

(* The opcode a running engine executes exists, so Exec is typed.          *)
LEMMA ExecTyped ==
  ASSUME IInv, status = "running"
  PROVE  /\ CurScript \in Seq(Token)
         /\ CurScript[pc + 1] \in Token
         /\ Exec \in OpResult
         /\ Exec.err \in Errors /\ Exec.dstack \in Stack /\ Exec.astack \in Stack
         /\ Exec.condStack \in Seq(CondValues)
<1>1. CurScript \in Seq(Token) /\ pc + 1 \in 1 .. Len(CurScript)
  BY ElementOfSeq DEF IInv, TypeOK, CurScript
<1>2. CurScript[pc + 1] \in Token
  BY <1>1, ElementOfSeq
<1>3. Exec \in OpResult
  BY <1>2, ExecuteOpcodeTyped DEF IInv, Exec
<1>. QED  BY <1>1, <1>2, <1>3, Zenon DEF OpResult

(* Entering the next script (or finishing): the state it leaves.  The      *)
(* script entered is the last or the one before it, so that at most one   *)
(* empty script is skipped and a running engine has an opcode to run.     *)
LEMMA EnterScriptTyped ==
  ASSUME NEW ss \in Seq(Seq(Token)), Len(ss) \in {2, 3},
         NEW idx \in Nat, idx <= Len(ss), idx + 1 >= Len(ss),
         NEW ds \in Stack, Len(ds) <= MaxStackSize,
         EnterScript(idx, ss, ds)
  PROVE  /\ scripts' = ss
         /\ scriptIdx' \in idx .. Len(ss)
         /\ pc' = 0 /\ opcodeIdx' = 0
         /\ dstack' = ds /\ astack' = << >> /\ condStack' = << >>
         /\ status' \in {"running", "finishing"}
         /\ status' = "running" => scriptIdx' < Len(ss) /\ 0 < Len(ss[scriptIdx' + 1])
         /\ UNCHANGED <<bip16, flags, err>>
<1>1. CASE idx < Len(ss) /\ ss[idx + 1] = << >>
  BY <1>1 DEF EnterScript
<1>2. CASE ~(idx < Len(ss) /\ ss[idx + 1] = << >>)
  <2>1. idx < Len(ss) => ss[idx + 1] \in Seq(Token)
    BY ElementOfSeq
  <2>. QED  BY <1>2, <2>1, EmptySeq DEF EnterScript
<1>. QED  BY <1>1, <1>2

(* NewEngine builds a state of IInv.                                       *)
LEMMA InitIInv == Init => IInv
<1>. SUFFICES ASSUME Init PROVE IInv
  OBVIOUS
<1>1. PICK sig \in SigScripts, pk \in PkScripts, fl \in FlagSets :
        /\ scripts = << sig, pk >>
        /\ flags = fl
        /\ bip16 = IsP2SH(pk, fl)
        /\ scriptIdx = IF sig = << >> THEN 1 ELSE 0
        /\ pc = 0 /\ opcodeIdx = 0
        /\ dstack = << >> /\ astack = << >> /\ condStack = << >>
        /\ savedFirstStack = << >>
        /\ err = NewEngineErr(sig, pk, fl)
        /\ status = IF err = "none" THEN "running" ELSE "invalid"
  BY DEF Init
<1>2. sig \in Seq(Token) /\ pk \in Seq(Token) /\ fl \subseteq Flags
  BY EngineAssumption
<1>3. err \in Errors
  BY <1>1 DEF NewEngineErr, Errors
<1>4. err = "none" => sig # << >> \/ pk # << >>
  BY <1>1 DEF NewEngineErr
<1>5. IsP2SH(pk, fl) \in BOOLEAN
  BY DEF IsP2SH
<1>. QED  BY <1>1, <1>2, <1>3, <1>4, <1>5, EmptySeq, EngineAssumption
          DEF IInv, TypeOK, Stack, Statuses

(* StepFail only records the error.                                       *)
LEMMA StepFailIInv == IInv /\ StepFail => IInv'
<1>. SUFFICES ASSUME IInv, StepFail PROVE IInv'
  OBVIOUS
<1>1. Exec.err \in Errors
  BY ExecTyped DEF StepFail
<1>2. err' \in Errors /\ status' = "invalid"
  BY <1>1 DEF StepFail, Errors
<1>3. UNCHANGED <<scripts, scriptIdx, pc, opcodeIdx, dstack, astack, condStack,
                  savedFirstStack, bip16, flags>>
  BY DEF StepFail
<1>. QED  BY <1>2, <1>3 DEF IInv, TypeOK, Statuses

(* Step within a script: the stacks are checked against MaxStackSize and  *)
(* the next opcode is still within the script.                            *)
LEMMA StepIInv == IInv /\ Step => IInv'
<1>. SUFFICES ASSUME IInv, Step PROVE IInv'
  OBVIOUS
<1>1. /\ status = "running" /\ CurScript \in Seq(Token)
      /\ Exec \in OpResult
  BY ExecTyped DEF Step, StepOk
<1>2. MaxStackSize \in Nat
  BY EngineAssumption
<1>3. dstack' \in Stack /\ astack' \in Stack /\ condStack' \in Seq(CondValues)
  BY <1>1 DEF Step, OpResult
<1>7. Len(dstack') + Len(astack') <= MaxStackSize
  BY <1>1, <1>2 DEF Step, StepOk, Overflow, OpResult, Stack
<1>4. pc + 1 < Len(CurScript)
  BY <1>1 DEF Step, AtEnd, IInv, TypeOK, CurScript
<1>5. pc' \in Nat /\ opcodeIdx' \in Nat /\ pc' < Len(scripts'[scriptIdx' + 1])
  BY <1>4 DEF Step, CurScript, IInv, TypeOK
<1>6. UNCHANGED <<scripts, scriptIdx, savedFirstStack, bip16, flags, status, err>>
  BY DEF Step
<1>. QED  BY <1>3, <1>5, <1>6, <1>7 DEF IInv, TypeOK, CondValues

(* The end of a script other than the P2SH public key script.             *)
(* The end of a script other than the P2SH public key script: the state   *)
(* the script change leaves.                                               *)
LEMMA StepEndScriptEnter ==
  ASSUME IInv, StepEndScript
  PROVE  /\ status = "running" /\ ~Overflow /\ Exec \in OpResult
         /\ Exec.dstack \in Stack /\ Len(Exec.dstack) <= MaxStackSize
         /\ scripts \in Seq(Seq(Token)) /\ Len(scripts) \in {2, 3}
         /\ scriptIdx + 1 \in Nat /\ scriptIdx + 1 <= Len(scripts)
         /\ scripts' = scripts
         /\ scriptIdx' \in scriptIdx + 1 .. Len(scripts)
         /\ pc' = 0 /\ opcodeIdx' = 0
         /\ dstack' = Exec.dstack /\ astack' = << >> /\ condStack' = << >>
         /\ status' \in {"running", "finishing"}
         /\ status' = "running" => scriptIdx' < Len(scripts) /\ 0 < Len(scripts[scriptIdx' + 1])
         /\ UNCHANGED <<bip16, flags, err>>
<1>1. /\ status = "running" /\ ~Overflow
      /\ Exec \in OpResult
  BY ExecTyped DEF StepEndScript, StepOk
<1>2. Exec.dstack \in Stack /\ Len(Exec.dstack) <= MaxStackSize
  BY <1>1, EngineAssumption DEF Overflow, OpResult, Stack
<1>3. /\ scripts \in Seq(Seq(Token)) /\ Len(scripts) \in {2, 3}
      /\ scriptIdx + 1 \in Nat /\ scriptIdx + 1 <= Len(scripts)
      /\ scriptIdx + 1 + 1 >= Len(scripts)
  <2>1. scriptIdx < Len(scripts) /\ scripts \in Seq(Seq(Token))
    BY <1>1 DEF IInv, TypeOK
  <2>2. \/ Len(scripts) = 2 /\ scriptIdx \in 0 .. 2
        \/ Len(scripts) = 3 /\ scriptIdx \in 2 .. 3
    BY ScriptsShape
  <2>3. CASE Len(scripts) = 2 /\ scriptIdx \in 0 .. 2
    BY <2>1, <2>3
  <2>4. CASE Len(scripts) = 3 /\ scriptIdx \in 2 .. 3
    BY <2>1, <2>4
  <2>. QED  BY <2>2, <2>3, <2>4
<1>4. /\ scripts' = scripts
      /\ scriptIdx' \in scriptIdx + 1 .. Len(scripts)
      /\ pc' = 0 /\ opcodeIdx' = 0
      /\ dstack' = Exec.dstack /\ astack' = << >> /\ condStack' = << >>
      /\ status' \in {"running", "finishing"}
      /\ status' = "running" => scriptIdx' < Len(scripts) /\ 0 < Len(scripts[scriptIdx' + 1])
      /\ UNCHANGED <<bip16, flags, err>>
  BY <1>1, <1>2, <1>3, EnterScriptTyped DEF StepEndScript
<1>. QED  BY <1>1, <1>2, <1>3, <1>4

LEMMA StepEndScriptIInv == IInv /\ StepEndScript => IInv'
<1>. SUFFICES ASSUME IInv, StepEndScript PROVE IInv'
  OBVIOUS
<1>1. /\ status = "running" /\ ~Overflow /\ Exec \in OpResult
  BY StepEndScriptEnter
<1>2. Exec.dstack \in Stack /\ Len(Exec.dstack) <= MaxStackSize
  BY StepEndScriptEnter
<1>3. /\ scripts \in Seq(Seq(Token)) /\ Len(scripts) \in {2, 3}
      /\ scriptIdx + 1 \in Nat /\ scriptIdx + 1 <= Len(scripts)
  BY StepEndScriptEnter
<1>4. /\ scripts' = scripts
      /\ scriptIdx' \in scriptIdx + 1 .. Len(scripts)
      /\ pc' = 0 /\ opcodeIdx' = 0
      /\ dstack' = Exec.dstack /\ astack' = << >> /\ condStack' = << >>
      /\ status' \in {"running", "finishing"}
      /\ status' = "running" => scriptIdx' < Len(scripts) /\ 0 < Len(scripts[scriptIdx' + 1])
      /\ UNCHANGED <<bip16, flags, err>>
  BY StepEndScriptEnter
<1>5. savedFirstStack' \in Stack /\ Len(savedFirstStack') <= MaxStackSize
  BY <1>1, <1>2 DEF StepEndScript, IInv, TypeOK
<1>6. /\ scriptIdx' \in 0 .. 3 /\ scriptIdx' <= Len(scripts')
      /\ Len(scripts') = 3 => scriptIdx' >= 2
  <2>1. CASE Len(scripts) = 2
    BY <1>3, <1>4, <2>1
  <2>2. CASE Len(scripts) = 3
    BY <1>3, <1>4, <2>2 DEF IInv, TypeOK
  <2>. QED  BY <1>3, <2>1, <2>2
<1>. QED  BY <1>1, <1>2, <1>3, <1>4, <1>5, <1>6 DEF IInv, TypeOK, Statuses, Stack

(* The P2SH public key script rejected, or the redeem script unusable.    *)
LEMMA StepEndP2SHFailIInv == IInv /\ StepEndP2SHFail => IInv'
<1>. SUFFICES ASSUME IInv, StepEndP2SHFail PROVE IInv'
  OBVIOUS
<1>1. CheckErrorCondition(Exec.dstack, FALSE) \in Errors
  BY DEF CheckErrorCondition, Errors
<1>2. err' \in Errors /\ status' \in {"invalid", "panic"}
  BY <1>1 DEF StepEndP2SHFail, IInv, TypeOK, Errors
<1>3. UNCHANGED <<scripts, scriptIdx, pc, opcodeIdx, dstack, astack, condStack,
                  savedFirstStack, bip16, flags>>
  BY DEF StepEndP2SHFail
<1>. QED  BY <1>2, <1>3 DEF IInv, TypeOK, Statuses

(* The redeem script entered: scripts grows to three, the stack is the    *)
(* saved stack popped.                                                     *)
LEMMA StepEndP2SHIInv == IInv /\ StepEndP2SH => IInv'
<1>. SUFFICES ASSUME IInv, StepEndP2SH PROVE IInv'
  OBVIOUS
<1>1. status = "running" /\ scriptIdx = 1 /\ savedFirstStack # << >>
  BY DEF StepEndP2SH, P2SHEnd, StepOk
<1>2. Len(scripts) = 2
  <2>1. \/ Len(scripts) = 2 /\ scriptIdx \in 0 .. 2
        \/ Len(scripts) = 3 /\ scriptIdx \in 2 .. 3
    BY ScriptsShape
  <2>. QED  BY <1>1, <2>1
<1>3. Append(scripts, Redeem) \in Seq(Seq(Token)) /\ Len(Append(scripts, Redeem)) = 3
  <2>1. Redeem \in Seq(Token)
    BY AsScriptTyped DEF Redeem
  <2>2. scripts \in Seq(Seq(Token))
    BY DEF IInv, TypeOK
  <2>3. Append(scripts, Redeem) \in Seq(Seq(Token))
        /\ Len(Append(scripts, Redeem)) = Len(scripts) + 1
    BY <2>1, <2>2, AppendLen
  <2>. QED  BY <1>2, <2>3
<1>4. Pop(savedFirstStack) \in Stack /\ Len(Pop(savedFirstStack)) <= MaxStackSize
  <2>1. /\ savedFirstStack \in Seq(Items) /\ savedFirstStack # << >>
        /\ Len(savedFirstStack) <= MaxStackSize
    BY <1>1 DEF IInv, TypeOK, Stack
  <2>2. Pop(savedFirstStack) \in Seq(Items)
        /\ Len(Pop(savedFirstStack)) = Len(savedFirstStack) - 1
    BY <2>1, PopTyped
  <2>. QED  BY <2>1, <2>2, EngineAssumption DEF Stack
<1>. DEFINE ss == Append(scripts, Redeem)
            ds == Pop(savedFirstStack)
<1>5. /\ scripts' = ss
      /\ scriptIdx' \in 2 .. Len(ss)
      /\ pc' = 0 /\ opcodeIdx' = 0
      /\ dstack' = ds /\ astack' = << >> /\ condStack' = << >>
      /\ status' \in {"running", "finishing"}
      /\ status' = "running" => scriptIdx' < Len(ss) /\ 0 < Len(ss[scriptIdx' + 1])
      /\ UNCHANGED <<bip16, flags, err, savedFirstStack>>
  <2>1. EnterScript(2, ss, ds) /\ UNCHANGED savedFirstStack
    BY DEF StepEndP2SH
  <2>2. ss \in Seq(Seq(Token)) /\ Len(ss) \in {2, 3} /\ 2 <= Len(ss) /\ 2 + 1 >= Len(ss)
    BY <1>3
  <2>3. ds \in Stack /\ Len(ds) <= MaxStackSize
    BY <1>4
  <2>4. /\ scripts' = ss
        /\ scriptIdx' \in 2 .. Len(ss)
        /\ pc' = 0 /\ opcodeIdx' = 0
        /\ dstack' = ds /\ astack' = << >> /\ condStack' = << >>
        /\ status' \in {"running", "finishing"}
        /\ status' = "running" => scriptIdx' < Len(ss) /\ 0 < Len(ss[scriptIdx' + 1])
        /\ UNCHANGED <<bip16, flags, err>>
    BY <2>1, <2>2, <2>3, EnterScriptTyped, ZenonT(60)
  <2>. QED  BY <2>1, <2>4, Zenon
<1>6. scripts' \in Seq(Seq(Token)) /\ Len(scripts') = 3
  BY <1>3, <1>5, Zenon
<1>7. /\ scriptIdx' \in 0 .. 3 /\ scriptIdx' <= Len(scripts')
      /\ Len(scripts') = 3 => scriptIdx' >= 2
      /\ status' = "running" => scriptIdx' < Len(scripts') /\ pc' < Len(scripts'[scriptIdx' + 1])
  <2>1. Len(ss) = 3 /\ scripts' = ss
    BY <1>3, <1>5
  <2>2. scriptIdx' \in 2 .. 3
    BY <1>5, <2>1
  <2>3. status' = "running" => scriptIdx' < Len(scripts') /\ 0 < Len(scripts'[scriptIdx' + 1])
    BY <1>5, Zenon
  <2>4. status' = "running" => pc' < Len(scripts'[scriptIdx' + 1])
    BY <1>5, <2>3, Zenon
  <2>5. scriptIdx' \in 0 .. 3 /\ scriptIdx' <= Len(scripts') /\ scriptIdx' >= 2
    BY <1>6, <2>2
  <2>. QED  BY <2>3, <2>4, <2>5
<1>8. Len(dstack') + Len(astack') <= MaxStackSize /\ Len(savedFirstStack') <= MaxStackSize
  BY <1>4, <1>5, EngineAssumption DEF IInv
<1>9. /\ dstack' \in Stack /\ astack' \in Stack /\ savedFirstStack' \in Stack
      /\ condStack' \in Seq({OpCondFalse, OpCondTrue, OpCondSkip})
      /\ pc' \in Nat /\ opcodeIdx' \in Nat
      /\ bip16' \in BOOLEAN /\ flags' \subseteq Flags
      /\ status' \in Statuses /\ err' \in Errors
  <2>1. dstack' \in Stack /\ astack' \in Stack
        /\ condStack' \in Seq({OpCondFalse, OpCondTrue, OpCondSkip})
    BY <1>4, <1>5 DEF Stack
  <2>2. /\ savedFirstStack' \in Stack /\ pc' \in Nat /\ opcodeIdx' \in Nat
        /\ bip16' \in BOOLEAN /\ flags' \subseteq Flags
        /\ status' \in Statuses /\ err' \in Errors
    BY <1>5, Zenon DEF IInv, TypeOK, Statuses
  <2>. QED  BY <2>1, <2>2
<1>10. TypeOK'
  BY <1>6, <1>7, <1>8, <1>9 DEF TypeOK
<1>. QED  BY <1>7, <1>8, <1>10 DEF IInv

(* Execute's final check.                                                  *)
LEMMA ExecuteCheckIInv == IInv /\ ExecuteCheck => IInv'
<1>. SUFFICES ASSUME IInv, ExecuteCheck PROVE IInv'
  OBVIOUS
<1>. DEFINE e == CheckErrorCondition(dstack, TRUE)
<1>1. e \in Errors /\ (e \in {"none", "ErrEvalFalse"} => Len(dstack) >= 1)
  BY DEF CheckErrorCondition, Errors
<1>2. /\ err' = e
      /\ status' = IF e = "none" THEN "valid" ELSE "invalid"
      /\ dstack' = IF e \in {"none", "ErrEvalFalse"} THEN Pop(dstack) ELSE dstack
      /\ UNCHANGED <<scripts, scriptIdx, pc, opcodeIdx, astack, condStack,
                     savedFirstStack, bip16, flags>>
  BY DEF ExecuteCheck
<1>3. dstack' \in Stack /\ Len(dstack') <= Len(dstack)
  <2>1. dstack \in Seq(Items)
    BY DEF IInv, TypeOK, Stack
  <2>2. CASE e \in {"none", "ErrEvalFalse"}
    <3>0. Len(dstack) >= 1
      BY <1>1, <2>2, Zenon
    <3>1. dstack # << >>
      BY <2>1, <3>0
    <3>2. Pop(dstack) \in Seq(Items) /\ Len(Pop(dstack)) = Len(dstack) - 1
      BY <2>1, <3>1, PopTyped
    <3>. QED  BY <1>2, <2>2, <3>2 DEF Stack
  <2>3. CASE e \notin {"none", "ErrEvalFalse"}
    <3>1. dstack' = dstack
      BY <1>2, <2>3, Zenon
    <3>. QED  BY <2>1, <3>1 DEF Stack
  <2>. QED  BY <2>2, <2>3, Zenon
<1>4. err' \in Errors /\ status' \in Statuses
  BY <1>1, <1>2, Zenon DEF Statuses
<1>5. Len(dstack') + Len(astack') <= MaxStackSize
  <2>1. astack' = astack
    BY <1>2, Zenon
  <2>2. Len(dstack) + Len(astack) <= MaxStackSize /\ astack \in Seq(Items)
    BY DEF IInv, TypeOK, Stack
  <2>. QED  BY <1>3, <2>1, <2>2, EngineAssumption DEF Stack
<1>. QED  BY <1>2, <1>3, <1>4, <1>5, Zenon DEF IInv, TypeOK

(* Every step of Execute keeps IInv.                                       *)
LEMMA NextIInv == IInv /\ [Next]_vars => IInv'
<1>. SUFFICES ASSUME IInv, [Next]_vars PROVE IInv'
  OBVIOUS
<1>1. CASE UNCHANGED vars
  BY <1>1 DEF vars, IInv, TypeOK
<1>. QED  BY <1>1, StepFailIInv, StepIInv, StepEndScriptIInv, StepEndP2SHFailIInv,
             StepEndP2SHIInv, ExecuteCheckIInv DEF Next

(* Execute keeps every state typed, and the data and alt stacks within    *)
(* MaxStackSize (Step's check after every opcode, part_003 575-580).      *)
THEOREM TypeCorrect == Spec => []TypeOK
<1>1. Init => IInv
  BY InitIInv
<1>2. IInv /\ [Next]_vars => IInv'
  BY NextIInv
<1>3. IInv => TypeOK
  BY DEF IInv
<1>. QED  BY <1>1, <1>2, <1>3, PTL DEF Spec

(* The stages of Execute, as numbers.                                      *)
LEMMA StageValues ==
  /\ Stage("running") = 0 /\ Stage("finishing") = 1
  /\ \A st \in {"valid", "invalid", "panic"} : Stage(st) = 2
BY DEF Stage

(* One step of Execute moves forward in the order ExecuteAdvances states. *)
Advances ==
  \/ Stage(status') > Stage(status)
  \/ /\ Stage(status') = Stage(status)
     /\ \/ scriptIdx' > scriptIdx
        \/ scriptIdx' = scriptIdx /\ pc' > pc

(* A step that ends Step's loop with an error or a panic advances.         *)
LEMMA EndStepAdvances ==
  ASSUME status = "running", status' \in {"finishing", "valid", "invalid", "panic"}
  PROVE  Advances
BY StageValues DEF Advances

(* A step within a script advances to the next token.                     *)
LEMMA StepAdvances == TypeOK /\ Step => Advances
<1> SUFFICES ASSUME TypeOK, Step PROVE Advances
  OBVIOUS
<1>1. status' = status /\ status = "running" /\ scriptIdx' = scriptIdx /\ pc' = pc + 1 /\ pc \in Nat
  BY DEF Step, StepOk, TypeOK
<1>. QED  BY <1>1 DEF Advances

(* A script change moves to a later script, or finishes Step's loop.      *)
LEMMA EnterAdvances ==
  ASSUME TypeOK, status = "running", NEW idx \in Nat, idx > scriptIdx, NEW ss, NEW ds,
         EnterScript(idx, ss, ds)
  PROVE  Advances
<1>1. scriptIdx' \in {idx, idx + 1} /\ status' \in {"running", "finishing"}
  BY DEF EnterScript
<1>2. CASE status' = "finishing"
  BY <1>2, EndStepAdvances
<1>3. CASE status' = "running"
  <2>1. Stage(status') = Stage(status)
    BY <1>3
  <2>2. scriptIdx \in Nat
    BY DEF TypeOK
  <2>. QED  BY <1>1, <2>1, <2>2 DEF Advances
<1>. QED  BY <1>1, <1>2, <1>3

(* Execute's loop never goes back (the action property ExecuteAdvances),  *)
(* for every value of the constants: Step advances the program counter,   *)
(* a script change moves to a later script (EnterScript skips forward     *)
(* only), and an error, a panic or the final check ends the loop.         *)
THEOREM ExecuteAdvancesProved == Spec => ExecuteAdvances
<1>1. TypeOK /\ [Next]_vars => [Advances]_vars
  <2> SUFFICES ASSUME TypeOK, [Next]_vars PROVE [Advances]_vars
    OBVIOUS
  <2>1. CASE StepFail
    BY <2>1, EndStepAdvances DEF StepFail
  <2>2. CASE Step
    BY <2>2, StepAdvances
  <2>3. CASE StepEndScript
    <3>1. status = "running" /\ scriptIdx + 1 \in Nat /\ scriptIdx + 1 > scriptIdx
      BY <2>3 DEF StepEndScript, StepOk, TypeOK
    <3>2. EnterScript(scriptIdx + 1, scripts, Exec.dstack)
      BY <2>3 DEF StepEndScript
    <3>. QED  BY <3>1, <3>2, EnterAdvances
  <2>4. CASE StepEndP2SHFail
    <3>1. status = "running" /\ status' \in {"invalid", "panic"}
      BY <2>4 DEF StepEndP2SHFail, P2SHEnd, StepOk
    <3>. QED  BY <3>1, EndStepAdvances
  <2>5. CASE StepEndP2SH
    <3>1. status = "running" /\ scriptIdx = 1
      BY <2>5 DEF StepEndP2SH, P2SHEnd, StepOk
    <3>2. EnterScript(2, Append(scripts, Redeem), Pop(savedFirstStack))
      BY <2>5 DEF StepEndP2SH
    <3>. QED  BY <3>1, <3>2, EnterAdvances
  <2>6. CASE ExecuteCheck
    <3>1. status = "finishing" /\ status' \in {"valid", "invalid"}
      BY <2>6 DEF ExecuteCheck
    <3>. QED  BY <3>1, StageValues DEF Advances
  <2>7. CASE UNCHANGED vars
    BY <2>7 DEF vars
  <2>. QED  BY <2>1, <2>2, <2>3, <2>4, <2>5, <2>6, <2>7 DEF Next
<1>. QED  BY <1>1, TypeCorrect, PTL DEF ExecuteAdvances, Advances, Spec

=============================================================================
