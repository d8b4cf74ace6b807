------------------------------ MODULE P2SHProofs ------------------------------
(***************************************************************************)
(* Proofs of the P2SH safety properties of ScriptEngine for every value of *)
(* its constants.                                                          *)
(*                                                                         *)
(* RedeemSound: a redeem script is only run when the public key script     *)
(* committed to its hash, and NoPanicProved: the P2SH branch of Step never *)
(* indexes an empty saved stack.  Both rest on what the public key script  *)
(* OP_HASH160 <h> OP_EQUAL does, opcode by opcode, to the stack the        *)
(* signature script left (P2SHInv).                                        *)
(***************************************************************************)
EXTENDS ScriptEngineProofs

(* The stack after OP_HASH160 of a P2SH public key script.                 *)
Saved1 == Append(Pop(savedFirstStack), Hash(Top(savedFirstStack)))

(* The data stack while the P2SH public key script runs, the redeem        *)
(* script appended only after its hash matched, and no panic.              *)
P2SHFixed ==
  /\ bip16 => IsScriptHashScript(scripts[2])
  /\ status # "panic"
  /\ Len(scripts) = 3 => /\ bip16
                         /\ savedFirstStack # << >>
                         /\ scripts[3] = AsScript(Top(savedFirstStack))
                         /\ Hash(Top(savedFirstStack)) = scripts[2][2].data
P2SHRun ==
  status = "running" /\ scriptIdx = 1 /\ bip16 =>
    /\ condStack = << >>
    /\ pc = 0 => dstack = savedFirstStack
    /\ pc = 1 => savedFirstStack # << >> /\ dstack = Saved1
    /\ pc = 2 => savedFirstStack # << >> /\ dstack = Append(Saved1, scripts[2][2].data)
P2SHInv == P2SHFixed /\ P2SHRun

PInv == IInv /\ P2SHInv

-----------------------------------------------------------------------------
(* Pushing then popping, and the top of a push.                            *)
LEMMA PopAppend ==
  ASSUME NEW S, NEW s \in Seq(S), NEW x \in S
  PROVE  /\ Pop(Append(s, x)) = s
         /\ Top(Append(s, x)) = x
         /\ Append(s, x) # << >>
<1>1. Append(s, x) \in Seq(S) /\ Len(Append(s, x)) = Len(s) + 1
  BY AppendLen
<1>2. SubSeq(Append(s, x), 1, Len(s)) = [i \in 1 .. Len(s) |-> Append(s, x)[i]]
  BY <1>1
<1>3. [i \in 1 .. Len(s) |-> Append(s, x)[i]] = s
  OBVIOUS
<1>4. Pop(Append(s, x)) = SubSeq(Append(s, x), 1, Len(s))
  <2>1. Len(Append(s, x)) - 1 = Len(s)
    BY <1>1
  <2>. QED  BY <2>1 DEF Pop
<1>5. Top(Append(s, x)) = Append(s, x)[Len(s) + 1]
  BY <1>1 DEF Top
<1>6. Append(s, x)[Len(s) + 1] = x
  OBVIOUS
<1>7. Append(s, x) # << >>
  BY <1>1
<1>. QED  BY <1>2, <1>3, <1>4, <1>5, <1>6, <1>7

(* In an executing branch an opcode that passes executeOpcode's checks is  *)
(* run by its handler.                                                     *)
LEMMA ExecuteOpcodeRuns ==
  ASSUME NEW t \in Token, condStack = << >>,
         t.op \notin {"OP_CAT", "OP_VERIF"}, t.data # "BIG",
         ~("MinimalData" \in flags /\ t.op \in PushOpNames /\ ~MinimalPush(t))
  PROVE  ExecuteOpcode(t) = Opfunc(t)
BY DEF ExecuteOpcode, isOpcodeDisabled, isOpcodeAlwaysIllegal, ElementTooBig,
       isBranchExecuting, hasFlag

(* The tokens of a P2SH public key script: OP_HASH160 <h> OP_EQUAL.        *)
LEMMA PkTokens ==
  ASSUME TypeOK, IsScriptHashScript(scripts[2])
  PROVE  /\ Len(scripts[2]) = 3
         /\ scripts[2][1] \in Token /\ scripts[2][1].op = "OP_HASH160"
         /\ scripts[2][1].data = NoData
         /\ scripts[2][2] \in Token /\ scripts[2][2].op = "OP_DATA"
         /\ scripts[2][2].data \in Hashes
         /\ scripts[2][3] \in Token /\ scripts[2][3].op = "OP_EQUAL"
         /\ scripts[2][3].data = NoData
<1>1. scripts[2] \in Seq(Token)
  <2>1. 2 \in 1 .. Len(scripts)
    BY DEF TypeOK
  <2>. QED  BY <2>1, ElementOfSeq DEF TypeOK
<1>2. Len(scripts[2]) = 3 /\ \A i \in 1 .. 3 : scripts[2][i] \in Token
  BY <1>1, ElementOfSeq DEF IsScriptHashScript
<1>3. \A i \in 1 .. 3 : scripts[2][i].op \notin DataPushOpNames => scripts[2][i].data = NoData
  BY <1>2 DEF Token
<1>. QED  BY <1>2, <1>3 DEF IsScriptHashScript, DataPushOpNames, PushOpNames

(* OP_HASH160 in an executing branch.                                      *)
LEMMA Hash160Step ==
  ASSUME NEW t \in Token, condStack = << >>, t.op = "OP_HASH160", t.data = NoData
  PROVE  ExecuteOpcode(t) =
           IF dstack = << >> THEN Fail("ErrInvalidStackOperation")
           ELSE Ok(Append(Pop(dstack), Hash(Top(dstack))), astack, condStack)
<1>1. ExecuteOpcode(t) = Opfunc(t)
  BY ExecuteOpcodeRuns DEF NoData, PushOpNames
<1>2. Opfunc(t) = IF dstack = << >> THEN Fail("ErrInvalidStackOperation")
                  ELSE Ok(Append(Pop(dstack), Hash(Top(dstack))), astack, condStack)
  BY Zenon DEF Opfunc, PushOpNames
<1>. QED  BY <1>1, <1>2

(* The push of a digest in an executing branch: always minimal.            *)
LEMMA PushHashStep ==
  ASSUME NEW t \in Token, condStack = << >>, t.op = "OP_DATA", t.data \in Hashes
  PROVE  ExecuteOpcode(t) = Ok(Append(dstack, t.data), astack, condStack)
<1>1. t.data \notin BaseItems
  BY RedeemScriptsAssumption DEF Hashes
<1>2. t.data # "BIG" /\ t.data # "T"
  BY <1>1 DEF BaseItems
<1>3. MinimalPush(t)
  BY <1>2, Zenon DEF MinimalPush
<1>4. ExecuteOpcode(t) = Opfunc(t)
  BY <1>2, <1>3, ExecuteOpcodeRuns
<1>5. Opfunc(t) = Ok(Append(dstack, PushValue(t)), astack, condStack)
  BY Zenon DEF Opfunc, PushOpNames
<1>6. PushValue(t) = t.data
  BY DEF PushValue
<1>. QED  BY <1>4, <1>5, <1>6

(* OP_EQUAL in an executing branch, on a stack of two values or more.     *)
LEMMA EqualStep ==
  ASSUME NEW t \in Token, condStack = << >>, t.op = "OP_EQUAL", t.data = NoData,
         Len(dstack) >= 2
  PROVE  ExecuteOpcode(t) =
           Ok(Append(Pop(Pop(dstack)), IF Top(dstack) = Top(Pop(dstack)) THEN "T" ELSE "F"),
              astack, condStack)
<1>1. ExecuteOpcode(t) = Opfunc(t)
  BY ExecuteOpcodeRuns DEF NoData, PushOpNames
<1>2. Opfunc(t) = IF Len(dstack) < 2 THEN Fail("ErrInvalidStackOperation")
                  ELSE Ok(Append(Pop(Pop(dstack)),
                                 IF Top(dstack) = Top(Pop(dstack)) THEN "T" ELSE "F"),
                          astack, condStack)
  BY Zenon DEF Opfunc, PushOpNames
<1>. QED  BY <1>1, <1>2

-----------------------------------------------------------------------------
(* A running engine in the P2SH public key script: two scripts, and the    *)
(* program counter on one of its three tokens.                             *)
LEMMA InPkScript ==
  ASSUME IInv, P2SHInv, status = "running", scriptIdx = 1, bip16
  PROVE  /\ Len(scripts) = 2 /\ CurScript = scripts[2] /\ pc \in 0 .. 2
         /\ IsScriptHashScript(scripts[2])
<1>1. Len(scripts) = 2
  <2>1. \/ Len(scripts) = 2 /\ scriptIdx \in 0 .. 2
        \/ Len(scripts) = 3 /\ scriptIdx \in 2 .. 3
    BY ScriptsShape
  <2>. QED  BY <2>1
<1>2. IsScriptHashScript(scripts[2])
  BY DEF P2SHInv, P2SHFixed
<1>3. Len(scripts[2]) = 3
  BY <1>2, PkTokens DEF IInv
<1>4. pc \in Nat /\ pc < Len(scripts[2])
  BY DEF IInv, TypeOK
<1>. QED  BY <1>1, <1>2, <1>3, <1>4 DEF CurScript

(* NewEngine: bip16 only for a P2SH public key script, and the saved and   *)
(* data stacks both empty.                                                 *)
LEMMA InitP2SH == Init => P2SHInv
<1>. SUFFICES ASSUME Init PROVE P2SHInv
  OBVIOUS
<1>1. PICK sig \in SigScripts, pk \in PkScripts, fl \in FlagSets :
        /\ scripts = << sig, pk >>
        /\ bip16 = IsP2SH(pk, fl)
        /\ pc = 0 /\ dstack = << >> /\ condStack = << >> /\ savedFirstStack = << >>
        /\ status = IF err = "none" THEN "running" ELSE "invalid"
  BY DEF Init
<1>2. bip16 => IsScriptHashScript(scripts[2])
  BY <1>1 DEF IsP2SH
<1>3. Len(scripts) = 2 /\ status # "panic"
  BY <1>1
<1>. QED  BY <1>1, <1>2, <1>3 DEF P2SHInv, P2SHFixed, P2SHRun

(* StepFail and Execute's final check touch neither scripts nor the saved  *)
(* stack, and leave the engine stopped.                                   *)
LEMMA StepFailP2SH == IInv /\ P2SHInv /\ StepFail => P2SHInv'
<1>. SUFFICES ASSUME IInv, P2SHInv, StepFail PROVE P2SHInv'
  OBVIOUS
<1>1. status' = "invalid" /\ UNCHANGED <<scripts, savedFirstStack, bip16>>
  BY DEF StepFail
<1>. QED  BY <1>1 DEF P2SHInv, P2SHFixed, P2SHRun

LEMMA ExecuteCheckP2SH == IInv /\ P2SHInv /\ ExecuteCheck => P2SHInv'
<1>. SUFFICES ASSUME IInv, P2SHInv, ExecuteCheck PROVE P2SHInv'
  OBVIOUS
<1>1. status' \in {"valid", "invalid"} /\ UNCHANGED <<scripts, savedFirstStack, bip16>>
  BY DEF ExecuteCheck
<1>. QED  BY <1>1 DEF P2SHInv, P2SHFixed, P2SHRun

(* The failing end of the P2SH public key script: the saved stack is not   *)
(* empty there, so the engine ends invalid and never panics.               *)
LEMMA StepEndP2SHFailP2SH == IInv /\ P2SHInv /\ StepEndP2SHFail => P2SHInv'
<1>. SUFFICES ASSUME IInv, P2SHInv, StepEndP2SHFail PROVE P2SHInv'
  OBVIOUS
<1>1. status = "running" /\ scriptIdx = 1 /\ bip16 /\ AtEnd
  BY DEF StepEndP2SHFail, P2SHEnd, StepOk
<1>2. Len(scripts) = 2 /\ CurScript = scripts[2] /\ IsScriptHashScript(scripts[2])
  BY <1>1, InPkScript
<1>3. pc = 2
  <2>1. Len(scripts[2]) = 3
    BY <1>2, PkTokens DEF IInv
  <2>2. pc + 1 = Len(CurScript) /\ pc \in Nat
    BY <1>1 DEF AtEnd, IInv, TypeOK
  <2>. QED  BY <1>2, <2>1, <2>2
<1>4. savedFirstStack # << >>
  BY <1>1, <1>3 DEF P2SHInv, P2SHRun
<1>5. status' = "invalid" /\ UNCHANGED <<scripts, savedFirstStack, bip16>>
  BY <1>4 DEF StepEndP2SHFail
<1>. QED  BY <1>5 DEF P2SHInv, P2SHFixed, P2SHRun

(* Step within the P2SH public key script: OP_HASH160 replaces the saved   *)
(* top by its hash (and fails on an empty stack), then the digest is      *)
(* pushed.                                                                 *)
LEMMA StepP2SH == IInv /\ P2SHInv /\ Step => P2SHInv'
<1>. SUFFICES ASSUME IInv, P2SHInv, Step PROVE P2SHInv'
  OBVIOUS
<1>1. /\ UNCHANGED <<scripts, scriptIdx, savedFirstStack, bip16, status>>
      /\ pc' = pc + 1 /\ dstack' = Exec.dstack /\ condStack' = Exec.condStack
      /\ Exec.err = "none" /\ ~AtEnd
  BY DEF Step, StepOk
<1>2. P2SHFixed'
  BY <1>1 DEF P2SHInv, P2SHFixed
<1>. SUFFICES P2SHRun'
  BY <1>2 DEF P2SHInv
<1>3. CASE ~(status = "running" /\ scriptIdx = 1 /\ bip16)
  BY <1>1, <1>3 DEF P2SHRun
<1>4. CASE status = "running" /\ scriptIdx = 1 /\ bip16
  <2>1. Len(scripts) = 2 /\ CurScript = scripts[2] /\ pc \in 0 .. 2
        /\ IsScriptHashScript(scripts[2])
    BY <1>4, InPkScript
  <2>2. /\ Len(scripts[2]) = 3
        /\ scripts[2][1] \in Token /\ scripts[2][1].op = "OP_HASH160"
        /\ scripts[2][1].data = NoData
        /\ scripts[2][2] \in Token /\ scripts[2][2].op = "OP_DATA"
        /\ scripts[2][2].data \in Hashes
    BY <2>1, PkTokens DEF IInv
  <2>3. pc \in 0 .. 1
    BY <1>1, <2>1, <2>2 DEF AtEnd
  <2>4. condStack = << >>
    BY <1>4 DEF P2SHInv, P2SHRun
  <2>5. CASE pc = 0
    <3>1. dstack = savedFirstStack
      BY <1>4, <2>5 DEF P2SHInv, P2SHRun
    <3>2. Exec = ExecuteOpcode(scripts[2][1])
      BY <2>1, <2>5 DEF Exec
    <3>3. ExecuteOpcode(scripts[2][1]) =
            IF dstack = << >> THEN Fail("ErrInvalidStackOperation")
            ELSE Ok(Append(Pop(dstack), Hash(Top(dstack))), astack, condStack)
      BY <2>2, <2>4, Hash160Step
    <3>4. dstack # << >>
      BY <1>1, <3>2, <3>3 DEF Fail
    <3>5. Exec.dstack = Saved1 /\ Exec.condStack = << >>
      BY <2>4, <3>1, <3>2, <3>3, <3>4 DEF Ok, Saved1
    <3>6. pc' = 1 /\ savedFirstStack' # << >> /\ dstack' = Saved1' /\ condStack' = << >>
      BY <1>1, <2>5, <3>1, <3>4, <3>5 DEF Saved1
    <3>. QED  BY <3>6 DEF P2SHRun
  <2>6. CASE pc = 1
    <3>1. dstack = Saved1 /\ savedFirstStack # << >>
      BY <1>4, <2>6 DEF P2SHInv, P2SHRun
    <3>2. Exec = ExecuteOpcode(scripts[2][2])
      BY <2>1, <2>6 DEF Exec
    <3>3. ExecuteOpcode(scripts[2][2]) = Ok(Append(dstack, scripts[2][2].data), astack, condStack)
      BY <2>2, <2>4, PushHashStep
    <3>4. Exec.dstack = Append(Saved1, scripts[2][2].data) /\ Exec.condStack = << >>
      BY <2>4, <3>1, <3>2, <3>3 DEF Ok
    <3>5. /\ pc' = 2 /\ savedFirstStack' # << >> /\ condStack' = << >>
          /\ dstack' = Append(Saved1', scripts'[2][2].data)
      BY <1>1, <2>6, <3>1, <3>4 DEF Saved1
    <3>. QED  BY <3>5 DEF P2SHRun
  <2>. QED  BY <2>3, <2>5, <2>6
<1>. QED  BY <1>3, <1>4
(* The end of the signature script or of a non-P2SH script: the scripts   *)
(* are unchanged, and when the P2SH public key script is entered next the *)
(* saved stack is the stack it starts on.                                  *)
LEMMA StepEndScriptP2SH == IInv /\ P2SHInv /\ StepEndScript => P2SHInv'
<1>. SUFFICES ASSUME IInv, P2SHInv, StepEndScript PROVE P2SHInv'
  OBVIOUS
<1>1. /\ scripts' = scripts /\ scriptIdx + 1 \in Nat
      /\ scriptIdx' \in scriptIdx + 1 .. Len(scripts)
      /\ pc' = 0 /\ dstack' = Exec.dstack /\ condStack' = << >>
      /\ status' \in {"running", "finishing"}
      /\ UNCHANGED bip16
  BY StepEndScriptEnter
<1>2. /\ ~(scriptIdx = 1 /\ bip16)
      /\ savedFirstStack' = IF scriptIdx = 0 /\ bip16 THEN Exec.dstack ELSE savedFirstStack
  BY DEF StepEndScript
<1>3. Len(scripts) = 3 => UNCHANGED savedFirstStack
  <2>1. Len(scripts) = 3 => scriptIdx >= 2
    BY DEF IInv
  <2>. QED  BY <1>2, <2>1
<1>4. P2SHFixed'
  BY <1>1, <1>3, Zenon DEF P2SHInv, P2SHFixed
<1>5. P2SHRun'
  <2>. SUFFICES ASSUME status' = "running", scriptIdx' = 1, bip16' PROVE P2SHRun'
    BY DEF P2SHRun
  <2>1. scriptIdx = 0 /\ bip16
    <3>1. scriptIdx = 0
      BY <1>1 DEF IInv, TypeOK
    <3>2. bip16
      BY <1>1, Zenon
    <3>. QED  BY <3>1, <3>2
  <2>2. savedFirstStack' = dstack'
    BY <1>1, <1>2, <2>1
  <2>. QED  BY <1>1, <2>2 DEF P2SHRun
<1>. QED  BY <1>4, <1>5 DEF P2SHInv

(* The end of the P2SH public key script: OP_EQUAL left "T" on the stack  *)
(* only if the digest matched the hash of the saved top, and that top is  *)
(* the redeem script appended.                                             *)
LEMMA StepEndP2SHP2SH == IInv /\ P2SHInv /\ StepEndP2SH => P2SHInv'
<1>. SUFFICES ASSUME IInv, P2SHInv, StepEndP2SH PROVE P2SHInv'
  OBVIOUS
<1>. DEFINE d == scripts[2][2].data
            h == Hash(Top(savedFirstStack))
<1>1. status = "running" /\ scriptIdx = 1 /\ bip16 /\ AtEnd
      /\ CheckErrorCondition(Exec.dstack, FALSE) = "none"
  BY DEF StepEndP2SH, P2SHEnd, StepOk
<1>2. Len(scripts) = 2 /\ CurScript = scripts[2] /\ IsScriptHashScript(scripts[2])
  BY <1>1, InPkScript
<1>3. /\ Len(scripts[2]) = 3
      /\ scripts[2][2].data \in Hashes
      /\ scripts[2][3] \in Token /\ scripts[2][3].op = "OP_EQUAL"
      /\ scripts[2][3].data = NoData
  BY <1>2, PkTokens DEF IInv
<1>4. pc = 2
  <2>1. pc + 1 = Len(CurScript) /\ pc \in Nat
    BY <1>1 DEF AtEnd, IInv, TypeOK
  <2>. QED  BY <1>2, <1>3, <2>1
<1>5. /\ condStack = << >> /\ savedFirstStack # << >>
      /\ dstack = Append(Saved1, d)
  BY <1>1, <1>4 DEF P2SHInv, P2SHRun
<1>6. /\ Pop(savedFirstStack) \in Seq(Items) /\ h \in Items /\ d \in Items
      /\ Saved1 \in Seq(Items)
  <2>1. savedFirstStack \in Seq(Items)
    BY DEF IInv, TypeOK, Stack
  <2>2. Pop(savedFirstStack) \in Seq(Items)
    BY <1>5, <2>1, PopTyped
  <2>3. h \in Items /\ d \in Items
    BY <1>3, HashTyped DEF Items
  <2>4. Saved1 \in Seq(Items)
    BY <2>2, <2>3, AppendLen DEF Saved1
  <2>. QED  BY <2>2, <2>3, <2>4
<1>7. /\ Pop(dstack) = Saved1 /\ Top(dstack) = d
      /\ Pop(Saved1) = Pop(savedFirstStack) /\ Top(Saved1) = h
      /\ Len(dstack) >= 2
  <2>1. Pop(dstack) = Saved1 /\ Top(dstack) = d
    BY <1>5, <1>6, PopAppend
  <2>2. Pop(Saved1) = Pop(savedFirstStack) /\ Top(Saved1) = h
    BY <1>6, PopAppend DEF Saved1
  <2>3. Len(dstack) = Len(Saved1) + 1 /\ Len(Saved1) = Len(Pop(savedFirstStack)) + 1
    BY <1>5, <1>6, AppendLen DEF Saved1
  <2>. QED  BY <2>1, <2>2, <2>3
<1>8. Exec.dstack = Append(Pop(savedFirstStack), IF d = h THEN "T" ELSE "F")
  <2>1. Exec = ExecuteOpcode(scripts[2][3])
    BY <1>2, <1>4 DEF Exec
  <2>2. ExecuteOpcode(scripts[2][3]) =
          Ok(Append(Pop(Pop(dstack)), IF Top(dstack) = Top(Pop(dstack)) THEN "T" ELSE "F"),
             astack, condStack)
    BY <1>3, <1>5, <1>7, EqualStep
  <2>. QED  BY <1>7, <2>1, <2>2 DEF Ok
<1>9. h = d
  <2>1. Top(Exec.dstack) = IF d = h THEN "T" ELSE "F"
    <3>1. (IF d = h THEN "T" ELSE "F") \in Items
      BY DEF Items, BaseItems
    <3>. QED  BY <1>6, <1>8, <3>1, PopAppend
  <2>2. AsBool(Top(Exec.dstack))
    BY <1>1, Zenon DEF CheckErrorCondition
  <2>. QED  BY <2>1, <2>2 DEF AsBool
<1>10. /\ scripts' = Append(scripts, Redeem) /\ UNCHANGED <<savedFirstStack, bip16>>
       /\ scriptIdx' \in {2, 3}
       /\ status' \in {"running", "finishing"}
  BY DEF StepEndP2SH, EnterScript
<1>11. /\ Len(scripts') = 3 /\ scripts'[2] = scripts[2]
       /\ scripts'[3] = AsScript(Top(savedFirstStack))
  <2>1. scripts \in Seq(Seq(Token)) /\ Redeem \in Seq(Token)
    BY AsScriptTyped DEF IInv, TypeOK, Redeem
  <2>2. Len(Append(scripts, Redeem)) = 3
    <3>1. Len(Append(scripts, Redeem)) = Len(scripts) + 1
      BY <2>1, AppendLen
    <3>. QED  BY <1>2, <3>1
  <2>3. Append(scripts, Redeem)[2] = scripts[2] /\ Append(scripts, Redeem)[3] = Redeem
    <3>1. \A i \in 1 .. Len(scripts) : Append(scripts, Redeem)[i] = scripts[i]
      BY <2>1, AppendProperties
    <3>2. Append(scripts, Redeem)[Len(scripts) + 1] = Redeem
      BY <2>1
    <3>. QED  BY <1>2, <3>1, <3>2
  <2>. QED  BY <1>10, <2>2, <2>3, Zenon DEF Redeem
<1>12. P2SHFixed'
  BY <1>1, <1>2, <1>5, <1>9, <1>10, <1>11 DEF P2SHFixed
<1>13. P2SHRun'
  BY <1>10 DEF P2SHRun
<1>. QED  BY <1>12, <1>13 DEF P2SHInv

LEMMA NextP2SH == IInv /\ P2SHInv /\ [Next]_vars => P2SHInv'
<1>. SUFFICES ASSUME IInv, P2SHInv, [Next]_vars PROVE P2SHInv'
  OBVIOUS
<1>1. CASE UNCHANGED vars
  BY <1>1 DEF vars, P2SHInv, P2SHFixed, P2SHRun, Saved1
<1>. QED  BY <1>1, StepFailP2SH, StepP2SH, StepEndScriptP2SH, StepEndP2SHFailP2SH,
             StepEndP2SHP2SH, ExecuteCheckP2SH DEF Next

(* Only a digest of a stack value is in Hashes: the value "HH" that HASH160 *)
(* gives anything else is no digest.                                       *)
LEMMA HashPreimage ==
  ASSUME NEW x, Hash(x) \in Hashes
  PROVE  x \in BaseItems
<1>1. "HH" \notin Hashes
  BY RedeemScriptsAssumption DEF Hashes
<1>. QED  BY <1>1 DEF Hash

-----------------------------------------------------------------------------
(* P2SH soundness for every value of the constants: Step appends a redeem  *)
(* script (part_003 606-628) only under a P2SH public key script, and only *)
(* the stack value whose HASH160 that script commits to.                   *)
THEOREM RedeemSound == Spec => []RedeemCommitted
<1>1. Init => PInv
  BY InitIInv, InitP2SH DEF PInv
<1>2. PInv /\ [Next]_vars => PInv'
  BY NextIInv, NextP2SH DEF PInv
<1>3. PInv => RedeemCommitted
  <2>. SUFFICES ASSUME PInv, Len(scripts) = 3 PROVE RedeemCommitted
    BY DEF RedeemCommitted
  <2>1. /\ bip16 /\ IsScriptHashScript(scripts[2])
        /\ scripts[3] = AsScript(Top(savedFirstStack))
        /\ Hash(Top(savedFirstStack)) = scripts[2][2].data
    BY DEF PInv, P2SHInv, P2SHFixed
  <2>2. Top(savedFirstStack) \in BaseItems
    BY <2>1, HashPreimage DEF IsScriptHashScript
  <2>. QED  BY <2>1, <2>2 DEF RedeemCommitted
<1>. QED  BY <1>1, <1>2, <1>3, PTL DEF Spec

(* Step never reads the redeem script from an empty saved stack (the Go    *)
(* index out of range at part_003 618): the P2SH public key script only    *)
(* reaches its end after OP_HASH160 consumed a saved value.                *)
THEOREM NoPanicProved == Spec => []NoPanic
<1>1. Init => PInv
  BY InitIInv, InitP2SH DEF PInv
<1>2. PInv /\ [Next]_vars => PInv'
  BY NextIInv, NextP2SH DEF PInv
<1>3. PInv => NoPanic
  BY DEF PInv, P2SHInv, P2SHFixed, NoPanic
<1>. QED  BY <1>1, <1>2, <1>3, PTL DEF Spec

=============================================================================
