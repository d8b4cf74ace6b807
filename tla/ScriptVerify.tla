---------------------------- MODULE ScriptVerify ----------------------------
(***************************************************************************)
(* What script validation promises, as the reference interpreter of the    *)
(* Bitcoin protocol states it (VerifyScript / EvalScript): each script is  *)
(* evaluated on its own with a fresh alternate stack and execution stack;  *)
(* the public key script continues on the stack the signature script left; *)
(* with P2SH the redeem script, popped from a copy of the signature        *)
(* script's stack, must succeed too; CleanStack asks for one value left.   *)
(*                                                                         *)
(* Its single step from "pending" to a verdict is the abstract             *)
(* specification the step-by-step ScriptEngine implements                  *)
(* (MCScriptEngine checks the refinement).  The execution stack holds      *)
(* booleans, a branch runs when none of them is false, and OP_ELSE negates *)
(* the innermost one: a formulation independent of the engine's three-     *)
(* valued conditional stack.  The per-script operation limit is left out:  *)
(* see the ScriptOpsBounded run.                                           *)
(***************************************************************************)
EXTENDS Script

CONSTANTS SigScripts, PkScripts, FlagSets, MaxStackSize, MaxScriptSize

VARIABLES sigScript, pkScript, vflags, verdict

LOCAL Last(s) == s[Len(s)]
LOCAL Front(s) == SubSeq(s, 1, Len(s) - 1)

(* One opcode applied to an evaluation state e = [ok, st, alt, vf].        *)
EvalOp(e, t, fl) ==
  LET fExec == \A j \in 1..Len(e.vf) : e.vf[j]
      bad == [e EXCEPT !.ok = FALSE]
      push(v) == [e EXCEPT !.st = Append(e.st, v)]
  IN
  IF t.op = "OP_BAD" \/ t.data = "BIG" \/ t.op = "OP_CAT" THEN bad
  ELSE IF ~fExec /\ ~(t.op \in {"OP_IF", "OP_NOTIF", "OP_ELSE", "OP_ENDIF", "OP_VERIF"})
    THEN e
  ELSE IF t.op \in PushOpNames
    THEN IF "MinimalData" \in fl /\ ~MinimalPush(t) THEN bad ELSE push(PushValue(t))
  ELSE CASE t.op = "OP_1" -> push("T")
         [] t.op \in {"OP_IF", "OP_NOTIF"} ->
              IF ~fExec THEN [e EXCEPT !.vf = Append(e.vf, FALSE)]
              ELSE IF e.st = << >> THEN bad
              ELSE [e EXCEPT !.st = Front(e.st),
                             !.vf = Append(e.vf, AsBool(Last(e.st)) = (t.op = "OP_IF"))]
         [] t.op = "OP_ELSE" ->
              IF e.vf = << >> THEN bad
              ELSE [e EXCEPT !.vf[Len(e.vf)] = ~@]
         [] t.op = "OP_ENDIF" ->
              IF e.vf = << >> THEN bad ELSE [e EXCEPT !.vf = Front(e.vf)]
         [] t.op = "OP_TOALTSTACK" ->
              IF e.st = << >> THEN bad
              ELSE [e EXCEPT !.st = Front(e.st), !.alt = Append(e.alt, Last(e.st))]
         [] t.op = "OP_FROMALTSTACK" ->
              IF e.alt = << >> THEN bad
              ELSE [e EXCEPT !.st = Append(e.st, Last(e.alt)), !.alt = Front(e.alt)]
         [] t.op = "OP_HASH160" ->
              IF e.st = << >> THEN bad
              ELSE [e EXCEPT !.st = Append(Front(e.st), Hash(Last(e.st)))]
         [] t.op = "OP_EQUAL" ->
              IF Len(e.st) < 2 THEN bad
              ELSE [e EXCEPT !.st = Append(Front(Front(e.st)),
                                     IF Last(e.st) = Last(Front(e.st)) THEN "T" ELSE "F")]
         [] OTHER -> bad

(* The opcodes of s from the i-th on, each followed by the stack-size      *)
(* check, stopping at the first failure.                                   *)
RECURSIVE Run(_, _, _, _)
Run(s, i, e, fl) ==
  IF i > Len(s) \/ ~e.ok THEN e
  ELSE LET e2 == EvalOp(e, s[i], fl)
       IN IF e2.ok /\ Len(e2.st) + Len(e2.alt) > MaxStackSize
            THEN [e2 EXCEPT !.ok = FALSE]
            ELSE Run(s, i + 1, e2, fl)

(* EvalScript: [ok, stack] after running s on stack st.                    *)
EvalScript(s, st, fl) ==
  IF Len(s) > MaxScriptSize THEN [ok |-> FALSE, st |-> st]
  ELSE LET e == Run(s, 1, [ok |-> TRUE, st |-> st, alt |-> << >>, vf |-> << >>], fl)
       IN [ok |-> e.ok /\ e.vf = << >>, st |-> e.st]

Accepts(r) == r.ok /\ r.st # << >> /\ AsBool(Last(r.st))

(* VerifyScript: TRUE when the spend is valid.                             *)
VerifyScript(sig, pk, fl) ==
  LET r1 == EvalScript(sig, << >>, fl)
      r2 == EvalScript(pk, r1.st, fl)
      p2sh == "Bip16" \in fl /\ IsScriptHashScript(pk)
      r3 == EvalScript(AsScript(Last(r1.st)), Front(r1.st), fl)
      final == IF p2sh THEN r3 ELSE r2
  IN /\ ~("SigPushOnly" \in fl /\ ~IsPushOnlyScript(sig))
     /\ r1.ok
     /\ Accepts(r2)
     /\ p2sh => IsPushOnlyScript(sig) /\ r1.st # << >> /\ Accepts(r3)
     /\ "CleanStack" \in fl => Len(final.st) = 1

Verdicts == {"pending", "valid", "invalid"}
VerdictOf(sig, pk, fl) == IF VerifyScript(sig, pk, fl) THEN "valid" ELSE "invalid"

VInit ==
  \E sig \in SigScripts, pk \in PkScripts, fl \in FlagSets :
    /\ sigScript = sig
    /\ pkScript = pk
    /\ vflags = fl
    /\ verdict \in {"pending", VerdictOf(sig, pk, fl)}

Decide ==
  /\ verdict = "pending"
  /\ verdict' = VerdictOf(sigScript, pkScript, vflags)
  /\ UNCHANGED <<sigScript, pkScript, vflags>>

VSpec == VInit /\ [][Decide]_<<sigScript, pkScript, vflags, verdict>>
=============================================================================
