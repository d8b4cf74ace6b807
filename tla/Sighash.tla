------------------------------- MODULE Sighash -------------------------------
(***************************************************************************)
(* The legacy signature hash of txscript/sighash.go over a heap: a        *)
(* transaction holds pointers to its inputs and outputs, shallowCopyTx     *)
(* gives the copy fresh cells holding copies of the values, and            *)
(* calcSignatureHash writes through the copy's pointers before it          *)
(* serialises.  Cells the copy allocates are dropped when the call         *)
(* returns; only writes that reach the caller's cells survive.             *)
(*                                                                         *)
(* The serialisation is kept as the list of the fields it writes, and the  *)
(* double SHA-256 as an injective function of its input, so two digests    *)
(* are equal exactly when the serialised transactions and hash types are. *)
(***************************************************************************)
EXTENDS ScriptBytes, Functions

OP_CODESEPARATOR == 171

SigHashOld == 0
SigHashAll == 1
SigHashNone == 2
SigHashSingle == 3
SigHashAnyOneCanPay == 128
sigHashMask == 31

(* hashType & sigHashMask, and hashType & SigHashAnyOneCanPay != 0.        *)
BaseType(ht) == ht % (sigHashMask + 1)
AnyOneCanPay(ht) == (ht \div SigHashAnyOneCanPay) % 2 = 1

(* The bytes of the tokens t[keep[1]], t[keep[2]], ... of script s, in    *)
(* order: each token runs from the end of the one before it to its end.    *)
TokenStart(t, k) == IF k = 1 THEN 0 ELSE t[k - 1].end
JoinTokens(s, t, keep) ==
  LET F[j \in 0 .. Len(keep)] ==
        IF j = 0 THEN << >> ELSE F[j - 1] \o Slice(s, TokenStart(t, keep[j]), t[keep[j]].end)
  IN F[Len(keep)]

(* removeOpcodeRaw over the tokens t of s.                                 *)
RemoveOpcodeTokens(s, t, op) ==
  IF Len(s) = 0 THEN s
  ELSE JoinTokens(s, t, SelectSeq([k \in 1 .. Len(t) |-> k], LAMBDA k : t[k].op # op))

(* removeOpcodeRaw: the script's bytes without the tokens of opcode op.    *)
removeOpcodeRaw(s, op) == RemoveOpcodeTokens(s, Parse(s).toks, op)

(* Heap cells: a transaction's TxIn and TxOut pointers are addresses.      *)
CopyIn(i) == <<"cin", i>>
CopyOut(i) == <<"cout", i>>

(* Mutant: a copy of the transaction header that shares the input and     *)
(* output cells.                                                           *)
shallowCopyTxAliased(t, h) == [tx |-> t, heap |-> h]

(* shallowCopyTx: fresh contiguous cells, each a copy of the old value.    *)
shallowCopyTx(t, h) ==
  LET ins   == [i \in 1 .. Len(t.txIn) |-> CopyIn(i)]
      outs  == [i \in 1 .. Len(t.txOut) |-> CopyOut(i)]
      fresh == Range(ins) \cup Range(outs)
      old(a) == IF a[1] = "cin" THEN t.txIn[a[2]] ELSE t.txOut[a[2]]
  IN [tx   |-> [t EXCEPT !.txIn = ins, !.txOut = outs],
      heap |-> [a \in DOMAIN h \cup fresh |-> IF a \in fresh THEN h[old(a)] ELSE h[a]]]

(* Write new[i] into the cell ptrs[i + 1] points to, for every i in the    *)
(* domain of new.                                                          *)
WriteThrough(h, ptrs, new) ==
  [a \in DOMAIN h |->
     IF \E i \in DOMAIN new : ptrs[i + 1] = a
     THEN new[CHOOSE i \in DOMAIN new : ptrs[i + 1] = a] ELSE h[a]]

(* The serialisation without witness: version, inputs, outputs, lock time; *)
(* the hash type follows as a little-endian uint32.                        *)
SerializeNoWitness(t, h) ==
  [version |-> t.version, lockTime |-> t.lockTime,
   ins  |-> [k \in 1 .. Len(t.txIn) |-> h[t.txIn[k]]],
   outs |-> [k \in 1 .. Len(t.txOut) |-> h[t.txOut[k]]]]
Digest(ser, ht) == [one |-> FALSE, ser |-> ser, ht |-> ht]
OneHash == [one |-> TRUE, ser |-> << >>, ht |-> 0]

(* The sequence numbers of every input but idx are zeroed (NONE, SINGLE).  *)
ZeroOtherSequences(c, idx) ==
  WriteThrough(c.heap, c.tx.txIn,
               [i \in {j \in 0 .. Len(c.tx.txIn) - 1 : j # idx} |->
                  [c.heap[c.tx.txIn[i + 1]] EXCEPT !.sequence = 0]])

(* SIGHASH_SINGLE: outputs up to and including idx, earlier ones blanked.  *)
SingleOutputs(c, idx) ==
  [tx   |-> [c.tx EXCEPT !.txOut = SubSeq(@, 1, idx + 1)],
   heap |-> WriteThrough(ZeroOtherSequences(c, idx), c.tx.txOut,
                         [i \in 0 .. idx - 1 |->
                            [c.heap[c.tx.txOut[i + 1]] EXCEPT !.value = -1, !.pkScript = << >>]])]

(* Mutant: the out-of-range test one index late.                          *)
SingleOutOfRangeLate(ht, t, idx) == BaseType(ht) = SigHashSingle /\ idx > Len(t.txOut)

(* The out-of-range SIGHASH_SINGLE test of line 106.                      *)
SingleOutOfRange(ht, t, idx) == BaseType(ht) = SigHashSingle /\ idx >= Len(t.txOut)

(* Mutant: the other inputs keep their signature scripts.                 *)
SetSigScriptsKeepOthers(c, sc, idx) ==
  [c EXCEPT !.heap = WriteThrough(@, c.tx.txIn,
                [i \in 0 .. Len(c.tx.txIn) - 1 |->
                   [c.heap[c.tx.txIn[i + 1]] EXCEPT !.sigScript = IF i = idx THEN sc ELSE @]])]

(* The copy's inputs: the signed one gets the script code, the others an *)
(* empty signature script.                                                 *)
SetSigScripts(c, sc, idx) ==
  [c EXCEPT !.heap = WriteThrough(@, c.tx.txIn,
                [i \in 0 .. Len(c.tx.txIn) - 1 |->
                   [c.heap[c.tx.txIn[i + 1]] EXCEPT !.sigScript = IF i = idx THEN sc ELSE << >>]])]

(* The switch on the base hash type.                                       *)
ApplyHashType(c, ht, idx) ==
  CASE BaseType(ht) = SigHashNone ->
         [tx |-> [c.tx EXCEPT !.txOut = << >>], heap |-> ZeroOtherSequences(c, idx)]
    [] BaseType(ht) = SigHashSingle -> SingleOutputs(c, idx)
    [] OTHER -> c

(* ANYONECANPAY: only the signed input is kept.                            *)
ApplyAnyOneCanPay(c, ht, idx) ==
  IF AnyOneCanPay(ht) THEN [c EXCEPT !.tx.txIn = SubSeq(@, idx + 1, idx + 1)] ELSE c

(* The call's result from the copy c before ANYONECANPAY: [status, heap,  *)
(* digest]; heap is the caller's heap after the call.  Slicing             *)
(* TxOut[:idx+1] or TxIn[idx : idx+1] past the end panics.                 *)
SighashResult(c, ht, t, h, idx) ==
  LET keep(hh) == Restrict(hh, DOMAIN h)
  IN IF SingleOutOfRange(ht, t, idx) THEN [status |-> "ok", heap |-> h, digest |-> OneHash]
     ELSE IF BaseType(ht) = SigHashSingle /\ idx + 1 > Len(t.txOut)
     THEN [status |-> "panic", heap |-> h, digest |-> OneHash]
     ELSE IF AnyOneCanPay(ht) /\ idx >= Len(t.txIn)
     THEN [status |-> "panic", heap |-> keep(c.heap), digest |-> OneHash]
     ELSE LET d == ApplyAnyOneCanPay(c, ht, idx)
          IN [status |-> "ok", heap |-> keep(d.heap),
              digest |-> Digest(SerializeNoWitness(d.tx, d.heap), ht)]

(* calcSignatureHash: each stage works on the copy the one before made.   *)
calcSignatureHash(script, ht, t, h, idx) ==
  SighashResult(ApplyHashType(SetSigScripts(shallowCopyTx(t, h),
                                            removeOpcodeRaw(script, OP_CODESEPARATOR), idx),
                              ht, idx),
                ht, t, h, idx)

(* CalcSignatureHash refuses a script that does not parse.                *)
CalcSignatureHash(script, ht, t, h, idx) ==
  IF ~checkScriptParses(script) THEN [status |-> "err", heap |-> h, digest |-> OneHash]
  ELSE calcSignatureHash(script, ht, t, h, idx)

(* The reference: section 4.4 of the specification on transaction values  *)
(* [version, lockTime, ins, outs], as a signer computes it.                *)
SpecSighash(script, ht, v, idx) ==
  LET sc   == removeOpcodeRaw(script, OP_CODESEPARATOR)
      ins  == [k \in 1 .. Len(v.ins) |->
                 [v.ins[k] EXCEPT !.sigScript = IF k - 1 = idx THEN sc ELSE << >>,
                                  !.sequence  = IF k - 1 = idx \/ BaseType(ht) \notin {SigHashNone, SigHashSingle}
                                                THEN @ ELSE 0]]
      outs == CASE BaseType(ht) = SigHashNone -> << >>
                [] BaseType(ht) = SigHashSingle ->
                     [k \in 1 .. idx + 1 |->
                        IF k - 1 < idx THEN [value |-> -1, pkScript |-> << >>] ELSE v.outs[k]]
                [] OTHER -> v.outs
      signed == IF AnyOneCanPay(ht) THEN <<ins[idx + 1]>> ELSE ins
  IN IF BaseType(ht) = SigHashSingle /\ idx >= Len(v.outs) THEN OneHash
     ELSE Digest([v EXCEPT !.ins = signed, !.outs = outs], ht)

=============================================================================
