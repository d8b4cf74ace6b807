----------------------------- MODULE MCSigVerify -----------------------------
(***************************************************************************)
(* Two script engines share a signature cache of two entries while they   *)
(* check the signatures of a three-input, two-output transaction: honest  *)
(* signatures, the same signatures under another hash type, at another    *)
(* input, under another key, with another S value, malformed, and one     *)
(* that the subscript itself pushes.                                       *)
(***************************************************************************)
EXTENDS SigVerify

NIn == 3
NOut == 2
InAddr(i) == <<"in", i>>
OutAddr(i) == <<"out", i>>
MCTx == [version |-> 1, lockTime |-> 0,
         txIn |-> [i \in 1 .. NIn |-> InAddr(i)], txOut |-> [i \in 1 .. NOut |-> OutAddr(i)]]
MCHeap ==
  [a \in {InAddr(i) : i \in 1 .. NIn} \cup {OutAddr(i) : i \in 1 .. NOut} |->
     IF a[1] = "in" THEN [prevOut |-> a[2], sigScript |-> << >>, sequence |-> 5]
     ELSE [value |-> 10 * a[2], pkScript |-> <<OP_DUP, a[2]>>]]
TxValue == SerializeNoWitness(MCTx, MCHeap)

(* Key i is compressed with a distinct body; Hybrid is the same kind of    *)
(* point in the hybrid format.  Sig(i, t) is a minimal DER signature with  *)
(* R = i + 1 and S = t.                                                    *)
Key(i) == <<2, 75>> \o [k \in 1 .. 31 |-> i + 1]
Hybrid == <<6, 75>> \o [k \in 1 .. 63 |-> 1]
Sig(i, t) == <<48, 6, 2, 1, i + 1, 2, 1, t>>
OP_DROP == 117

(* Input 1's subscript pushes the very signature that spends it.           *)
MCSubScripts ==
  [i \in 0 .. NIn - 1 |->
     IF i = 1 THEN <<9>> \o Sig(1, 1) \o <<SigHashAll, OP_DROP, OP_CHECKSIG>>
     ELSE <<OP_DUP, OP_CHECKSIG>>]

(* The hash a signer of input i signs under hash type ht.                  *)
SignerHash(i, full) ==
  SpecSighash(removeOpcodeByData(MCSubScripts[i], full), full[Len(full)], TxValue, i)

(* Each input's key holder signs it under ALL and SINGLE, with S = type.  *)
MCSigned ==
  { [pk |-> Key(i), sig |-> Sig(i, ht), hash |-> SignerHash(i, Sig(i, ht) \o <<ht>>)] :
      i \in 0 .. NIn - 1, ht \in {SigHashAll, SigHashSingle} }

J(i, pk, sig, ht, flags) == [idx |-> i, pk |-> pk, fullSig |-> sig \o <<ht>>, flags |-> flags]
MCJobs ==
  { J(0, Key(0), Sig(0, 1), SigHashAll, {"strict"}),
    J(0, Key(0), Sig(0, 1), SigHashSingle, {}),
    J(1, Key(0), Sig(0, 1), SigHashAll, {}),
    J(0, Key(1), Sig(0, 1), SigHashAll, {"der"}),
    J(0, Key(0), Sig(0, 9), SigHashAll, {}),
    J(1, Key(1), Sig(1, 1), SigHashAll, {"strict", "lows"}),
    J(2, Key(2), Sig(2, 3), SigHashSingle, {"strict"}),
    J(0, Key(0), <<48, 7, 2, 1, 1, 2, 1, 1>>, SigHashAll, {"strict"}),
    J(0, Key(0), Sig(0, 1), 4, {"strict"}),
    J(0, Key(0), Sig(0, 1), 4, {}),
    J(0, Hybrid, Sig(0, 1), SigHashAll, {"strict"}) }

(* An engine's verdict on a parsed signature is the truth: valid exactly  *)
(* when the key holder signed, with that key, the hash section 4.4 gives  *)
(* for this input and the signature's hash type, over the subscript       *)
(* without the signature's pushes - whether the answer came from the      *)
(* shared cache or from ECDSA.                                             *)
VerifyCorrect ==
  \A v \in Verifiers :
    res[v] \in {"valid", "invalid"} =>
      (res[v] = "valid" <=>
         [pk |-> job[v].pk, sig |-> b[v].sigBytes, hash |-> SignerHash(job[v].idx, job[v].fullSig)]
           \in Signed)

=============================================================================
