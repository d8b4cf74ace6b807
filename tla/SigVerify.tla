------------------------------ MODULE SigVerify ------------------------------
(***************************************************************************)
(* The base signature verifier of txscript/sigvalidate.go and the encoding *)
(* checks of the engine it calls, run by several script engines at once   *)
(* that share one signature cache.  A verifier parses the signature and    *)
(* the public key (newBaseSigVerifier), then Verify() hashes the           *)
(* transaction with calcSignatureHash of Sighash and verifySig looks the   *)
(* triple up in the cache, checks it with ECDSA when it is not there and   *)
(* adds it.  The cache is read and written in separate steps, so other     *)
(* engines, and the cache's eviction, run in between.                      *)
(*                                                                         *)
(* ECDSA is the oracle Signed: the set of [pk, sig, hash] triples the key *)
(* holders produced.  A signature verifies exactly when it is in Signed.   *)
(***************************************************************************)
EXTENDS Sighash, FiniteSets

CONSTANTS Verifiers,    \* the script engines validating in parallel
          Jobs,         \* the [idx, pk, fullSig, flags] checks they are given
          SubScripts,   \* input index -> the script since the last separator
          Tx, Heap,     \* the transaction being validated
          Signed,       \* the [pk, sig, hash] triples the key holders signed
          MaxEntries    \* the signature cache's capacity

ASSUME MaxEntriesAssumption == MaxEntries \in Nat

(* Script flags, and hasFlag.                                              *)
ScriptVerifyDERSignatures == "der"
ScriptVerifyLowS == "lows"
ScriptVerifyStrictEncoding == "strict"
hasFlag(flags, f) == f \in flags

(* checkHashTypeEncoding: under strict encoding the type without the      *)
(* ANYONECANPAY bit is ALL, NONE or SINGLE.                                *)
checkHashTypeEncoding(flags, ht) ==
  LET base == IF AnyOneCanPay(ht) THEN ht - SigHashAnyOneCanPay ELSE ht
  IN ~hasFlag(flags, ScriptVerifyStrictEncoding) \/ base \in SigHashAll .. SigHashSingle

(* checkPubKeyEncoding: under strict encoding, compressed or uncompressed. *)
checkPubKeyEncoding(flags, pk) ==
  \/ ~hasFlag(flags, ScriptVerifyStrictEncoding)
  \/ Len(pk) = 33 /\ pk[1] \in {2, 3}
  \/ Len(pk) = 65 /\ pk[1] = 4

(* Half the order of secp256k1, big endian, and a comparison of unsigned   *)
(* big-endian numbers (big.Int SetBytes and Cmp).                          *)
halfOrder == <<127>> \o [i \in 1 .. 15 |-> 255] \o
             <<93, 87, 110, 115, 87, 164, 80, 29, 223, 233, 47, 70, 104, 27, 32, 160>>
StripZeros(s) ==
  LET nz == {k \in 1 .. Len(s) : s[k] # 0}
  IN IF nz = {} THEN << >> ELSE SubSeq(s, CHOOSE k \in nz : \A j \in nz : k <= j, Len(s))
GreaterBE(a, b) ==
  LET x == StripZeros(a)
      y == StripZeros(b)
  IN \/ Len(x) > Len(y)
     \/ Len(x) = Len(y) /\ \E k \in 1 .. Len(x) : x[k] > y[k] /\ \A j \in 1 .. k - 1 : x[j] = y[j]

(* The DER structure checks of checkSignatureEncoding, in the code's       *)
(* order: length bounds, sequence id, total length, the offsets of S, the *)
(* S length, then R and S each an integer, non-empty, non-negative and     *)
(* without padding.  Each test reads only bytes the earlier ones bound.    *)
DERStructureOk(sig) ==
  LET n == Len(sig)
      rLen == At(sig, 3)
      sT == 4 + rLen
      sLen == At(sig, sT + 1)
      sO == sT + 2
      IntOk(off, len) ==
        /\ len # 0
        /\ At(sig, off) < 128
        /\ ~(len > 1 /\ At(sig, off) = 0 /\ At(sig, off + 1) < 128)
  IN /\ n >= 8 /\ n <= 72
     /\ At(sig, 0) = 48
     /\ At(sig, 1) = n - 2
     /\ sT < n /\ sT + 1 < n
     /\ sO + sLen = n
     /\ At(sig, 2) = 2 /\ IntOk(4, rLen)
     /\ At(sig, sT) = 2 /\ IntOk(sO, sLen)
SValue(sig) == LET sT == 4 + At(sig, 3) IN Slice(sig, sT + 2, Len(sig))
checkSignatureEncoding(flags, sig) ==
  \/ flags \cap {ScriptVerifyDERSignatures, ScriptVerifyLowS, ScriptVerifyStrictEncoding} = {}
  \/ /\ DERStructureOk(sig)
     /\ hasFlag(flags, ScriptVerifyLowS) => ~GreaterBE(SValue(sig), halfOrder)

(* ecdsa.ParseDERSignature and ParseSignature: both need the structure of  *)
(* an ASN.1 sequence of two positive integers; R and S are below the order *)
(* in every signature the model builds.                                    *)
ParseSignatureOk(sig) == DERStructureOk(sig)

(* parseBaseSigAndPubkey and newBaseSigVerifier: the hash type is the last *)
(* byte of the signature, then the three encoding checks and the two       *)
(* parses, each returning its error.  An empty signature panics.           *)
newBaseSigVerifier(pk, full, flags) ==
  IF Len(full) = 0 THEN [status |-> "panic"]
  ELSE LET ht  == full[Len(full)]
           sig == SubSeq(full, 1, Len(full) - 1)
       IN IF /\ checkHashTypeEncoding(flags, ht)
             /\ checkSignatureEncoding(flags, sig)
             /\ checkPubKeyEncoding(flags, pk)
             /\ ParsePubKeyOk(pk)
             /\ ParseSignatureOk(sig)
          THEN [status |-> "ok", hashType |-> ht, sigBytes |-> sig, fullSigBytes |-> full]
          ELSE [status |-> "err"]

(* isCanonicalPush: the push the builder would have made for the data.    *)
isCanonicalPush(op, data) ==
  LET n == Len(data)
  IN ~ \/ op \in OP_DATA_1 .. OP_PUSHDATA1 - 1 /\ n = 1 /\ data[1] <= 16
       \/ op = OP_PUSHDATA1 /\ n < OP_PUSHDATA1
       \/ op = OP_PUSHDATA2 /\ n <= 255
       \/ op = OP_PUSHDATA4 /\ n <= 65535
Contains(data, sub) == \E k \in 0 .. Len(data) - Len(sub) : SubSeq(data, k + 1, k + Len(sub)) = sub

(* removeOpcodeByData: the script without its canonical pushes whose data *)
(* contains the given bytes; the script itself when none does.             *)
removeOpcodeByDataHit(t, k, d) ==
  t[k].op <= OP_PUSHDATA4 /\ isCanonicalPush(t[k].op, t[k].data) /\ Contains(t[k].data, d)
RemoveDataTokens(s, t, d) ==
  IF Len(s) = 0 \/ Len(d) = 0 \/ \A k \in 1 .. Len(t) : ~removeOpcodeByDataHit(t, k, d) THEN s
  ELSE JoinTokens(s, t, SelectSeq([k \in 1 .. Len(t) |-> k], LAMBDA k : ~removeOpcodeByDataHit(t, k, d)))
removeOpcodeByData(s, d) == RemoveDataTokens(s, Parse(s).toks, d)

(* The hash Verify() passes to verifySig: calcSignatureHash over the       *)
(* subscript without the signature's own pushes.                           *)
VerifyHash(bv, idx) ==
  calcSignatureHash(removeOpcodeByData(SubScripts[idx], bv.fullSigBytes), bv.hashType,
                    Tx, Heap, idx).digest

(* sig.Verify(sigHash, pubKey).                                            *)
EcdsaVerify(hash, sig, pk) == [pk |-> pk, sig |-> sig, hash |-> hash] \in Signed

(***************************************************************************)
(* The engines.  pc[v] is where engine v is: "idle" between checks, then   *)
(* "lookup" (Verify() about to hash and ask the cache) and "check"         *)
(* (sig.Verify and Add).  b[v] is its baseSigVerifier, hash[v] the hash it *)
(* computed, res[v] the outcome of its last check.                          *)
(***************************************************************************)
VARIABLES pc, job, b, hash, res, cache
vars == <<pc, job, b, hash, res, cache>>

(* The cache maps a signature hash to the signature and key verified for  *)
(* it: at most one entry per hash.                                         *)
CacheEntry(h, sig, pk) == [hash |-> h, sig |-> sig, pk |-> pk]

(* SigCache.Exists: an entry for the hash, with this signature and key.    *)
Exists(c, h, sig, pk) == CacheEntry(h, sig, pk) \in c

(* SigCache.Add: nothing with no capacity; when one more entry would not   *)
(* fit, a random entry is evicted first; the entry then replaces whatever  *)
(* the map held for its hash.                                              *)
Put(c, e) == {x \in c : x.hash # e.hash} \cup {e}
AddResults(c, e) ==
  IF MaxEntries = 0 THEN {c}
  ELSE IF Cardinality(c) + 1 > MaxEntries THEN { Put(c \ {x}, e) : x \in c }
  ELSE {Put(c, e)}

Init ==
  /\ pc = [v \in Verifiers |-> "idle"]
  /\ job = [v \in Verifiers |-> CHOOSE j \in Jobs : TRUE]
  /\ b = [v \in Verifiers |-> [status |-> "none"]]
  /\ hash = [v \in Verifiers |-> OneHash]
  /\ res = [v \in Verifiers |-> "none"]
  /\ cache = {}

(* OP_CHECKSIG hands engine v a check: newBaseSigVerifier parses it, and a *)
(* parse error ends the check.                                             *)
(* Mutant: a new check keeps the verdict of the engine's previous check. *)
NewVerifierWithKeepRes(v, j, nb) ==
  /\ job' = [job EXCEPT ![v] = j]
  /\ b' = [b EXCEPT ![v] = nb]
  /\ IF nb.status = "ok"
     THEN pc' = [pc EXCEPT ![v] = "lookup"] /\ UNCHANGED res
     ELSE pc' = [pc EXCEPT ![v] = "idle"] /\ res' = [res EXCEPT ![v] = nb.status]

NewVerifierWith(v, j, nb) ==
  /\ job' = [job EXCEPT ![v] = j]
  /\ b' = [b EXCEPT ![v] = nb]
  /\ IF nb.status = "ok"
     THEN pc' = [pc EXCEPT ![v] = "lookup"] /\ res' = [res EXCEPT ![v] = "none"]
     ELSE pc' = [pc EXCEPT ![v] = "idle"] /\ res' = [res EXCEPT ![v] = nb.status]

NewVerifier(v) ==
  /\ pc[v] = "idle"
  /\ \E j \in Jobs : NewVerifierWith(v, j, newBaseSigVerifier(j.pk, j.fullSig, j.flags))
  /\ UNCHANGED <<hash, cache>>

(* Mutant: the lookup matches an entry by hash and key, not signature.    *)
verifySigLookupKeyOnlyWith(v, h) ==
  /\ hash' = [hash EXCEPT ![v] = h]
  /\ IF \E e \in cache : e.hash = h /\ e.pk = job[v].pk
     THEN pc' = [pc EXCEPT ![v] = "idle"] /\ res' = [res EXCEPT ![v] = "valid"]
     ELSE pc' = [pc EXCEPT ![v] = "check"] /\ UNCHANGED res

verifySigLookupKeyOnly(v) ==
  /\ pc[v] = "lookup"
  /\ verifySigLookupKeyOnlyWith(v, VerifyHash(b[v], job[v].idx))
  /\ UNCHANGED <<job, b, cache>>

(* Verify(): the hash, then verifySig's cache lookup; a hit is valid.      *)
verifySigLookupWith(v, h) ==
  /\ hash' = [hash EXCEPT ![v] = h]
  /\ IF Exists(cache, h, b[v].sigBytes, job[v].pk)
     THEN pc' = [pc EXCEPT ![v] = "idle"] /\ res' = [res EXCEPT ![v] = "valid"]
     ELSE pc' = [pc EXCEPT ![v] = "check"] /\ UNCHANGED res

verifySigLookup(v) ==
  /\ pc[v] = "lookup"
  /\ verifySigLookupWith(v, VerifyHash(b[v], job[v].idx))
  /\ UNCHANGED <<job, b, cache>>

(* Mutant: the triple is added before ECDSA has answered.                  *)
verifySigCheckAddFirst(v) ==
  /\ pc[v] = "check"
  /\ pc' = [pc EXCEPT ![v] = "idle"]
  /\ cache' \in AddResults(cache, CacheEntry(hash[v], b[v].sigBytes, job[v].pk))
  /\ res' = [res EXCEPT ![v] = IF EcdsaVerify(hash[v], b[v].sigBytes, job[v].pk)
                                THEN "valid" ELSE "invalid"]
  /\ UNCHANGED <<job, b, hash>>

(* verifySig after a miss: ECDSA, and a valid triple is added.             *)
verifySigCheck(v) ==
  /\ pc[v] = "check"
  /\ pc' = [pc EXCEPT ![v] = "idle"]
  /\ IF EcdsaVerify(hash[v], b[v].sigBytes, job[v].pk)
     THEN /\ res' = [res EXCEPT ![v] = "valid"]
          /\ cache' \in AddResults(cache, CacheEntry(hash[v], b[v].sigBytes, job[v].pk))
     ELSE res' = [res EXCEPT ![v] = "invalid"] /\ UNCHANGED cache
  /\ UNCHANGED <<job, b, hash>>

Next == \E v \in Verifiers : NewVerifier(v) \/ verifySigLookup(v) \/ verifySigCheck(v)

Spec == Init /\ [][Next]_vars

(* No signature in Signed: every triple the cache holds was checked with  *)
(* ECDSA and held, whatever the other engine and the evictions did between *)
(* one engine's lookup and its Add.                                         *)
CacheSound == \A e \in cache : EcdsaVerify(e.hash, e.sig, e.pk)

(* Every verdict an engine reports, from the cache or from ECDSA, is       *)
(* ECDSA's answer for the signature and key of its own check, on the hash *)
(* Verify() computes for that check: a hit on an entry another engine     *)
(* added, or an eviction between lookup and Add, never makes an engine    *)
(* report a verdict about another signature or hash.                      *)
VerdictSound ==
  \A v \in Verifiers :
    res[v] \in {"valid", "invalid"} =>
      /\ hash[v] = VerifyHash(b[v], job[v].idx)
      /\ res[v] = "valid" <=> EcdsaVerify(hash[v], b[v].sigBytes, job[v].pk)

=============================================================================
