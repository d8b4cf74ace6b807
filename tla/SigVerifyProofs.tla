--------------------------- MODULE SigVerifyProofs ---------------------------
(***************************************************************************)
(* Proofs about the shared signature cache of SigVerify, for every set of *)
(* engines, checks, signatures and every cache capacity.                   *)
(***************************************************************************)
EXTENDS SigVerify, TLAPS

(* Whatever SigCache.Add evicts, the cache afterwards holds only what it   *)
(* held before and the entry added.                                        *)
LEMMA AddResultsSubset ==
  ASSUME NEW c, NEW e, NEW c2 \in AddResults(c, e)
  PROVE  c2 \subseteq c \cup {e}
<1>1. CASE MaxEntries = 0
  BY <1>1, Zenon DEF AddResults
<1>2. CASE MaxEntries # 0 /\ Cardinality(c) + 1 > MaxEntries
  <2>1. PICK x \in c : c2 = Put(c \ {x}, e)
    BY <1>2, Zenon DEF AddResults
  <2>. QED  BY <2>1 DEF Put
<1>3. CASE MaxEntries # 0 /\ ~(Cardinality(c) + 1 > MaxEntries)
  <2>1. c2 = Put(c, e)
    BY <1>3, Zenon DEF AddResults
  <2>. QED  BY <2>1 DEF Put
<1>. QED  BY <1>1, <1>2, <1>3

(* The inductive invariant behind VerdictSound: the engines' state is a   *)
(* function of the engine; an engine between NewVerifier and its verdict  *)
(* has no verdict; an engine at "check" holds the hash of its own job; and *)
(* the cache is sound, so that a hit is ECDSA's answer.                    *)
VerdictInv ==
  /\ DOMAIN pc = Verifiers /\ DOMAIN job = Verifiers /\ DOMAIN b = Verifiers
  /\ DOMAIN hash = Verifiers /\ DOMAIN res = Verifiers
  /\ CacheSound
  /\ \A v \in Verifiers : pc[v] \in {"lookup", "check"} => res[v] = "none"
  /\ \A v \in Verifiers : pc[v] = "check" => hash[v] = VerifyHash(b[v], job[v].idx)
  /\ VerdictSound

(* The cache never holds a triple ECDSA rejects: verifySig adds a triple   *)
(* only after sig.Verify accepted it, and eviction and replacement only    *)
(* remove entries, however the engines' lookups and adds interleave.      *)
THEOREM CacheSoundProved == Spec => []CacheSound
<1>1. Init => CacheSound
  BY DEF Init, CacheSound
<1>2. CacheSound /\ [Next]_vars => CacheSound'
  <2> SUFFICES ASSUME CacheSound, [Next]_vars PROVE CacheSound'
    OBVIOUS
  <2>1. ASSUME NEW v \in Verifiers, NewVerifier(v) PROVE CacheSound'
    BY <2>1 DEF NewVerifier, CacheSound
  <2>2. ASSUME NEW v \in Verifiers, verifySigLookup(v) PROVE CacheSound'
    BY <2>2 DEF verifySigLookup, CacheSound
  <2>3. ASSUME NEW v \in Verifiers, verifySigCheck(v) PROVE CacheSound'
    <3>1. CASE EcdsaVerify(hash[v], b[v].sigBytes, job[v].pk)
      <4> DEFINE e == CacheEntry(hash[v], b[v].sigBytes, job[v].pk)
      <4>1. cache' \in AddResults(cache, e)
        BY <2>3, <3>1 DEF verifySigCheck
      <4>2. cache' \subseteq cache \cup {e}
        BY <4>1, AddResultsSubset
      <4>3. EcdsaVerify(e.hash, e.sig, e.pk)
        BY <3>1 DEF CacheEntry
      <4>. QED  BY <4>2, <4>3 DEF CacheSound
    <3>2. CASE ~EcdsaVerify(hash[v], b[v].sigBytes, job[v].pk)
      BY <2>3, <3>2 DEF verifySigCheck, CacheSound
    <3>. QED  BY <3>1, <3>2
  <2>4. CASE UNCHANGED vars
    BY <2>4 DEF vars, CacheSound
  <2>. QED  BY <2>1, <2>2, <2>3, <2>4 DEF Next
<1>. QED  BY <1>1, <1>2, PTL DEF Spec

(* newBaseSigVerifier either succeeds or reports an error or a panic.     *)
LEMMA BaseSigVerifierStatus ==
  ASSUME NEW pk, NEW full, NEW flags
  PROVE  newBaseSigVerifier(pk, full, flags).status \in {"ok", "err", "panic"}
BY Zenon DEF newBaseSigVerifier

(* An engine's verdict is ECDSA's answer on the hash of its own check,     *)
(* whichever engine added the entry it hit and whatever was evicted in     *)
(* between: VerdictInv is inductive.                                       *)
THEOREM VerdictSoundProved == Spec => []VerdictSound
<1>1. Init => VerdictInv
  BY DEF Init, VerdictInv, CacheSound, VerdictSound
<1>2. VerdictInv /\ [Next]_vars => VerdictInv'
  <2> SUFFICES ASSUME VerdictInv, [Next]_vars PROVE VerdictInv'
    OBVIOUS
  <2>1. ASSUME NEW v \in Verifiers, NewVerifier(v) PROVE VerdictInv'
    <3>1. PICK j \in Jobs : NewVerifierWith(v, j, newBaseSigVerifier(j.pk, j.fullSig, j.flags))
      BY <2>1 DEF NewVerifier
    <3> DEFINE nb == newBaseSigVerifier(j.pk, j.fullSig, j.flags)
    <3>2. nb.status \in {"ok", "err", "panic"}
      BY BaseSigVerifierStatus
    <3>3. UNCHANGED <<hash, cache>>
      BY <2>1 DEF NewVerifier
    <3>4. CASE nb.status = "ok"
      <4>1. pc' = [pc EXCEPT ![v] = "lookup"] /\ res' = [res EXCEPT ![v] = "none"]
            /\ job' = [job EXCEPT ![v] = j] /\ b' = [b EXCEPT ![v] = nb]
        BY <3>1, <3>4 DEF NewVerifierWith
      <4>. QED  BY <4>1, <3>3 DEF VerdictInv, CacheSound, VerdictSound
    <3>5. CASE nb.status # "ok"
      <4>1. pc' = [pc EXCEPT ![v] = "idle"] /\ res' = [res EXCEPT ![v] = nb.status]
            /\ job' = [job EXCEPT ![v] = j] /\ b' = [b EXCEPT ![v] = nb]
        BY <3>1, <3>5 DEF NewVerifierWith
      <4>2. nb.status \notin {"valid", "invalid"}
        BY <3>2
      <4>. QED  BY <4>1, <4>2, <3>3 DEF VerdictInv, CacheSound, VerdictSound
    <3>. QED  BY <3>4, <3>5
  <2>2. ASSUME NEW v \in Verifiers, verifySigLookup(v) PROVE VerdictInv'
    <3> DEFINE h == VerifyHash(b[v], job[v].idx)
    <3>1. pc[v] = "lookup" /\ verifySigLookupWith(v, h) /\ UNCHANGED <<job, b, cache>>
      BY <2>2 DEF verifySigLookup
    <3>2. hash' = [hash EXCEPT ![v] = h]
      BY <3>1 DEF verifySigLookupWith
    <3>3. CASE Exists(cache, h, b[v].sigBytes, job[v].pk)
      <4>1. pc' = [pc EXCEPT ![v] = "idle"] /\ res' = [res EXCEPT ![v] = "valid"]
        BY <3>1, <3>3 DEF verifySigLookupWith
      <4>2. EcdsaVerify(h, b[v].sigBytes, job[v].pk)
        BY <3>3 DEF VerdictInv, CacheSound, Exists, CacheEntry
      <4>. QED  BY <3>1, <3>2, <4>1, <4>2 DEF VerdictInv, CacheSound, VerdictSound
    <3>4. CASE ~Exists(cache, h, b[v].sigBytes, job[v].pk)
      <4>1. pc' = [pc EXCEPT ![v] = "check"] /\ res' = res
        BY <3>1, <3>4 DEF verifySigLookupWith
      <4>. QED  BY <3>1, <3>2, <4>1 DEF VerdictInv, CacheSound, VerdictSound
    <3>. QED  BY <3>3, <3>4
  <2>3. ASSUME NEW v \in Verifiers, verifySigCheck(v) PROVE VerdictInv'
    <3>1. pc[v] = "check" /\ pc' = [pc EXCEPT ![v] = "idle"] /\ UNCHANGED <<job, b, hash>>
      BY <2>3 DEF verifySigCheck
    <3>2. CacheSound'
      BY <2>3, AddResultsSubset DEF VerdictInv, verifySigCheck, CacheSound, CacheEntry
    <3>3. CASE EcdsaVerify(hash[v], b[v].sigBytes, job[v].pk)
      <4>1. res' = [res EXCEPT ![v] = "valid"]
        BY <2>3, <3>3 DEF verifySigCheck
      <4>. QED  BY <3>1, <3>2, <3>3, <4>1 DEF VerdictInv, VerdictSound
    <3>4. CASE ~EcdsaVerify(hash[v], b[v].sigBytes, job[v].pk)
      <4>1. res' = [res EXCEPT ![v] = "invalid"]
        BY <2>3, <3>4 DEF verifySigCheck
      <4>. QED  BY <3>1, <3>2, <3>4, <4>1 DEF VerdictInv, VerdictSound
    <3>. QED  BY <3>3, <3>4
  <2>4. CASE UNCHANGED vars
    BY <2>4 DEF vars, VerdictInv, CacheSound, VerdictSound
  <2>. QED  BY <2>1, <2>2, <2>3, <2>4 DEF Next
<1>3. VerdictInv => VerdictSound
  BY DEF VerdictInv
<1>. QED  BY <1>1, <1>2, <1>3, PTL DEF Spec
=============
