---------------------------- MODULE SighashProofs ----------------------------
(***************************************************************************)
(* Proofs about calcSignatureHash of Sighash for every transaction and    *)
(* every heap, and the action property TxIntact of MCSighash for every    *)
(* number of inputs and outputs.                                           *)
(***************************************************************************)
EXTENDS MCSighash, TLAPS

(* The cells shallowCopyTx allocates.                                     *)
Fresh == {CopyIn(i) : i \in Nat} \cup {CopyOut(i) : i \in Nat}

(* A caller's heap holds none of them.                                     *)
Disjoint(h) == DOMAIN h \cap Fresh = {}

(* A copy c of the call: the caller's cells hold what they held in h, and *)
(* the copy's transaction points only at fresh cells.                      *)
Keeps(c, h) == DOMAIN h \subseteq DOMAIN c.heap /\ \A a \in DOMAIN h : c.heap[a] = h[a]
CopyOK(c, h) ==
  /\ c = [tx |-> c.tx, heap |-> c.heap]
  /\ c.tx.txIn \in Seq(Fresh) /\ c.tx.txOut \in Seq(Fresh)
  /\ Keeps(c, h)

(* A write through the first n pointers of a copy, n at most their        *)
(* number, leaves the caller's cells as they were.                         *)
LEMMA WriteThroughCopy ==
  ASSUME NEW h, Disjoint(h), NEW hh, NEW ptrs \in Seq(Fresh), NEW vals,
         DOMAIN vals \subseteq 0 .. Len(ptrs) - 1,
         DOMAIN h \subseteq DOMAIN hh, \A a \in DOMAIN h : hh[a] = h[a]
  PROVE  /\ DOMAIN h \subseteq DOMAIN WriteThrough(hh, ptrs, vals)
         /\ \A a \in DOMAIN h : WriteThrough(hh, ptrs, vals)[a] = h[a]
<1>1. \A i \in DOMAIN vals : ptrs[i + 1] \in Fresh
  BY DEF Fresh
<1>2. \A i \in DOMAIN vals : ptrs[i + 1] \notin DOMAIN h
  BY <1>1 DEF Disjoint
<1>. QED  BY <1>2 DEF WriteThrough

(* shallowCopyTx: pointers to fresh cells, one per input and output, and  *)
(* a heap that agrees with the caller's on its cells.                      *)
LEMMA ShallowCopyFacts ==
  ASSUME NEW t, NEW h, Disjoint(h),
         "txIn" \in DOMAIN t, "txOut" \in DOMAIN t,
         NEW S, t.txIn \in Seq(S), t.txOut \in Seq(S)
  PROVE  /\ CopyOK(shallowCopyTx(t, h), h)
         /\ Len(shallowCopyTx(t, h).tx.txIn) = Len(t.txIn)
         /\ Len(shallowCopyTx(t, h).tx.txOut) = Len(t.txOut)
<1> DEFINE ins  == [i \in 1 .. Len(t.txIn) |-> CopyIn(i)]
           outs == [i \in 1 .. Len(t.txOut) |-> CopyOut(i)]
           c    == shallowCopyTx(t, h)
<1>1. c.tx = [t EXCEPT !.txIn = ins, !.txOut = outs]
  BY DEF shallowCopyTx
<1>2. c.tx.txIn = ins /\ c.tx.txOut = outs
  BY <1>1
<1>3. ins \in Seq(Fresh) /\ outs \in Seq(Fresh) /\ Len(ins) = Len(t.txIn) /\ Len(outs) = Len(t.txOut)
  BY DEF Fresh
<1>4. \A a \in DOMAIN h : a \notin Range(ins) \cup Range(outs)
  BY <1>3 DEF Disjoint, Range
<1>5. c.heap =
        [a \in DOMAIN h \cup (Range(ins) \cup Range(outs)) |->
           IF a \in Range(ins) \cup Range(outs)
           THEN h[IF a[1] = "cin" THEN t.txIn[a[2]] ELSE t.txOut[a[2]]] ELSE h[a]]
  BY DEF shallowCopyTx
<1>6. Keeps(c, h)
  BY <1>4, <1>5 DEF Keeps
<1>7. c = [tx |-> c.tx, heap |-> c.heap]
  BY DEF shallowCopyTx
<1>. QED  BY <1>2, <1>3, <1>6, <1>7 DEF CopyOK
(* SetSigScripts writes only through the copy's input pointers.          *)
LEMMA SetSigScriptsFacts ==
  ASSUME NEW c, NEW h, Disjoint(h), CopyOK(c, h), NEW sc, NEW idx
  PROVE  /\ CopyOK(SetSigScripts(c, sc, idx), h)
         /\ SetSigScripts(c, sc, idx).tx = c.tx
<1> DEFINE w == [i \in 0 .. Len(c.tx.txIn) - 1 |->
                     [c.heap[c.tx.txIn[i + 1]] EXCEPT !.sigScript = IF i = idx THEN sc ELSE << >>]]
<1>1. SetSigScripts(c, sc, idx) = [tx |-> c.tx, heap |-> WriteThrough(c.heap, c.tx.txIn, w)]
  BY DEF CopyOK, SetSigScripts
<1>2. /\ DOMAIN h \subseteq DOMAIN WriteThrough(c.heap, c.tx.txIn, w)
      /\ \A a \in DOMAIN h : WriteThrough(c.heap, c.tx.txIn, w)[a] = h[a]
  BY WriteThroughCopy DEF CopyOK, Keeps
<1>. QED  BY <1>1, <1>2 DEF CopyOK, Keeps

(* ZeroOtherSequences writes only through the copy's input pointers.      *)
LEMMA ZeroOtherSequencesKeeps ==
  ASSUME NEW c, NEW h, Disjoint(h), CopyOK(c, h), NEW idx
  PROVE  /\ DOMAIN h \subseteq DOMAIN ZeroOtherSequences(c, idx)
         /\ \A a \in DOMAIN h : ZeroOtherSequences(c, idx)[a] = h[a]
<1> DEFINE w == [i \in {j \in 0 .. Len(c.tx.txIn) - 1 : j # idx} |->
                     [c.heap[c.tx.txIn[i + 1]] EXCEPT !.sequence = 0]]
<1>1. ZeroOtherSequences(c, idx) = WriteThrough(c.heap, c.tx.txIn, w)
  BY DEF ZeroOtherSequences
<1>. QED  BY <1>1, WriteThroughCopy DEF CopyOK, Keeps

(* The switch on the hash type writes only through the copy's pointers,   *)
(* when SIGHASH_SINGLE keeps no more outputs than the copy has.            *)
LEMMA ApplyHashTypeKeeps ==
  ASSUME NEW c, NEW h, Disjoint(h), CopyOK(c, h), NEW ht, NEW idx \in Nat,
         BaseType(ht) = SigHashSingle => idx + 1 <= Len(c.tx.txOut)
  PROVE  Keeps(ApplyHashType(c, ht, idx), h)
<1>1. CASE BaseType(ht) = SigHashNone
  <2>1. ApplyHashType(c, ht, idx).heap = ZeroOtherSequences(c, idx)
    BY <1>1 DEF ApplyHashType, SigHashNone, SigHashSingle
  <2>. QED  BY <2>1, ZeroOtherSequencesKeeps DEF Keeps
<1>2. CASE BaseType(ht) = SigHashSingle
  <2> DEFINE z   == ZeroOtherSequences(c, idx)
             w == [i \in 0 .. idx - 1 |->
                       [c.heap[c.tx.txOut[i + 1]] EXCEPT !.value = -1, !.pkScript = << >>]]
  <2>1. BaseType(ht) # SigHashNone
    BY <1>2 DEF SigHashNone, SigHashSingle
  <2>2. ApplyHashType(c, ht, idx).heap = WriteThrough(z, c.tx.txOut, w)
    BY <1>2, <2>1, Zenon DEF ApplyHashType, SingleOutputs
  <2>3. DOMAIN h \subseteq DOMAIN z /\ \A a \in DOMAIN h : z[a] = h[a]
    BY ZeroOtherSequencesKeeps
  <2>4. DOMAIN w \subseteq 0 .. Len(c.tx.txOut) - 1 /\ c.tx.txOut \in Seq(Fresh)
    BY <1>2 DEF CopyOK
  <2>5. /\ DOMAIN h \subseteq DOMAIN WriteThrough(z, c.tx.txOut, w)
        /\ \A a \in DOMAIN h : WriteThrough(z, c.tx.txOut, w)[a] = h[a]
    <3>1. \A i \in DOMAIN w : c.tx.txOut[i + 1] \in Fresh
      BY <2>4
    <3>2. \A i \in DOMAIN w : c.tx.txOut[i + 1] \notin DOMAIN h
      BY <3>1 DEF Disjoint
    <3>. QED  BY <2>3, <3>2 DEF WriteThrough
  <2>. QED  BY <2>2, <2>5 DEF Keeps
<1>3. CASE BaseType(ht) # SigHashNone /\ BaseType(ht) # SigHashSingle
  BY <1>3 DEF ApplyHashType, CopyOK
<1>. QED  BY <1>1, <1>2, <1>3

(* ANYONECANPAY changes the copy's inputs only.                            *)
LEMMA AnyOneCanPayHeap ==
  ASSUME NEW c, c = [tx |-> c.tx, heap |-> c.heap], NEW ht, NEW idx
  PROVE  ApplyAnyOneCanPay(c, ht, idx).heap = c.heap
BY DEF ApplyAnyOneCanPay

(* Every arm of the switch on the hash type returns a copy.              *)
LEMMA ApplyHashTypeRecord ==
  ASSUME NEW c, c = [tx |-> c.tx, heap |-> c.heap], NEW ht, NEW idx
  PROVE  ApplyHashType(c, ht, idx) =
           [tx |-> ApplyHashType(c, ht, idx).tx, heap |-> ApplyHashType(c, ht, idx).heap]
<1>1. CASE BaseType(ht) = SigHashNone
  <2>1. ApplyHashType(c, ht, idx) =
          [tx |-> [c.tx EXCEPT !.txOut = << >>], heap |-> ZeroOtherSequences(c, idx)]
    BY <1>1 DEF ApplyHashType, SigHashNone, SigHashSingle
  <2>. QED  BY <2>1
<1>2. CASE BaseType(ht) = SigHashSingle
  <2>1. BaseType(ht) # SigHashNone
    BY <1>2 DEF SigHashNone, SigHashSingle
  <2>2. ApplyHashType(c, ht, idx) = SingleOutputs(c, idx)
    BY <1>2, <2>1, Zenon DEF ApplyHashType
  <2>. QED  BY <2>2 DEF SingleOutputs
<1>3. CASE BaseType(ht) # SigHashNone /\ BaseType(ht) # SigHashSingle
  BY <1>3, Zenon DEF ApplyHashType
<1>. QED  BY <1>1, <1>2, <1>3

(* calcSignatureHash hands its caller back the heap it was given: every    *)
(* write of the call (signature scripts, sequences, blanked outputs) lands *)
(* in the copy's cells, which the call drops, on every path, the panics    *)
(* of the slices included.                                                  *)
LEMMA CalcKeepsHeap ==
  ASSUME NEW script, NEW ht, NEW t, NEW h, NEW idx \in Nat,
         Disjoint(h), h = [a \in DOMAIN h |-> h[a]],
         "txIn" \in DOMAIN t, "txOut" \in DOMAIN t,
         NEW S, t.txIn \in Seq(S), t.txOut \in Seq(S)
  PROVE  CalcSignatureHash(script, ht, t, h, idx).heap = h
<1> DEFINE c0 == shallowCopyTx(t, h)
           c1 == SetSigScripts(c0, removeOpcodeRaw(script, OP_CODESEPARATOR), idx)
           c2 == ApplyHashType(c1, ht, idx)
<1>1. CopyOK(c0, h) /\ Len(c0.tx.txOut) = Len(t.txOut)
  BY ShallowCopyFacts
<1>2. CopyOK(c1, h) /\ c1.tx = c0.tx
  BY <1>1, SetSigScriptsFacts
<1>3. c2 = [tx |-> c2.tx, heap |-> c2.heap]
  BY <1>2, ApplyHashTypeRecord DEF CopyOK
<1>4. calcSignatureHash(script, ht, t, h, idx) = SighashResult(c2, ht, t, h, idx)
  BY DEF calcSignatureHash
<1>5. CASE SingleOutOfRange(ht, t, idx) \/ (BaseType(ht) = SigHashSingle /\ idx + 1 > Len(t.txOut))
  BY <1>4, <1>5 DEF CalcSignatureHash, SighashResult
<1>6. CASE ~SingleOutOfRange(ht, t, idx) /\ ~(BaseType(ht) = SigHashSingle /\ idx + 1 > Len(t.txOut))
  <2>1. Keeps(c2, h)
    <3>1. BaseType(ht) = SigHashSingle => idx + 1 <= Len(c1.tx.txOut)
      BY <1>1, <1>2, <1>6 DEF SingleOutOfRange
    <3>. QED  BY <1>2, <3>1, ApplyHashTypeKeeps
  <2>2. Restrict(c2.heap, DOMAIN h) = h
    BY <2>1 DEF Keeps, Restrict
  <2>3. ApplyAnyOneCanPay(c2, ht, idx).heap = c2.heap
    BY <1>3, AnyOneCanPayHeap
  <2>4. SighashResult(c2, ht, t, h, idx).heap = Restrict(c2.heap, DOMAIN h)
    BY <1>6, <2>3 DEF SighashResult
  <2>. QED  BY <1>4, <2>2, <2>4 DEF CalcSignatureHash
<1>. QED  BY <1>5, <1>6

(***************************************************************************)
(* What the hash is: the cells of the copy, stage by stage.                *)
(***************************************************************************)

(* A write through pointers that are pairwise distinct puts w[k - 1]     *)
(* into the k-th pointed cell, when k - 1 is written.                      *)
LEMMA WriteThroughAt ==
  ASSUME NEW hA, NEW lenA \in Nat, NEW pA \in [1 .. lenA -> DOMAIN hA],
         \A i, j \in 1 .. lenA : pA[i] = pA[j] => i = j,
         NEW vA, DOMAIN vA \subseteq 0 .. lenA - 1, NEW kA \in 1 .. lenA
  PROVE  WriteThrough(hA, pA, vA)[pA[kA]] =
           IF kA - 1 \in DOMAIN vA THEN vA[kA - 1] ELSE hA[pA[kA]]
<1>1. \A i \in DOMAIN vA : pA[i + 1] = pA[kA] <=> i = kA - 1
  OBVIOUS
<1>2. CASE kA - 1 \in DOMAIN vA
  <2>1. (CHOOSE i \in DOMAIN vA : pA[i + 1] = pA[kA]) = kA - 1
    BY <1>1, <1>2
  <2>. QED  BY <1>2, <2>1 DEF WriteThrough
<1>3. CASE kA - 1 \notin DOMAIN vA
  BY <1>1, <1>3 DEF WriteThrough
<1>. QED  BY <1>2, <1>3

(* A cell no pointer of the write reaches keeps its value.                 *)
LEMMA WriteThroughMiss ==
  ASSUME NEW hh, NEW ptrs, NEW vals, NEW a \in DOMAIN hh,
         \A i \in DOMAIN vals : ptrs[i + 1] # a
  PROVE  WriteThrough(hh, ptrs, vals)[a] = hh[a]
BY DEF WriteThrough

(* The copy's cells are pairwise distinct.                                 *)
LEMMA CopyCellsDistinct ==
  /\ \A i, j : CopyIn(i) = CopyIn(j) => i = j
  /\ \A i, j : CopyOut(i) = CopyOut(j) => i = j
  /\ \A i, j : CopyIn(i) # CopyOut(j)
BY DEF CopyIn, CopyOut

(* What shallowCopyTx puts into the copy's cells.                          *)
LEMMA ShallowCopyCells ==
  ASSUME NEW t, NEW h, NEW S, t.txIn \in Seq(S), t.txOut \in Seq(S)
  PROVE  /\ \A k \in 1 .. Len(t.txIn) :
              /\ CopyIn(k) \in DOMAIN shallowCopyTx(t, h).heap
              /\ shallowCopyTx(t, h).heap[CopyIn(k)] = h[t.txIn[k]]
         /\ \A k \in 1 .. Len(t.txOut) :
              /\ CopyOut(k) \in DOMAIN shallowCopyTx(t, h).heap
              /\ shallowCopyTx(t, h).heap[CopyOut(k)] = h[t.txOut[k]]
<1> DEFINE ins  == [i \in 1 .. Len(t.txIn) |-> CopyIn(i)]
           outs == [i \in 1 .. Len(t.txOut) |-> CopyOut(i)]
<1>1. shallowCopyTx(t, h).heap =
        [a \in DOMAIN h \cup (Range(ins) \cup Range(outs)) |->
           IF a \in Range(ins) \cup Range(outs)
           THEN h[IF a[1] = "cin" THEN t.txIn[a[2]] ELSE t.txOut[a[2]]] ELSE h[a]]
  BY DEF shallowCopyTx
<1>2. \A k \in 1 .. Len(t.txIn) : CopyIn(k) \in Range(ins) /\ CopyIn(k)[1] = "cin" /\ CopyIn(k)[2] = k
  BY DEF Range, CopyIn
<1>3. \A k \in 1 .. Len(t.txOut) : CopyOut(k) \in Range(outs) /\ CopyOut(k)[1] = "cout" /\ CopyOut(k)[2] = k
  BY DEF Range, CopyOut
<1>. QED  BY <1>1, <1>2, <1>3

(* The copy's n input pointers and m output pointers.                      *)
CopyIns(n) == [i \in 1 .. n |-> CopyIn(i)]
CopyOuts(m) == [i \in 1 .. m |-> CopyOut(i)]

(* A heap hh that holds the copy's n input cells and m output cells.       *)
HoldsCopy(hh, n, m) ==
  /\ \A k \in 1 .. n : CopyIn(k) \in DOMAIN hh
  /\ \A k \in 1 .. m : CopyOut(k) \in DOMAIN hh

(* A write through the first pointers of the copy's inputs (outputs)       *)
(* changes those cells only.                                               *)
LEMMA InWrite ==
  ASSUME NEW hI, NEW nI \in Nat, NEW mI \in Nat, HoldsCopy(hI, nI, mI),
         NEW vI, DOMAIN vI \subseteq 0 .. nI - 1
  PROVE  /\ DOMAIN WriteThrough(hI, CopyIns(nI), vI) = DOMAIN hI
         /\ \A k \in 1 .. nI : WriteThrough(hI, CopyIns(nI), vI)[CopyIn(k)] =
              IF k - 1 \in DOMAIN vI THEN vI[k - 1] ELSE hI[CopyIn(k)]
         /\ \A k \in 1 .. mI : WriteThrough(hI, CopyIns(nI), vI)[CopyOut(k)] = hI[CopyOut(k)]
<1>1. CopyIns(nI) \in [1 .. nI -> DOMAIN hI] /\ \A i, j \in 1 .. nI : CopyIns(nI)[i] = CopyIns(nI)[j] => i = j
  BY CopyCellsDistinct DEF CopyIns, HoldsCopy
<1>2. \A k \in 1 .. nI : WriteThrough(hI, CopyIns(nI), vI)[CopyIns(nI)[k]] =
        IF k - 1 \in DOMAIN vI THEN vI[k - 1] ELSE hI[CopyIns(nI)[k]]
  <2> TAKE k \in 1 .. nI
  <2>. QED  BY <1>1, WriteThroughAt
<1>3. \A k \in 1 .. mI : \A i \in DOMAIN vI : CopyIns(nI)[i + 1] # CopyOut(k)
  BY CopyCellsDistinct DEF CopyIns
<1>. QED  BY <1>2, <1>3, WriteThroughMiss DEF WriteThrough, CopyIns, HoldsCopy

LEMMA OutWrite ==
  ASSUME NEW hO, NEW nO \in Nat, NEW mO \in Nat, HoldsCopy(hO, nO, mO),
         NEW vO, DOMAIN vO \subseteq 0 .. mO - 1
  PROVE  /\ DOMAIN WriteThrough(hO, CopyOuts(mO), vO) = DOMAIN hO
         /\ \A k \in 1 .. mO : WriteThrough(hO, CopyOuts(mO), vO)[CopyOut(k)] =
              IF k - 1 \in DOMAIN vO THEN vO[k - 1] ELSE hO[CopyOut(k)]
         /\ \A k \in 1 .. nO : WriteThrough(hO, CopyOuts(mO), vO)[CopyIn(k)] = hO[CopyIn(k)]
<1>1. CopyOuts(mO) \in [1 .. mO -> DOMAIN hO] /\ \A i, j \in 1 .. mO : CopyOuts(mO)[i] = CopyOuts(mO)[j] => i = j
  BY CopyCellsDistinct DEF CopyOuts, HoldsCopy
<1>2. \A k \in 1 .. mO : WriteThrough(hO, CopyOuts(mO), vO)[CopyOuts(mO)[k]] =
        IF k - 1 \in DOMAIN vO THEN vO[k - 1] ELSE hO[CopyOuts(mO)[k]]
  <2> TAKE k \in 1 .. mO
  <2>1. \A i \in DOMAIN vO : CopyOuts(mO)[i + 1] = CopyOuts(mO)[k] <=> i = k - 1
    BY <1>1
  <2>2. CASE k - 1 \in DOMAIN vO
    <3>1. (CHOOSE i \in DOMAIN vO : CopyOuts(mO)[i + 1] = CopyOuts(mO)[k]) = k - 1
      BY <2>1, <2>2
    <3>. QED  BY <2>2, <3>1, <1>1 DEF WriteThrough
  <2>3. CASE k - 1 \notin DOMAIN vO
    BY <2>1, <2>3, <1>1 DEF WriteThrough
  <2>. QED  BY <2>2, <2>3
<1>3. \A k \in 1 .. nO : \A i \in DOMAIN vO : CopyOuts(mO)[i + 1] # CopyIn(k)
  BY CopyCellsDistinct DEF CopyOuts
<1>. QED  BY <1>2, <1>3, WriteThroughMiss DEF WriteThrough, CopyOuts, HoldsCopy

(* The copy's transaction record: header V, L and the copy's pointers.     *)
CopyTx(V, L, n, m) == [version |-> V, lockTime |-> L, txIn |-> CopyIns(n), txOut |-> CopyOuts(m)]

(* shallowCopyTx of a transaction record.                                  *)
LEMMA ShallowCopyTxRecord ==
  ASSUME NEW t, NEW h, NEW S, t.txIn \in Seq(S), t.txOut \in Seq(S),
         t = [version |-> t.version, lockTime |-> t.lockTime, txIn |-> t.txIn, txOut |-> t.txOut]
  PROVE  /\ shallowCopyTx(t, h) = [tx |-> shallowCopyTx(t, h).tx, heap |-> shallowCopyTx(t, h).heap]
         /\ shallowCopyTx(t, h).tx = CopyTx(t.version, t.lockTime, Len(t.txIn), Len(t.txOut))
         /\ HoldsCopy(shallowCopyTx(t, h).heap, Len(t.txIn), Len(t.txOut))
<1>1. shallowCopyTx(t, h).tx =
        [t EXCEPT !.txIn = CopyIns(Len(t.txIn)), !.txOut = CopyOuts(Len(t.txOut))]
  BY DEF shallowCopyTx, CopyIns, CopyOuts
<1>2. shallowCopyTx(t, h) = [tx |-> shallowCopyTx(t, h).tx, heap |-> shallowCopyTx(t, h).heap]
  BY DEF shallowCopyTx
<1>. QED  BY <1>1, <1>2, ShallowCopyCells DEF CopyTx, HoldsCopy

(* The three updates of a cell the hash makes on the copy.                *)
WithSig(r, v) == [r EXCEPT !.sigScript = v]
ZeroSeq(r) == [r EXCEPT !.sequence = 0]
Blank(r) == [r EXCEPT !.value = -1, !.pkScript = << >>]

(* What SetSigScripts writes into the copy's cells.                        *)
LEMMA SetSigScriptsCells ==
  ASSUME NEW c, NEW V, NEW L, NEW n \in Nat, NEW m \in Nat,
         c = [tx |-> CopyTx(V, L, n, m), heap |-> c.heap], HoldsCopy(c.heap, n, m),
         NEW sc, NEW idx
  PROVE  /\ SetSigScripts(c, sc, idx) = [tx |-> CopyTx(V, L, n, m), heap |-> SetSigScripts(c, sc, idx).heap]
         /\ HoldsCopy(SetSigScripts(c, sc, idx).heap, n, m)
         /\ \A k \in 1 .. n : SetSigScripts(c, sc, idx).heap[CopyIn(k)] =
              WithSig(c.heap[CopyIn(k)], IF k - 1 = idx THEN sc ELSE << >>)
         /\ \A k \in 1 .. m : SetSigScripts(c, sc, idx).heap[CopyOut(k)] = c.heap[CopyOut(k)]
<1> DEFINE w == [i \in 0 .. n - 1 |-> WithSig(c.heap[CopyIn(i + 1)], IF i = idx THEN sc ELSE << >>)]
<1>1. SetSigScripts(c, sc, idx) =
        [c EXCEPT !.heap = WriteThrough(c.heap, c.tx.txIn,
                             [i \in 0 .. Len(c.tx.txIn) - 1 |->
                                WithSig(c.heap[c.tx.txIn[i + 1]], IF i = idx THEN sc ELSE << >>)])]
  BY Zenon DEF SetSigScripts, WithSig
<1>2. c.tx.txIn = CopyIns(n) /\ Len(CopyIns(n)) = n /\ \A i \in 0 .. n - 1 : CopyIns(n)[i + 1] = CopyIn(i + 1)
  BY DEF CopyTx, CopyIns
<1>3. SetSigScripts(c, sc, idx) = [tx |-> CopyTx(V, L, n, m), heap |-> WriteThrough(c.heap, CopyIns(n), w)]
  <2>1. [i \in 0 .. Len(c.tx.txIn) - 1 |->
           WithSig(c.heap[c.tx.txIn[i + 1]], IF i = idx THEN sc ELSE << >>)] = w
    BY <1>2
  <2>2. c.tx.txIn = CopyIns(n)
    BY <1>2
  <2>. HIDE DEF w
  <2>. QED  BY <1>1, <2>1, <2>2
<1>4. /\ DOMAIN WriteThrough(c.heap, CopyIns(n), w) = DOMAIN c.heap
      /\ \A k \in 1 .. n : WriteThrough(c.heap, CopyIns(n), w)[CopyIn(k)] =
           IF k - 1 \in DOMAIN w THEN w[k - 1] ELSE c.heap[CopyIn(k)]
      /\ \A k \in 1 .. m : WriteThrough(c.heap, CopyIns(n), w)[CopyOut(k)] = c.heap[CopyOut(k)]
  <2>1. DOMAIN w \subseteq 0 .. n - 1
    OBVIOUS
  <2>. HIDE DEF w
  <2>. QED  BY <2>1, InWrite
<1>5. \A k \in 1 .. n : k - 1 \in DOMAIN w /\ w[k - 1] = WithSig(c.heap[CopyIn(k)], IF k - 1 = idx THEN sc ELSE << >>)
  OBVIOUS
<1>. HIDE DEF w
<1>. QED  BY <1>3, <1>4, <1>5 DEF HoldsCopy

(* The values SetSigScripts writes through the copy's n input pointers.  *)
SigVals(hh, n, sc, idx) == [i \in 0 .. n - 1 |-> WithSig(hh[CopyIn(i + 1)], IF i = idx THEN sc ELSE << >>)]

(* SetSigScripts is one write through the copy's input pointers.          *)
LEMMA SetSigHeap ==
  ASSUME NEW c, NEW n \in Nat, NEW m \in Nat,
         c = [tx |-> c.tx, heap |-> c.heap], c.tx.txIn = CopyIns(n), HoldsCopy(c.heap, n, m),
         NEW sc, NEW idx
  PROVE  SetSigScripts(c, sc, idx).heap = WriteThrough(c.heap, CopyIns(n), SigVals(c.heap, n, sc, idx))
<1>1. SetSigScripts(c, sc, idx).heap =
        WriteThrough(c.heap, c.tx.txIn,
                     [i \in 0 .. Len(c.tx.txIn) - 1 |->
                        WithSig(c.heap[c.tx.txIn[i + 1]], IF i = idx THEN sc ELSE << >>)])
  BY Zenon DEF SetSigScripts, WithSig
<1>2. c.tx.txIn = CopyIns(n) /\ Len(CopyIns(n)) = n /\ \A i \in 0 .. n - 1 : CopyIns(n)[i + 1] = CopyIn(i + 1)
  BY DEF CopyIns
<1>3. [i \in 0 .. Len(c.tx.txIn) - 1 |-> WithSig(c.heap[c.tx.txIn[i + 1]], IF i = idx THEN sc ELSE << >>)] =
        SigVals(c.heap, n, sc, idx)
  BY <1>2 DEF SigVals
<1>. QED  BY <1>1, <1>2, <1>3

(* SetSigScripts changes the copy's heap only.                            *)
LEMMA SetSigShape ==
  ASSUME NEW c, c = [tx |-> c.tx, heap |-> c.heap], NEW sc, NEW idx
  PROVE  SetSigScripts(c, sc, idx) = [tx |-> c.tx, heap |-> SetSigScripts(c, sc, idx).heap]
BY DEF SetSigScripts

SigOf(k, idx, sc) == IF k - 1 = idx THEN sc ELSE << >>

(* SetSigScriptsCells on the input cells alone, the form later steps cite.*)
LEMMA SetSigCellsIn ==
  ASSUME NEW c, NEW n \in Nat, NEW m \in Nat,
         c = [tx |-> c.tx, heap |-> c.heap], c.tx.txIn = CopyIns(n), HoldsCopy(c.heap, n, m),
         NEW sc, NEW idx
  PROVE  \A k \in 1 .. n : SetSigScripts(c, sc, idx).heap[CopyIn(k)] =
           WithSig(c.heap[CopyIn(k)], SigOf(k, idx, sc))
<1> DEFINE sv == SigVals(c.heap, n, sc, idx)
<1>0. SetSigScripts(c, sc, idx).heap = WriteThrough(c.heap, CopyIns(n), sv)
  BY SetSigHeap
<1>1. /\ DOMAIN sv \subseteq 0 .. n - 1
      /\ \A k \in 1 .. n : k - 1 \in DOMAIN sv /\ sv[k - 1] = WithSig(c.heap[CopyIn(k)], SigOf(k, idx, sc))
  BY DEF SigVals, SigOf
<1> HIDE DEF sv
<1>2. \A k \in 1 .. n : WriteThrough(c.heap, CopyIns(n), sv)[CopyIn(k)] =
        IF k - 1 \in DOMAIN sv THEN sv[k - 1] ELSE c.heap[CopyIn(k)]
  BY <1>1, InWrite
<1>. QED  BY <1>0, <1>1, <1>2

(* SetSigScriptsCells on the output cells alone.                          *)
LEMMA SetSigCellsOut ==
  ASSUME NEW c, NEW n \in Nat, NEW m \in Nat,
         c = [tx |-> c.tx, heap |-> c.heap], c.tx.txIn = CopyIns(n), HoldsCopy(c.heap, n, m),
         NEW sc, NEW idx
  PROVE  \A k \in 1 .. m : SetSigScripts(c, sc, idx).heap[CopyOut(k)] = c.heap[CopyOut(k)]
<1> DEFINE sv == SigVals(c.heap, n, sc, idx)
<1>0. SetSigScripts(c, sc, idx).heap = WriteThrough(c.heap, CopyIns(n), sv)
  BY SetSigHeap
<1>1. DOMAIN sv \subseteq 0 .. n - 1
  BY DEF SigVals
<1> HIDE DEF sv
<1>. QED  BY <1>0, <1>1, InWrite

(* What ZeroOtherSequences writes into the copy's cells.                  *)
LEMMA ZeroCells ==
  ASSUME NEW cZ, NEW VZ, NEW LZ, NEW nZ \in Nat, NEW mZ \in Nat,
         cZ = [tx |-> CopyTx(VZ, LZ, nZ, mZ), heap |-> cZ.heap], HoldsCopy(cZ.heap, nZ, mZ), NEW iZ
  PROVE  /\ DOMAIN ZeroOtherSequences(cZ, iZ) = DOMAIN cZ.heap
         /\ \A k \in 1 .. nZ : ZeroOtherSequences(cZ, iZ)[CopyIn(k)] =
              IF k - 1 # iZ THEN ZeroSeq(cZ.heap[CopyIn(k)]) ELSE cZ.heap[CopyIn(k)]
         /\ \A k \in 1 .. mZ : ZeroOtherSequences(cZ, iZ)[CopyOut(k)] = cZ.heap[CopyOut(k)]
<1> DEFINE w == [i \in {j \in 0 .. nZ - 1 : j # iZ} |-> ZeroSeq(cZ.heap[CopyIn(i + 1)])]
<1> HIDE DEF w
<1>1. ZeroOtherSequences(cZ, iZ) =
        WriteThrough(cZ.heap, cZ.tx.txIn, [i \in {j \in 0 .. Len(cZ.tx.txIn) - 1 : j # iZ} |->
                                           ZeroSeq(cZ.heap[cZ.tx.txIn[i + 1]])])
  BY Zenon DEF ZeroOtherSequences, ZeroSeq
<1>2. cZ.tx.txIn = CopyIns(nZ) /\ Len(CopyIns(nZ)) = nZ /\ \A i \in 0 .. nZ - 1 : CopyIns(nZ)[i + 1] = CopyIn(i + 1)
  BY DEF CopyTx, CopyIns
<1>3. ZeroOtherSequences(cZ, iZ) = WriteThrough(cZ.heap, CopyIns(nZ), w)
  <2>1. [i \in {j \in 0 .. Len(cZ.tx.txIn) - 1 : j # iZ} |-> ZeroSeq(cZ.heap[cZ.tx.txIn[i + 1]])] = w
    BY <1>2 DEF w
  <2>. QED  BY <1>1, <1>2, <2>1
<1>4. /\ DOMAIN WriteThrough(cZ.heap, CopyIns(nZ), w) = DOMAIN cZ.heap
      /\ \A k \in 1 .. nZ : WriteThrough(cZ.heap, CopyIns(nZ), w)[CopyIn(k)] =
           IF k - 1 \in DOMAIN w THEN w[k - 1] ELSE cZ.heap[CopyIn(k)]
      /\ \A k \in 1 .. mZ : WriteThrough(cZ.heap, CopyIns(nZ), w)[CopyOut(k)] = cZ.heap[CopyOut(k)]
  <2>1. DOMAIN w \subseteq 0 .. nZ - 1
    BY DEF w
  <2>. QED  BY <2>1, InWrite
<1>5. \A k \in 1 .. nZ : /\ k - 1 \in DOMAIN w <=> k - 1 # iZ
                         /\ k - 1 # iZ => w[k - 1] = ZeroSeq(cZ.heap[CopyIn(k)])
  BY DEF w
<1>6. DOMAIN ZeroOtherSequences(cZ, iZ) = DOMAIN cZ.heap
  BY <1>3, <1>4
<1>7. \A k \in 1 .. nZ : ZeroOtherSequences(cZ, iZ)[CopyIn(k)] =
        IF k - 1 # iZ THEN ZeroSeq(cZ.heap[CopyIn(k)]) ELSE cZ.heap[CopyIn(k)]
  <2> TAKE k \in 1 .. nZ
  <2>1. ZeroOtherSequences(cZ, iZ)[CopyIn(k)] = IF k - 1 \in DOMAIN w THEN w[k - 1] ELSE cZ.heap[CopyIn(k)]
    BY <1>3, <1>4
  <2>2. /\ k - 1 \in DOMAIN w <=> k - 1 # iZ
        /\ k - 1 # iZ => w[k - 1] = ZeroSeq(cZ.heap[CopyIn(k)])
    BY <1>5
  <2>. QED  BY <2>1, <2>2, Zenon
<1>8. \A k \in 1 .. mZ : ZeroOtherSequences(cZ, iZ)[CopyOut(k)] = cZ.heap[CopyOut(k)]
  BY <1>3, <1>4
<1>. QED  BY <1>6, <1>7, <1>8

(* ZeroCells on the input cells alone, the form later steps cite.        *)
LEMMA ZeroCellsIn ==
  ASSUME NEW cZ, NEW VZ, NEW LZ, NEW nZ \in Nat, NEW mZ \in Nat,
         cZ = [tx |-> CopyTx(VZ, LZ, nZ, mZ), heap |-> cZ.heap], HoldsCopy(cZ.heap, nZ, mZ), NEW iZ
  PROVE  \A k \in 1 .. nZ : ZeroOtherSequences(cZ, iZ)[CopyIn(k)] =
           IF k - 1 # iZ THEN ZeroSeq(cZ.heap[CopyIn(k)]) ELSE cZ.heap[CopyIn(k)]
BY ZeroCells

(* ZeroCells on the output cells alone.                                   *)
LEMMA ZeroCellsOut ==
  ASSUME NEW cZ, NEW VZ, NEW LZ, NEW nZ \in Nat, NEW mZ \in Nat,
         cZ = [tx |-> CopyTx(VZ, LZ, nZ, mZ), heap |-> cZ.heap], HoldsCopy(cZ.heap, nZ, mZ), NEW iZ
  PROVE  \A k \in 1 .. mZ : ZeroOtherSequences(cZ, iZ)[CopyOut(k)] = cZ.heap[CopyOut(k)]
BY ZeroCells

(* The outputs the switch on the hash type leaves in the copy.             *)
HashOuts(ht, idx, m) ==
  IF BaseType(ht) = SigHashNone THEN << >>
  ELSE IF BaseType(ht) = SigHashSingle THEN SubSeq(CopyOuts(m), 1, idx + 1)
  ELSE CopyOuts(m)

(* What the switch on the hash type makes of a copy c with header V, L,  *)
(* n inputs and m outputs: its transaction, and its cells.                *)
HashTypeCells(c, V, L, n, m, ht, idx) ==
     /\ ApplyHashType(c, ht, idx) =
          [tx |-> [version |-> V, lockTime |-> L, txIn |-> CopyIns(n), txOut |-> HashOuts(ht, idx, m)],
           heap |-> ApplyHashType(c, ht, idx).heap]
     /\ HoldsCopy(ApplyHashType(c, ht, idx).heap, n, m)
     /\ \A k \in 1 .. n : ApplyHashType(c, ht, idx).heap[CopyIn(k)] =
          IF k - 1 # idx /\ BaseType(ht) \in {SigHashNone, SigHashSingle}
          THEN ZeroSeq(c.heap[CopyIn(k)]) ELSE c.heap[CopyIn(k)]
     /\ \A k \in 1 .. m : ApplyHashType(c, ht, idx).heap[CopyOut(k)] =
          IF BaseType(ht) = SigHashSingle /\ k - 1 < idx
          THEN Blank(c.heap[CopyOut(k)]) ELSE c.heap[CopyOut(k)]

(* The switch on the hash type writes exactly HashTypeCells.              *)
LEMMA ApplyHashTypeCells ==
  ASSUME NEW c, NEW V, NEW L, NEW n \in Nat, NEW m \in Nat,
         c = [tx |-> CopyTx(V, L, n, m), heap |-> c.heap], HoldsCopy(c.heap, n, m),
         NEW ht, NEW idx \in Nat, BaseType(ht) = SigHashSingle => idx + 1 <= m
  PROVE  HashTypeCells(c, V, L, n, m, ht, idx)
<1> SUFFICES
       /\ ApplyHashType(c, ht, idx) =
            [tx |-> [version |-> V, lockTime |-> L, txIn |-> CopyIns(n), txOut |-> HashOuts(ht, idx, m)],
             heap |-> ApplyHashType(c, ht, idx).heap]
       /\ HoldsCopy(ApplyHashType(c, ht, idx).heap, n, m)
       /\ \A k \in 1 .. n : ApplyHashType(c, ht, idx).heap[CopyIn(k)] =
            IF k - 1 # idx /\ BaseType(ht) \in {SigHashNone, SigHashSingle}
            THEN ZeroSeq(c.heap[CopyIn(k)]) ELSE c.heap[CopyIn(k)]
       /\ \A k \in 1 .. m : ApplyHashType(c, ht, idx).heap[CopyOut(k)] =
            IF BaseType(ht) = SigHashSingle /\ k - 1 < idx
            THEN Blank(c.heap[CopyOut(k)]) ELSE c.heap[CopyOut(k)]
  BY DEF HashTypeCells
<1>1. CASE BaseType(ht) = SigHashNone
  <2>1. ApplyHashType(c, ht, idx) =
          [tx |-> [c.tx EXCEPT !.txOut = << >>], heap |-> ZeroOtherSequences(c, idx)]
    BY <1>1 DEF ApplyHashType, SigHashNone, SigHashSingle
  <2>2. [c.tx EXCEPT !.txOut = << >>] =
          [version |-> V, lockTime |-> L, txIn |-> CopyIns(n), txOut |-> HashOuts(ht, idx, m)]
    BY <1>1 DEF CopyTx, HashOuts
  <2>3. ApplyHashType(c, ht, idx) =
          [tx |-> [version |-> V, lockTime |-> L, txIn |-> CopyIns(n), txOut |-> HashOuts(ht, idx, m)],
           heap |-> ZeroOtherSequences(c, idx)]
    BY <2>1, <2>2, Zenon
  <2>. QED  BY <1>1, <2>3, ZeroCells, ZeroCellsIn, ZeroCellsOut DEF HoldsCopy, SigHashNone, SigHashSingle
<1>2. CASE BaseType(ht) = SigHashSingle
  <2>z. /\ \A k \in 1 .. n : ZeroOtherSequences(c, idx)[CopyIn(k)] =
             IF k - 1 # idx THEN ZeroSeq(c.heap[CopyIn(k)]) ELSE c.heap[CopyIn(k)]
        /\ \A k \in 1 .. m : ZeroOtherSequences(c, idx)[CopyOut(k)] = c.heap[CopyOut(k)]
    BY ZeroCellsIn, ZeroCellsOut
  <2> DEFINE z == ZeroOtherSequences(c, idx)
             w == [i \in 0 .. idx - 1 |-> Blank(c.heap[CopyOut(i + 1)])]
  <2>0. BaseType(ht) # SigHashNone
    BY <1>2 DEF SigHashNone, SigHashSingle
  <2>1. ApplyHashType(c, ht, idx) = SingleOutputs(c, idx)
    BY <1>2, <2>0, Zenon DEF ApplyHashType
  <2>2. SingleOutputs(c, idx) =
          [tx |-> [c.tx EXCEPT !.txOut = SubSeq(@, 1, idx + 1)],
           heap |-> WriteThrough(z, c.tx.txOut, [i \in 0 .. idx - 1 |-> Blank(c.heap[c.tx.txOut[i + 1]])])]
    BY Zenon DEF SingleOutputs, Blank
  <2>3. c.tx.txOut = CopyOuts(m) /\ \A i \in 0 .. idx - 1 : CopyOuts(m)[i + 1] = CopyOut(i + 1)
    BY <1>2 DEF CopyTx, CopyOuts
  <2>4. [i \in 0 .. idx - 1 |-> Blank(c.heap[c.tx.txOut[i + 1]])] = w
    BY <2>3
  <2>5. [c.tx EXCEPT !.txOut = SubSeq(@, 1, idx + 1)] =
          [version |-> V, lockTime |-> L, txIn |-> CopyIns(n), txOut |-> HashOuts(ht, idx, m)]
    <3>1. c.tx = [version |-> V, lockTime |-> L, txIn |-> CopyIns(n), txOut |-> CopyOuts(m)]
      BY DEF CopyTx
    <3>2. HashOuts(ht, idx, m) = SubSeq(CopyOuts(m), 1, idx + 1)
      BY <1>2, <2>0 DEF HashOuts
    <3> DEFINE R == [version |-> V, lockTime |-> L, txIn |-> CopyIns(n), txOut |-> CopyOuts(m)]
    <3>3. [c.tx EXCEPT !.txOut = SubSeq(@, 1, idx + 1)] = [R EXCEPT !.txOut = SubSeq(R.txOut, 1, idx + 1)]
      BY <3>1, Z3
    <3>4. [R EXCEPT !.txOut = SubSeq(R.txOut, 1, idx + 1)] =
            [version |-> V, lockTime |-> L, txIn |-> CopyIns(n), txOut |-> SubSeq(CopyOuts(m), 1, idx + 1)]
      BY Z3
    <3>. QED  BY <3>2, <3>3, <3>4
  <2>6. HoldsCopy(z, n, m)
    BY ZeroCells DEF HoldsCopy
  <2>7. /\ DOMAIN WriteThrough(z, CopyOuts(m), w) = DOMAIN z
        /\ \A k \in 1 .. m : WriteThrough(z, CopyOuts(m), w)[CopyOut(k)] =
             IF k - 1 \in DOMAIN w THEN w[k - 1] ELSE z[CopyOut(k)]
        /\ \A k \in 1 .. n : WriteThrough(z, CopyOuts(m), w)[CopyIn(k)] = z[CopyIn(k)]
    <3>1. DOMAIN w \subseteq 0 .. m - 1
      BY <1>2
    <3>. HIDE DEF z, w
    <3>. QED  BY <2>6, <3>1, OutWrite
  <2>8. \A k \in 1 .. m : /\ k - 1 \in DOMAIN w <=> k - 1 < idx
                          /\ k - 1 < idx => w[k - 1] = Blank(c.heap[CopyOut(k)])
    OBVIOUS
  <2>9. /\ \A k \in 1 .. n : z[CopyIn(k)] = IF k - 1 # idx THEN ZeroSeq(c.heap[CopyIn(k)]) ELSE c.heap[CopyIn(k)]
        /\ \A k \in 1 .. m : z[CopyOut(k)] = c.heap[CopyOut(k)]
    BY <2>z
  <2>10. ApplyHashType(c, ht, idx) =
           [tx |-> [version |-> V, lockTime |-> L, txIn |-> CopyIns(n), txOut |-> HashOuts(ht, idx, m)],
            heap |-> WriteThrough(z, CopyOuts(m), w)]
    <3>. HIDE DEF z, w
    <3>. QED  BY <2>1, <2>2, <2>3, <2>4, <2>5, Zenon
  <2>. HIDE DEF z, w
  <2>. QED  BY <1>2, <2>0, <2>6, <2>7, <2>8, <2>9, <2>10 DEF HoldsCopy
<1>3. CASE BaseType(ht) # SigHashNone /\ BaseType(ht) # SigHashSingle
  <2>1. ApplyHashType(c, ht, idx) = c
    BY <1>3, Zenon DEF ApplyHashType
  <2>. QED  BY <1>3, <2>1 DEF CopyTx, HashOuts
<1>. QED  BY <1>1, <1>2, <1>3

(***************************************************************************)
(* The hash against section 4.4: the copy's cells read through the copy's *)
(* final pointers are the values the specification builds.                *)
(***************************************************************************)

(* An input (output) value is a record with the fields of a TxIn (TxOut). *)
InCell(x) == x = [prevOut |-> x.prevOut, sigScript |-> x.sigScript, sequence |-> x.sequence]
OutCell(x) == x = [value |-> x.value, pkScript |-> x.pkScript]

(* The inputs the copy keeps after ANYONECANPAY.                           *)
HashIns(ht, idx, n) == IF AnyOneCanPay(ht) THEN << CopyIn(idx + 1) >> ELSE CopyIns(n)

(* The LET of SpecSighash, as operators.                                  *)
SpecIns(script, ht, v, idx) ==
  [k \in 1 .. Len(v.ins) |->
     [v.ins[k] EXCEPT !.sigScript = IF k - 1 = idx THEN removeOpcodeRaw(script, OP_CODESEPARATOR) ELSE << >>,
                      !.sequence  = IF k - 1 = idx \/ BaseType(ht) \notin {SigHashNone, SigHashSingle}
                                    THEN @ ELSE 0]]
SpecOuts(ht, v, idx) ==
  CASE BaseType(ht) = SigHashNone -> << >>
    [] BaseType(ht) = SigHashSingle ->
         [k \in 1 .. idx + 1 |-> IF k - 1 < idx THEN [value |-> -1, pkScript |-> << >>] ELSE v.outs[k]]
    [] OTHER -> v.outs

LEMMA SpecSighashUnfold ==
  ASSUME NEW script, NEW ht, NEW v, NEW idx
  PROVE  SpecSighash(script, ht, v, idx) =
           IF BaseType(ht) = SigHashSingle /\ idx >= Len(v.outs) THEN OneHash
           ELSE Digest([v EXCEPT !.ins = IF AnyOneCanPay(ht) THEN << SpecIns(script, ht, v, idx)[idx + 1] >>
                                                             ELSE SpecIns(script, ht, v, idx),
                                 !.outs = SpecOuts(ht, v, idx)], ht)
BY Zenon DEF SpecSighash, SpecIns, SpecOuts

(* A signed input cell: the script set, the sequence zeroed or kept.      *)
LEMMA InCellUpdate ==
  ASSUME NEW x, InCell(x), NEW sv, NEW keep \in BOOLEAN
  PROVE  [x EXCEPT !.sigScript = sv, !.sequence = IF keep THEN @ ELSE 0] =
           IF ~keep THEN ZeroSeq(WithSig(x, sv)) ELSE WithSig(x, sv)
<1> DEFINE y == [x EXCEPT !.sigScript = sv]
           e == IF keep THEN x.sequence ELSE 0
<1>0. y = [prevOut |-> x.prevOut, sigScript |-> sv, sequence |-> x.sequence]
  BY Z3 DEF InCell
<1>a. [x EXCEPT !.sigScript = sv, !.sequence = IF keep THEN @ ELSE 0] = [y EXCEPT !.sequence = e]
  BY <1>0
<1> HIDE DEF y
<1>b. [y EXCEPT !.sequence = e] = [prevOut |-> x.prevOut, sigScript |-> sv, sequence |-> e]
  BY <1>0, Z3
<1>1. [x EXCEPT !.sigScript = sv, !.sequence = IF keep THEN @ ELSE 0] =
        [prevOut |-> x.prevOut, sigScript |-> sv, sequence |-> IF keep THEN x.sequence ELSE 0]
  BY <1>a, <1>b
<1>2. WithSig(x, sv) = [prevOut |-> x.prevOut, sigScript |-> sv, sequence |-> x.sequence]
  BY Z3 DEF InCell, WithSig
<1>3. ZeroSeq(WithSig(x, sv)) = [prevOut |-> x.prevOut, sigScript |-> sv, sequence |-> 0]
  BY <1>2, Z3 DEF ZeroSeq
<1>. QED  BY <1>1, <1>2, <1>3

(* A blanked output cell.                                                  *)
LEMMA OutCellBlank ==
  ASSUME NEW x, OutCell(x)
  PROVE  Blank(x) = [value |-> -1, pkScript |-> << >>]
<1> DEFINE y == [x EXCEPT !.value = -1]
<1>1. y = [value |-> -1, pkScript |-> x.pkScript]
  BY Z3 DEF OutCell
<1>2. Blank(x) = [y EXCEPT !.pkScript = << >>]
  BY DEF Blank
<1> HIDE DEF y
<1>3. [y EXCEPT !.pkScript = << >>] = [value |-> -1, pkScript |-> << >>]
  BY <1>1, Z3
<1>. QED  BY <1>2, <1>3

(* calcSignatureHash, for an input the engine accepts and a script that  *)
(* parses, returns "ok" and the digest section 4.4 defines for the        *)
(* transaction's value: whatever the hash type, the writes the call makes *)
(* on its copy are exactly the blanking the specification prescribes.     *)
LEMMA CalcDigest ==
  ASSUME NEW script, NEW ht, NEW t, NEW h, NEW idx \in Nat, NEW S,
         t = [version |-> t.version, lockTime |-> t.lockTime, txIn |-> t.txIn, txOut |-> t.txOut],
         t.txIn \in Seq(S), t.txOut \in Seq(S),
         \A k \in 1 .. Len(t.txIn) : InCell(h[t.txIn[k]]),
         \A k \in 1 .. Len(t.txOut) : OutCell(h[t.txOut[k]]),
         idx < Len(t.txIn), checkScriptParses(script)
  PROVE  /\ CalcSignatureHash(script, ht, t, h, idx).status = "ok"
         /\ CalcSignatureHash(script, ht, t, h, idx).digest =
              SpecSighash(script, ht, SerializeNoWitness(t, h), idx)
<1>0. PICK n \in Nat, m \in Nat : n = Len(t.txIn) /\ m = Len(t.txOut)
  OBVIOUS
<1>a. PICK V, L, sc : V = t.version /\ L = t.lockTime /\ sc = removeOpcodeRaw(script, OP_CODESEPARATOR)
  OBVIOUS
<1>b. PICK c0 : c0 = shallowCopyTx(t, h)
  OBVIOUS
<1>c. PICK c1 : c1 = SetSigScripts(c0, sc, idx)
  OBVIOUS
<1>d. PICK c2 : c2 = ApplyHashType(c1, ht, idx)
  OBVIOUS
<1>e. PICK v : v = SerializeNoWitness(t, h)
  OBVIOUS
<1>1. c0 = [tx |-> CopyTx(V, L, n, m), heap |-> c0.heap] /\ HoldsCopy(c0.heap, n, m)
  BY <1>0, <1>a, <1>b, ShallowCopyTxRecord
<1>2. /\ \A k \in 1 .. n : c0.heap[CopyIn(k)] = h[t.txIn[k]]
      /\ \A k \in 1 .. m : c0.heap[CopyOut(k)] = h[t.txOut[k]]
  BY <1>0, <1>b, ShallowCopyCells
<1>3. c1 = [tx |-> CopyTx(V, L, n, m), heap |-> c1.heap] /\ HoldsCopy(c1.heap, n, m)
  <2>1. SetSigScripts(c0, sc, idx) = [tx |-> c0.tx, heap |-> SetSigScripts(c0, sc, idx).heap]
    BY <1>1, SetSigShape
  <2>2. HoldsCopy(SetSigScripts(c0, sc, idx).heap, n, m)
    BY <1>1, SetSigScriptsCells
  <2>. QED  BY <1>1, <1>c, <2>1, <2>2
<1>f. c0 = [tx |-> c0.tx, heap |-> c0.heap] /\ c0.tx.txIn = CopyIns(n)
  BY <1>1 DEF CopyTx
<1>4. \A k \in 1 .. n : c1.heap[CopyIn(k)] = WithSig(h[t.txIn[k]], IF k - 1 = idx THEN sc ELSE << >>)
  <2>1. \A k \in 1 .. n : SetSigScripts(c0, sc, idx).heap[CopyIn(k)] =
          WithSig(c0.heap[CopyIn(k)], SigOf(k, idx, sc))
    BY <1>0, <1>1, <1>f, SetSigCellsIn
  <2>. QED  BY <1>2, <1>c, <2>1 DEF SigOf
<1>5. \A k \in 1 .. m : c1.heap[CopyOut(k)] = h[t.txOut[k]]
  <2>1. \A k \in 1 .. m : SetSigScripts(c0, sc, idx).heap[CopyOut(k)] = c0.heap[CopyOut(k)]
    BY <1>0, <1>1, <1>f, SetSigCellsOut
  <2>. QED  BY <1>2, <1>c, <2>1
<1>6. CalcSignatureHash(script, ht, t, h, idx) = SighashResult(c2, ht, t, h, idx)
  BY <1>a, <1>b, <1>c, <1>d DEF CalcSignatureHash, calcSignatureHash
<1>7. Len(v.outs) = m /\ Len(v.ins) = n
  BY <1>0, <1>e DEF SerializeNoWitness
<1>8. CASE SingleOutOfRange(ht, t, idx)
  <2>1. SighashResult(c2, ht, t, h, idx) = [status |-> "ok", heap |-> h, digest |-> OneHash]
    BY <1>8 DEF SighashResult
  <2>2. SpecSighash(script, ht, v, idx) = OneHash
    BY <1>0, <1>7, <1>8, SpecSighashUnfold DEF SingleOutOfRange
  <2>. QED  BY <1>6, <1>e, <2>1, <2>2
<1>9. CASE ~SingleOutOfRange(ht, t, idx)
  <2>1. BaseType(ht) = SigHashSingle => idx + 1 <= m
    BY <1>0, <1>9 DEF SingleOutOfRange
  <2>2. HashTypeCells(c1, V, L, n, m, ht, idx)
    BY <1>0, <1>3, <2>1, ApplyHashTypeCells
  <2>3. /\ c2 = [tx |-> [version |-> V, lockTime |-> L, txIn |-> CopyIns(n), txOut |-> HashOuts(ht, idx, m)],
                heap |-> c2.heap]
        /\ \A k \in 1 .. n : c2.heap[CopyIn(k)] =
             IF k - 1 # idx /\ BaseType(ht) \in {SigHashNone, SigHashSingle}
             THEN ZeroSeq(c1.heap[CopyIn(k)]) ELSE c1.heap[CopyIn(k)]
        /\ \A k \in 1 .. m : c2.heap[CopyOut(k)] =
             IF BaseType(ht) = SigHashSingle /\ k - 1 < idx
             THEN Blank(c1.heap[CopyOut(k)]) ELSE c1.heap[CopyOut(k)]
    BY <1>d, <2>2 DEF HashTypeCells
  <2>4. PICK d : d = ApplyAnyOneCanPay(c2, ht, idx)
    OBVIOUS
  <2>5. d.heap = c2.heap
    BY <2>3, <2>4, AnyOneCanPayHeap
  <2>6. d.tx = [version |-> V, lockTime |-> L, txIn |-> HashIns(ht, idx, n), txOut |-> HashOuts(ht, idx, m)]
    <3>1. CASE AnyOneCanPay(ht)
      <4>0. PICK T, X : T = c2.tx /\ X = SubSeq(CopyIns(n), idx + 1, idx + 1)
        OBVIOUS
      <4>1. "tx" \in DOMAIN c2 /\ T = [version |-> V, lockTime |-> L, txIn |-> CopyIns(n), txOut |-> HashOuts(ht, idx, m)]
        BY <2>3, <4>0
      <4>2. d.tx = [T EXCEPT !.txIn = X]
        <5>1. PICK Y : Y = [T EXCEPT !.txIn = X]
          OBVIOUS
        <5>2. d = [c2 EXCEPT !.tx = Y]
          <6>1. d = [c2 EXCEPT !.tx.txIn = SubSeq(@, idx + 1, idx + 1)]
            BY <2>4, <3>1 DEF ApplyAnyOneCanPay
          <6>2. [c2 EXCEPT !.tx.txIn = SubSeq(@, idx + 1, idx + 1)] =
                  [c2 EXCEPT !.tx = [c2.tx EXCEPT !.txIn = SubSeq(c2.tx.txIn, idx + 1, idx + 1)]]
            OBVIOUS
          <6>0. c2.tx.txIn = CopyIns(n)
            BY <4>0, <4>1
          <6>3. [c2.tx EXCEPT !.txIn = SubSeq(c2.tx.txIn, idx + 1, idx + 1)] = Y
            BY <4>0, <5>1, <6>0, Zenon
          <6>. QED  BY <6>1, <6>2, <6>3
        <5>3. c2 = [tx |-> T, heap |-> c2.heap]
          BY <2>3, <4>0
        <5>4. [c2 EXCEPT !.tx = Y] = [tx |-> Y, heap |-> c2.heap]
          BY <5>3, Z3
        <5>. QED  BY <5>1, <5>2, <5>4
      <4>3. [T EXCEPT !.txIn = X] = [version |-> V, lockTime |-> L, txIn |-> X, txOut |-> HashOuts(ht, idx, m)]
        BY <4>1, Z3
      <4>4. X = << CopyIn(idx + 1) >>
        <5>1. idx + 1 \in 1 .. n
          BY <1>0
        <5>2. SubSeq(CopyIns(n), idx + 1, idx + 1) = [i \in 1 .. 1 |-> CopyIn(idx + 1)]
          BY <5>1 DEF CopyIns
        <5>3. [i \in 1 .. 1 |-> CopyIn(idx + 1)] = << CopyIn(idx + 1) >>
          OBVIOUS
        <5>. QED  BY <4>0, <5>2, <5>3
      <4>. QED  BY <3>1, <4>2, <4>3, <4>4, Zenon DEF HashIns
    <3>2. CASE ~AnyOneCanPay(ht)
      BY <2>3, <2>4, <3>2 DEF ApplyAnyOneCanPay, HashIns
    <3>. QED  BY <3>1, <3>2
  <2>7. /\ SighashResult(c2, ht, t, h, idx).status = "ok"
        /\ SighashResult(c2, ht, t, h, idx).digest = Digest(SerializeNoWitness(d.tx, d.heap), ht)
    BY <1>0, <1>9, <2>4 DEF SighashResult, SingleOutOfRange
  <2>8. SerializeNoWitness(d.tx, d.heap) =
          [version |-> V, lockTime |-> L,
           ins |-> IF AnyOneCanPay(ht) THEN << SpecIns(script, ht, v, idx)[idx + 1] >>
                   ELSE SpecIns(script, ht, v, idx),
           outs |-> SpecOuts(ht, v, idx)]
    <3>1. \A k \in 1 .. n : c2.heap[CopyIn(k)] = SpecIns(script, ht, v, idx)[k]
      <4> TAKE k \in 1 .. n
      <4>1. PICK x, sv, keep, E :
              /\ x = h[t.txIn[k]]
              /\ sv = IF k - 1 = idx THEN sc ELSE << >>
              /\ keep = (k - 1 = idx \/ BaseType(ht) \notin {SigHashNone, SigHashSingle})
              /\ E = [x EXCEPT !.sigScript = sv, !.sequence = IF keep THEN @ ELSE 0]
        OBVIOUS
      <4>2. v.ins[k] = x /\ k \in 1 .. Len(v.ins)
        BY <1>0, <1>7, <1>e, <4>1 DEF SerializeNoWitness
      <4>3. SpecIns(script, ht, v, idx)[k] = E
        BY <1>a, <4>1, <4>2, Zenon DEF SpecIns
      <4>4. InCell(x) /\ keep \in BOOLEAN
        BY <1>0, <4>1
      <4>5. [x EXCEPT !.sigScript = sv, !.sequence = IF keep THEN @ ELSE 0] =
              IF ~keep THEN ZeroSeq(WithSig(x, sv)) ELSE WithSig(x, sv)
        BY <4>4, InCellUpdate
      <4>6. c2.heap[CopyIn(k)] =
              IF k - 1 # idx /\ BaseType(ht) \in {SigHashNone, SigHashSingle}
              THEN ZeroSeq(WithSig(x, sv)) ELSE WithSig(x, sv)
        BY <1>4, <2>3, <4>1
      <4>7. (~keep) = (k - 1 # idx /\ BaseType(ht) \in {SigHashNone, SigHashSingle})
        BY <4>1
      <4>. QED  BY <4>1, <4>3, <4>5, <4>6, <4>7, Zenon
    <3>2. DOMAIN SpecIns(script, ht, v, idx) = 1 .. n
      BY <1>7, Zenon DEF SpecIns
    <3>3. [k \in 1 .. Len(HashIns(ht, idx, n)) |-> c2.heap[HashIns(ht, idx, n)[k]]] =
            IF AnyOneCanPay(ht) THEN << SpecIns(script, ht, v, idx)[idx + 1] >>
            ELSE SpecIns(script, ht, v, idx)
      <4>1. CASE AnyOneCanPay(ht)
        <5>1. HashIns(ht, idx, n) = << CopyIn(idx + 1) >> /\ idx + 1 \in 1 .. n
          BY <1>0, <4>1 DEF HashIns
        <5>. QED  BY <3>1, <4>1, <5>1
      <4>2. CASE ~AnyOneCanPay(ht)
        <5>1. HashIns(ht, idx, n) = CopyIns(n)
          BY <4>2 DEF HashIns
        <5>2. SpecIns(script, ht, v, idx) = [k \in 1 .. n |-> SpecIns(script, ht, v, idx)[k]]
          BY <3>2, Zenon DEF SpecIns
        <5>. QED  BY <1>0, <3>1, <4>2, <5>1, <5>2 DEF CopyIns
      <4>. QED  BY <4>1, <4>2
    <3>4. \A k \in 1 .. m : v.outs[k] = h[t.txOut[k]]
      BY <1>0, <1>e DEF SerializeNoWitness
    <3>5. [k \in 1 .. Len(HashOuts(ht, idx, m)) |-> c2.heap[HashOuts(ht, idx, m)[k]]] = SpecOuts(ht, v, idx)
      <4>1. CASE BaseType(ht) = SigHashNone
        <5>0. BaseType(ht) # SigHashSingle
          BY <4>1 DEF SigHashNone, SigHashSingle
        <5>1. HashOuts(ht, idx, m) = << >>
          BY <4>1 DEF HashOuts
        <5>2. SpecOuts(ht, v, idx) = << >>
          BY <4>1, <5>0, Zenon DEF SpecOuts
        <5>. QED  BY <5>1, <5>2
      <4>2. CASE BaseType(ht) = SigHashSingle
        <5>0. BaseType(ht) # SigHashNone
          BY <4>2 DEF SigHashNone, SigHashSingle
        <5>1. SpecOuts(ht, v, idx) =
                [k \in 1 .. idx + 1 |-> IF k - 1 < idx THEN [value |-> -1, pkScript |-> << >>] ELSE v.outs[k]]
          BY <4>2, <5>0, Zenon DEF SpecOuts
        <5>2. HashOuts(ht, idx, m) = SubSeq(CopyOuts(m), 1, idx + 1)
          BY <4>2, <5>0 DEF HashOuts
        <5>3. idx + 1 <= m
          BY <2>1, <4>2
        <5>4. Len(HashOuts(ht, idx, m)) = idx + 1 /\ \A k \in 1 .. idx + 1 : HashOuts(ht, idx, m)[k] = CopyOut(k)
          BY <1>0, <5>2, <5>3 DEF CopyOuts
        <5>5. \A k \in 1 .. idx + 1 : c2.heap[CopyOut(k)] =
                IF k - 1 < idx THEN [value |-> -1, pkScript |-> << >>] ELSE v.outs[k]
          <6> TAKE k \in 1 .. idx + 1
          <6>1. k \in 1 .. m /\ OutCell(h[t.txOut[k]])
            BY <1>0, <5>3
          <6>2. Blank(h[t.txOut[k]]) = [value |-> -1, pkScript |-> << >>]
            BY <6>1, OutCellBlank
          <6>. QED  BY <1>5, <2>3, <3>4, <4>2, <6>1, <6>2
        <5>. QED  BY <5>1, <5>4, <5>5
      <4>3. CASE BaseType(ht) # SigHashNone /\ BaseType(ht) # SigHashSingle
        <5>1. SpecOuts(ht, v, idx) = v.outs /\ HashOuts(ht, idx, m) = CopyOuts(m)
          BY <4>3, Zenon DEF SpecOuts, HashOuts
        <5>2. v.outs = [k \in 1 .. m |-> h[t.txOut[k]]]
          BY <1>0, <1>e DEF SerializeNoWitness
        <5>. QED  BY <1>0, <1>5, <2>3, <4>3, <5>1, <5>2 DEF CopyOuts
      <4>. QED  BY <4>1, <4>2, <4>3
    <3>6. SerializeNoWitness(d.tx, d.heap) =
            [version |-> V, lockTime |-> L,
             ins |-> [k \in 1 .. Len(HashIns(ht, idx, n)) |-> c2.heap[HashIns(ht, idx, n)[k]]],
             outs |-> [k \in 1 .. Len(HashOuts(ht, idx, m)) |-> c2.heap[HashOuts(ht, idx, m)[k]]]]
      BY <2>5, <2>6 DEF SerializeNoWitness
    <3>. QED  BY <3>3, <3>5, <3>6
  <2>9. SpecSighash(script, ht, v, idx) =
          Digest([version |-> V, lockTime |-> L,
                  ins |-> IF AnyOneCanPay(ht) THEN << SpecIns(script, ht, v, idx)[idx + 1] >>
                          ELSE SpecIns(script, ht, v, idx),
                  outs |-> SpecOuts(ht, v, idx)], ht)
    <3>0. PICK A, B : /\ A = IF AnyOneCanPay(ht) THEN << SpecIns(script, ht, v, idx)[idx + 1] >>
                             ELSE SpecIns(script, ht, v, idx)
                      /\ B = SpecOuts(ht, v, idx)
      OBVIOUS
    <3>1. ~(BaseType(ht) = SigHashSingle /\ idx >= Len(v.outs))
      BY <1>0, <1>7, <1>9 DEF SingleOutOfRange
    <3>2. SpecSighash(script, ht, v, idx) = Digest([v EXCEPT !.ins = A, !.outs = B], ht)
      BY <3>0, <3>1, SpecSighashUnfold, Zenon
    <3>3. PICK W : W = [v EXCEPT !.ins = A]
      OBVIOUS
    <3>4. [v EXCEPT !.ins = A, !.outs = B] = [W EXCEPT !.outs = B]
      BY <3>3
    <3>5. v = [version |-> V, lockTime |-> L, ins |-> v.ins, outs |-> v.outs]
      BY <1>a, <1>e DEF SerializeNoWitness
    <3>6. W = [version |-> V, lockTime |-> L, ins |-> A, outs |-> v.outs]
      BY <3>3, <3>5, Z3
    <3>7. [W EXCEPT !.outs = B] = [version |-> V, lockTime |-> L, ins |-> A, outs |-> B]
      BY <3>6, Z3
    <3>. QED  BY <3>0, <3>2, <3>4, <3>7, Zenon
  <2>. QED  BY <1>6, <1>e, <2>7, <2>8, <2>9
<1>. QED  BY <1>8, <1>9

(* The update SpecSighash makes to a transaction value.                  *)
LEMMA RecUpdate2 ==
  ASSUME NEW v, v = [version |-> v.version, lockTime |-> v.lockTime, ins |-> v.ins, outs |-> v.outs],
         NEW A, NEW B
  PROVE  [v EXCEPT !.ins = A, !.outs = B] = [version |-> v.version, lockTime |-> v.lockTime, ins |-> A, outs |-> B]
<1>1. PICK W : W = [v EXCEPT !.ins = A]
  OBVIOUS
<1>2. [v EXCEPT !.ins = A, !.outs = B] = [W EXCEPT !.outs = B]
  BY <1>1
<1>3. W = [version |-> v.version, lockTime |-> v.lockTime, ins |-> A, outs |-> v.outs]
  BY <1>1, Z3
<1>4. [W EXCEPT !.outs = B] = [version |-> v.version, lockTime |-> v.lockTime, ins |-> A, outs |-> B]
  BY <1>3, Z3
<1>. QED  BY <1>2, <1>4

(* Section 4.4 ignores the signature scripts of the transaction it signs: *)
(* two values whose inputs differ in them alone have the same hash.       *)
LEMMA SpecSighashCong ==
  ASSUME NEW script, NEW ht, NEW idx, NEW N \in Nat, NEW v1, NEW v2,
         v1 = [version |-> v1.version, lockTime |-> v1.lockTime, ins |-> v1.ins, outs |-> v1.outs],
         v2 = [version |-> v2.version, lockTime |-> v2.lockTime, ins |-> v2.ins, outs |-> v2.outs],
         v1.version = v2.version, v1.lockTime = v2.lockTime, v1.outs = v2.outs,
         v1.ins = [k \in 1 .. N |-> v1.ins[k]], v2.ins = [k \in 1 .. N |-> v2.ins[k]],
         \A k \in 1 .. N : /\ InCell(v1.ins[k]) /\ InCell(v2.ins[k])
                          /\ v1.ins[k].prevOut = v2.ins[k].prevOut
                          /\ v1.ins[k].sequence = v2.ins[k].sequence
  PROVE  SpecSighash(script, ht, v1, idx) = SpecSighash(script, ht, v2, idx)
<1>0. Len(v1.ins) = N /\ Len(v2.ins) = N
  OBVIOUS
<1>1. \A k \in 1 .. N : SpecIns(script, ht, v1, idx)[k] = SpecIns(script, ht, v2, idx)[k]
  <2> TAKE k \in 1 .. N
  <2>1. PICK x1, x2, sv, keep, E1, E2 :
          /\ x1 = v1.ins[k] /\ x2 = v2.ins[k]
          /\ sv = IF k - 1 = idx THEN removeOpcodeRaw(script, OP_CODESEPARATOR) ELSE << >>
          /\ keep = (k - 1 = idx \/ BaseType(ht) \notin {SigHashNone, SigHashSingle})
          /\ E1 = [x1 EXCEPT !.sigScript = sv, !.sequence = IF keep THEN @ ELSE 0]
          /\ E2 = [x2 EXCEPT !.sigScript = sv, !.sequence = IF keep THEN @ ELSE 0]
    OBVIOUS
  <2>2. SpecIns(script, ht, v1, idx)[k] = E1 /\ SpecIns(script, ht, v2, idx)[k] = E2
    BY <1>0, <2>1, Zenon DEF SpecIns
  <2>3. InCell(x1) /\ InCell(x2) /\ keep \in BOOLEAN
    BY <2>1
  <2>4. [x1 EXCEPT !.sigScript = sv, !.sequence = IF keep THEN @ ELSE 0] =
          IF ~keep THEN ZeroSeq(WithSig(x1, sv)) ELSE WithSig(x1, sv)
    BY <2>3, InCellUpdate
  <2>5. [x2 EXCEPT !.sigScript = sv, !.sequence = IF keep THEN @ ELSE 0] =
          IF ~keep THEN ZeroSeq(WithSig(x2, sv)) ELSE WithSig(x2, sv)
    BY <2>3, InCellUpdate
  <2>6. WithSig(x1, sv) = [prevOut |-> x1.prevOut, sigScript |-> sv, sequence |-> x1.sequence]
    BY <2>3, Z3 DEF InCell, WithSig
  <2>7. WithSig(x2, sv) = [prevOut |-> x2.prevOut, sigScript |-> sv, sequence |-> x2.sequence]
    BY <2>3, Z3 DEF InCell, WithSig
  <2>8. WithSig(x1, sv) = WithSig(x2, sv)
    BY <2>1, <2>6, <2>7
  <2>9. E1 = E2
    BY <2>1, <2>4, <2>5, <2>8
  <2>. QED  BY <2>2, <2>9
<1>2. SpecIns(script, ht, v1, idx) = SpecIns(script, ht, v2, idx)
  <2>1. /\ SpecIns(script, ht, v1, idx) = [k \in 1 .. N |-> SpecIns(script, ht, v1, idx)[k]]
        /\ SpecIns(script, ht, v2, idx) = [k \in 1 .. N |-> SpecIns(script, ht, v2, idx)[k]]
    BY <1>0, Zenon DEF SpecIns
  <2>. QED  BY <1>1, <2>1
<1>3. SpecOuts(ht, v1, idx) = SpecOuts(ht, v2, idx)
  BY Zenon DEF SpecOuts
<1>4. PICK A1, A2, B :
        /\ A1 = IF AnyOneCanPay(ht) THEN << SpecIns(script, ht, v1, idx)[idx + 1] >> ELSE SpecIns(script, ht, v1, idx)
        /\ A2 = IF AnyOneCanPay(ht) THEN << SpecIns(script, ht, v2, idx)[idx + 1] >> ELSE SpecIns(script, ht, v2, idx)
        /\ B = SpecOuts(ht, v1, idx)
  OBVIOUS
<1>5. A1 = A2 /\ B = SpecOuts(ht, v2, idx)
  BY <1>2, <1>3, <1>4
<1>6. PICK R1, R2 : R1 = [v1 EXCEPT !.ins = A1, !.outs = B] /\ R2 = [v2 EXCEPT !.ins = A2, !.outs = B]
  OBVIOUS
<1>7. R1 = [version |-> v1.version, lockTime |-> v1.lockTime, ins |-> A1, outs |-> B]
  BY <1>6, RecUpdate2
<1>8. R2 = [version |-> v2.version, lockTime |-> v2.lockTime, ins |-> A2, outs |-> B]
  BY <1>6, RecUpdate2
<1>9. R1 = R2
  BY <1>5, <1>7, <1>8
<1>10. SpecSighash(script, ht, v1, idx) =
         IF BaseType(ht) = SigHashSingle /\ idx >= Len(v1.outs) THEN OneHash ELSE Digest(R1, ht)
  BY <1>4, <1>6, SpecSighashUnfold, Zenon
<1>11. SpecSighash(script, ht, v2, idx) =
         IF BaseType(ht) = SigHashSingle /\ idx >= Len(v1.outs) THEN OneHash ELSE Digest(R2, ht)
  BY <1>4, <1>5, <1>6, SpecSighashUnfold, Zenon
<1>. QED  BY <1>9, <1>10, <1>11

(***************************************************************************)
(* MCSighash: the signer's transaction lives in the cells Cells; the heap  *)
(* stays a function on them whose inputs are records with a signature      *)
(* script, so that the copy's fresh cells never hit a caller's cell.       *)
(***************************************************************************)
Cells == {InAddr(i) : i \in 1 .. NIn} \cup {OutAddr(i) : i \in 1 .. NOut}

HeapOK ==
  /\ heap = [a \in Cells |-> heap[a]]
  /\ \A i \in 1 .. NIn : InCell(heap[InAddr(i)])

(* Every input of the signer's transaction holds what it held initially  *)
(* but its signature script, and every output holds its initial value.    *)
SigOnly ==
  /\ \A i \in 1 .. NIn :
       heap[InAddr(i)] = [prevOut |-> i, sigScript |-> heap[InAddr(i)].sigScript, sequence |-> 5]
  /\ \A i \in 1 .. NOut : heap[OutAddr(i)] = [value |-> 10 * i, pkScript |-> << OP_DUP, i >>]

(* The inductive invariant behind SighashOfOriginal.                       *)
HashInv == HeapOK /\ SigOnly /\ SighashOfOriginal

(* The signer's transaction meets the hypotheses of CalcKeepsHeap.        *)
LEMMA TxShape ==
  /\ "txIn" \in DOMAIN Tx /\ "txOut" \in DOMAIN Tx
  /\ Tx.txIn \in Seq(Cells) /\ Tx.txOut \in Seq(Cells)
BY SizeAssumption DEF Tx, Cells

(* No copy cell is a cell of the signer's transaction.                     *)
LEMMA CellsDisjoint ==
  HeapOK => Disjoint(heap)
<1>1. Cells \cap Fresh = {}
  BY DEF Cells, Fresh, InAddr, OutAddr, CopyIn, CopyOut
<1>. QED  BY <1>1 DEF HeapOK, Disjoint

(* A Calc step leaves the heap as it was.                                  *)
LEMMA CalcStep ==
  HeapOK /\ Calc => heap' = heap
<1> SUFFICES ASSUME HeapOK, Calc PROVE heap' = heap
  OBVIOUS
<1>1. PICK script \in Scripts, ht \in HashTypes, idx \in 0 .. NIn - 1 :
             heap' = CalcSignatureHash(script, ht, Tx, heap, idx).heap
  BY DEF Calc
<1>2. idx \in Nat /\ Disjoint(heap) /\ heap = [a \in DOMAIN heap |-> heap[a]]
  BY SizeAssumption, CellsDisjoint DEF HeapOK
<1>3. CalcSignatureHash(script, ht, Tx, heap, idx).heap = heap
  BY <1>2, TxShape, CalcKeepsHeap
<1>. QED  BY <1>1, <1>3

(* A signer's store changes one signature script and keeps the heap's      *)
(* shape.                                                                  *)
LEMMA SetStep ==
  HeapOK /\ SetSignatureScript =>
    /\ HeapOK'
    /\ \E i \in 1 .. NIn : heap' = [heap EXCEPT ![InAddr(i)].sigScript = heap'[InAddr(i)].sigScript]
<1> SUFFICES ASSUME HeapOK, SetSignatureScript
             PROVE  /\ HeapOK'
                    /\ \E i \in 1 .. NIn :
                         heap' = [heap EXCEPT ![InAddr(i)].sigScript = heap'[InAddr(i)].sigScript]
  OBVIOUS
<1>1. PICK i \in 1 .. NIn, s \in SigScripts : heap' = [heap EXCEPT ![InAddr(i)].sigScript = s]
  BY DEF SetSignatureScript
<1>2. InAddr(i) \in Cells /\ InCell(heap[InAddr(i)])
  BY DEF Cells, HeapOK
<1>3. heap'[InAddr(i)] = [heap[InAddr(i)] EXCEPT !.sigScript = s]
  BY <1>1, <1>2 DEF HeapOK
<1>4. heap'[InAddr(i)].sigScript = s
  BY <1>2, <1>3 DEF InCell
<1>5. HeapOK'
  <2>1. heap' = [a \in Cells |-> heap'[a]]
    BY <1>1, <1>2 DEF HeapOK
  <2>2. \A k \in 1 .. NIn : InCell(heap'[InAddr(k)])
    BY <1>1, <1>2, <1>3 DEF HeapOK, InCell, Cells
  <2>. QED  BY <2>1, <2>2 DEF HeapOK
<1>. QED  BY <1>1, <1>4, <1>5

(* The cells of the initial heap.                                         *)
LEMMA InitHeapCells ==
  /\ \A i \in 1 .. NIn : InitHeap[InAddr(i)] = [prevOut |-> i, sigScript |-> << >>, sequence |-> 5]
  /\ \A i \in 1 .. NOut : InitHeap[OutAddr(i)] = [value |-> 10 * i, pkScript |-> << OP_DUP, i >>]
BY DEF InitHeap, InAddr, OutAddr

(* The initial heap has the shape HeapOK and SigOnly describe.             *)
LEMMA InitInv ==
  Init => HeapOK /\ SigOnly
<1> SUFFICES ASSUME Init PROVE HeapOK /\ SigOnly
  OBVIOUS
<1>1. heap = [a \in Cells |-> heap[a]]
  BY DEF Init, InitHeap, Cells
<1>2. ASSUME NEW i \in 1 .. NIn
      PROVE  heap[InAddr(i)] = [prevOut |-> i, sigScript |-> << >>, sequence |-> 5]
  BY InitHeapCells DEF Init
<1>3. ASSUME NEW i \in 1 .. NOut
      PROVE  heap[OutAddr(i)] = [value |-> 10 * i, pkScript |-> << OP_DUP, i >>]
  BY InitHeapCells DEF Init
<1>4. \A i \in 1 .. NIn : InCell(heap[InAddr(i)])
  <2> TAKE i \in 1 .. NIn
  <2>1. heap[InAddr(i)] = [prevOut |-> i, sigScript |-> << >>, sequence |-> 5]
    BY <1>2
  <2>. QED  BY <2>1, Zenon DEF InCell
<1>5. SigOnly
  <2>1. \A i \in 1 .. NIn :
          heap[InAddr(i)] = [prevOut |-> i, sigScript |-> heap[InAddr(i)].sigScript, sequence |-> 5]
    <3> TAKE i \in 1 .. NIn
    <3>1. heap[InAddr(i)] = [prevOut |-> i, sigScript |-> << >>, sequence |-> 5]
      BY <1>2
    <3>2. heap[InAddr(i)].sigScript = << >>
      BY <3>1
    <3>. QED  BY <3>1, <3>2
  <2>2. \A i \in 1 .. NOut : heap[OutAddr(i)] = [value |-> 10 * i, pkScript |-> << OP_DUP, i >>]
    BY <1>3
  <2>. QED  BY <2>1, <2>2 DEF SigOnly
<1>. QED  BY <1>1, <1>4, <1>5 DEF HeapOK

(* The signer's transaction as a value, read through a heap.              *)
LEMMA TxValueIs ==
  ASSUME NEW h
  PROVE  TxValue(h) = [version |-> 1, lockTime |-> 0,
                       ins |-> [k \in 1 .. NIn |-> h[InAddr(k)]],
                       outs |-> [k \in 1 .. NOut |-> h[OutAddr(k)]]]
<1>1. Len(Tx.txIn) = NIn /\ Len(Tx.txOut) = NOut
  BY SizeAssumption DEF Tx
<1>. QED  BY <1>1 DEF TxValue, SerializeNoWitness, Tx

(* While only signature scripts have changed, every hash section 4.4      *)
(* gives of the signer's transaction is the hash of the initial one.       *)
LEMMA TxValueCong ==
  ASSUME HeapOK, SigOnly, NEW script, NEW ht, NEW idx
  PROVE  SpecSighash(script, ht, TxValue(heap), idx) = SpecSighash(script, ht, TxValue(InitHeap), idx)
<1>0. PICK v1, v2 : v1 = TxValue(heap) /\ v2 = TxValue(InitHeap)
  OBVIOUS
<1>1. /\ v1 = [version |-> 1, lockTime |-> 0, ins |-> [k \in 1 .. NIn |-> heap[InAddr(k)]],
                outs |-> [k \in 1 .. NOut |-> heap[OutAddr(k)]]]
      /\ v2 = [version |-> 1, lockTime |-> 0, ins |-> [k \in 1 .. NIn |-> InitHeap[InAddr(k)]],
                outs |-> [k \in 1 .. NOut |-> InitHeap[OutAddr(k)]]]
  BY <1>0, TxValueIs
<1>2. v1.outs = v2.outs
  BY <1>1, InitHeapCells DEF SigOnly
<1>3. \A k \in 1 .. NIn : /\ InCell(v1.ins[k]) /\ InCell(v2.ins[k])
                         /\ v1.ins[k].prevOut = v2.ins[k].prevOut
                         /\ v1.ins[k].sequence = v2.ins[k].sequence
  <2> TAKE k \in 1 .. NIn
  <2>1. v1.ins[k] = heap[InAddr(k)] /\ v2.ins[k] = InitHeap[InAddr(k)]
    BY <1>1
  <2>2. heap[InAddr(k)] = [prevOut |-> k, sigScript |-> heap[InAddr(k)].sigScript, sequence |-> 5]
    BY DEF SigOnly
  <2>3. InitHeap[InAddr(k)] = [prevOut |-> k, sigScript |-> << >>, sequence |-> 5]
    BY InitHeapCells
  <2>4. InCell(heap[InAddr(k)])
    BY DEF HeapOK
  <2>. QED  BY <2>1, <2>2, <2>3, <2>4 DEF InCell
<1>4. SpecSighash(script, ht, v1, idx) = SpecSighash(script, ht, v2, idx)
  <2>1. NIn \in Nat
    BY SizeAssumption
  <2>2. /\ v1 = [version |-> v1.version, lockTime |-> v1.lockTime, ins |-> v1.ins, outs |-> v1.outs]
        /\ v2 = [version |-> v2.version, lockTime |-> v2.lockTime, ins |-> v2.ins, outs |-> v2.outs]
        /\ v1.version = v2.version /\ v1.lockTime = v2.lockTime
        /\ v1.ins = [k \in 1 .. NIn |-> v1.ins[k]] /\ v2.ins = [k \in 1 .. NIn |-> v2.ins[k]]
    BY <1>1
  <2>. QED  BY <1>2, <1>3, <2>1, <2>2, SpecSighashCong
<1>. QED  BY <1>0, <1>4

(* A call of CalcSignatureHash never changes the signer's transaction, for *)
(* any number of inputs and outputs, script codes, hash types and         *)
(* signature scripts: every Calc step leaves the heap as it was (the      *)
(* action property TxIntact), because HeapOK holds in every state and     *)
(* CalcKeepsHeap then applies to the call.                                 *)
THEOREM TxIntactProved == Spec => TxIntact
<1>1. Init => HeapOK
  BY InitInv
<1>2. HeapOK /\ [Next]_vars => HeapOK'
  <2> SUFFICES ASSUME HeapOK, [Next]_vars PROVE HeapOK'
    OBVIOUS
  <2>1. CASE Calc
    BY <2>1, CalcStep DEF HeapOK
  <2>2. CASE SetSignatureScript
    BY <2>2, SetStep
  <2>3. CASE UNCHANGED vars
    BY <2>3 DEF vars, HeapOK
  <2>. QED  BY <2>1, <2>2, <2>3 DEF Next
<1>3. HeapOK => [Calc => heap' = heap]_vars
  BY CalcStep
<1>. QED  BY <1>1, <1>2, <1>3, PTL DEF Spec, TxIntact


(* Under HashInv, a call for an input NewEngine accepts with a script     *)
(* that parses succeeds with the hash section 4.4 gives of the initial     *)
(* transaction: CalcDigest gives the hash of the transaction as it is,     *)
(* and TxValueCong that it is the hash of the initial one.                 *)
LEMMA CalcOk ==
  ASSUME HashInv, NEW script, NEW ht, NEW idx \in 0 .. NIn - 1, checkScriptParses(script)
  PROVE  /\ CalcSignatureHash(script, ht, Tx, heap, idx).status = "ok"
         /\ CalcSignatureHash(script, ht, Tx, heap, idx).digest =
              SpecSighash(script, ht, TxValue(InitHeap), idx)
<1>1. idx \in Nat /\ idx < Len(Tx.txIn)
  BY SizeAssumption DEF Tx
<1>2. Tx = [version |-> Tx.version, lockTime |-> Tx.lockTime, txIn |-> Tx.txIn, txOut |-> Tx.txOut]
  BY DEF Tx
<1>3. \A k \in 1 .. Len(Tx.txIn) : InCell(heap[Tx.txIn[k]])
  BY SizeAssumption DEF Tx, HashInv, HeapOK
<1>4. \A k \in 1 .. Len(Tx.txOut) : OutCell(heap[Tx.txOut[k]])
  <2> TAKE k \in 1 .. Len(Tx.txOut)
  <2>1. k \in 1 .. NOut /\ Tx.txOut[k] = OutAddr(k)
    BY SizeAssumption DEF Tx
  <2>2. heap[OutAddr(k)] = [value |-> 10 * k, pkScript |-> << OP_DUP, k >>]
    BY <2>1 DEF HashInv, SigOnly
  <2>. QED  BY <2>1, <2>2 DEF OutCell
<1>5. /\ CalcSignatureHash(script, ht, Tx, heap, idx).status = "ok"
      /\ CalcSignatureHash(script, ht, Tx, heap, idx).digest =
           SpecSighash(script, ht, SerializeNoWitness(Tx, heap), idx)
  BY <1>1, <1>2, <1>3, <1>4, TxShape, CalcDigest
<1>6. SpecSighash(script, ht, TxValue(heap), idx) = SpecSighash(script, ht, TxValue(InitHeap), idx)
  BY TxValueCong DEF HashInv
<1>. QED  BY <1>5, <1>6 DEF TxValue

(* A Calc step keeps HashInv: the heap is left as it was (CalcStep), and   *)
(* the result is the one CalcOk gives.                                     *)
LEMMA CalcInv ==
  HashInv /\ Calc => HashInv'
<1> SUFFICES ASSUME HashInv, Calc PROVE HashInv'
  OBVIOUS
<1>0. heap' = heap
  BY CalcStep DEF HashInv
<1>1. HeapOK' /\ SigOnly'
  BY <1>0 DEF HashInv, HeapOK, SigOnly
<1>2. PICK script \in Scripts, ht \in HashTypes, idx \in 0 .. NIn - 1 :
        last' = [status |-> CalcSignatureHash(script, ht, Tx, heap, idx).status,
                 script |-> script, ht |-> ht, idx |-> idx,
                 digest |-> CalcSignatureHash(script, ht, Tx, heap, idx).digest]
  BY DEF Calc
<1>3. CASE ~checkScriptParses(script)
  <2>1. last'.status = "err"
    BY <1>2, <1>3 DEF CalcSignatureHash
  <2>. QED  BY <1>1, <2>1 DEF HashInv, SighashOfOriginal
<1>4. CASE checkScriptParses(script)
  <2>1. /\ CalcSignatureHash(script, ht, Tx, heap, idx).status = "ok"
        /\ CalcSignatureHash(script, ht, Tx, heap, idx).digest =
             SpecSighash(script, ht, TxValue(InitHeap), idx)
    BY <1>4, CalcOk
  <2>2. SighashOfOriginal'
    BY <1>2, <2>1 DEF SighashOfOriginal
  <2>. QED  BY <1>1, <2>2 DEF HashInv
<1>. QED  BY <1>3, <1>4

(* A signer's store keeps HashInv: it changes one signature script.        *)
LEMMA SetInv ==
  HashInv /\ SetSignatureScript => HashInv'
<1> SUFFICES ASSUME HashInv, SetSignatureScript PROVE HashInv'
  OBVIOUS
<1>1. PICK i \in 1 .. NIn, s \in SigScripts :
        heap' = [heap EXCEPT ![InAddr(i)].sigScript = s] /\ UNCHANGED last
  BY DEF SetSignatureScript
<1>2. HeapOK'
  BY SetStep DEF HashInv
<1>3. heap = [a \in Cells |-> heap[a]] /\ InAddr(i) \in Cells
  BY DEF HashInv, HeapOK, Cells
<1>4. heap[InAddr(i)] = [prevOut |-> i, sigScript |-> heap[InAddr(i)].sigScript, sequence |-> 5]
  BY DEF HashInv, SigOnly
<1>5. heap'[InAddr(i)] = [prevOut |-> i, sigScript |-> s, sequence |-> 5]
  <2>1. heap'[InAddr(i)] = [heap[InAddr(i)] EXCEPT !.sigScript = s]
    BY <1>1, <1>3
  <2>. QED  BY <1>4, <2>1, Z3
<1>6. \A j \in 1 .. NIn :
        heap'[InAddr(j)] = [prevOut |-> j, sigScript |-> heap'[InAddr(j)].sigScript, sequence |-> 5]
  <2> TAKE j \in 1 .. NIn
  <2>1. CASE j = i
    BY <1>5, <2>1
  <2>2. CASE j # i
    <3>1. heap'[InAddr(j)] = heap[InAddr(j)]
      BY <1>1, <2>2 DEF InAddr
    <3>. QED  BY <3>1 DEF HashInv, SigOnly
  <2>. QED  BY <2>1, <2>2
<1>7. \A j \in 1 .. NOut : heap'[OutAddr(j)] = [value |-> 10 * j, pkScript |-> << OP_DUP, j >>]
  <2> TAKE j \in 1 .. NOut
  <2>1. heap'[OutAddr(j)] = heap[OutAddr(j)]
    BY <1>1 DEF InAddr, OutAddr
  <2>. QED  BY <2>1 DEF HashInv, SigOnly
<1>8. SighashOfOriginal'
  BY <1>1 DEF HashInv, SighashOfOriginal
<1>. QED  BY <1>2, <1>6, <1>7, <1>8 DEF HashInv, SigOnly

(* HashInv holds in every state of the signer's model.                   *)
LEMMA HashInvariant == Spec => []HashInv
<1>1. Init => HashInv
  BY InitInv DEF Init, HashInv, SighashOfOriginal
<1>2. HashInv /\ [Next]_vars => HashInv'
  <2> SUFFICES ASSUME HashInv, [Next]_vars PROVE HashInv'
    OBVIOUS
  <2>1. CASE Calc
    BY <2>1, CalcInv
  <2>2. CASE SetSignatureScript
    BY <2>2, SetInv
  <2>3. CASE UNCHANGED vars
    BY <2>3 DEF vars, HashInv, HeapOK, SigOnly, SighashOfOriginal
  <2>. QED  BY <2>1, <2>2, <2>3 DEF Next
<1>. QED  BY <1>1, <1>2, PTL DEF Spec

(* For any number of inputs and outputs, script codes, hash types and     *)
(* signature scripts: every call of CalcSignatureHash for an input         *)
(* NewEngine accepts succeeds and returns the hash section 4.4 gives of    *)
(* the transaction as it was before any call or signature (the invariant   *)
(* SighashOfOriginal).                                                     *)
THEOREM SighashOfOriginalProved == Spec => []SighashOfOriginal
<1>1. HashInv => SighashOfOriginal
  BY DEF HashInv
<1>. QED  BY <1>1, HashInvariant, PTL


(* The signature scripts the signer sees, as the refinement maps them.    *)
SigsOf(h) == [i \in 1 .. NIn |-> h[InAddr(i)].sigScript]

(* A Calc step is a call of the signer's abstract view: no signature      *)
(* script changes, and the result is the one SighashSpec promises.         *)
LEMMA CalcRefines ==
  HashInv /\ Calc => Abs!Hash
<1> SUFFICES ASSUME HashInv, Calc PROVE Abs!Hash
  OBVIOUS
<1>1. heap' = heap
  BY CalcStep DEF HashInv
<1>2. PICK script \in Scripts, ht \in HashTypes, idx \in 0 .. NIn - 1 :
        last' = [status |-> CalcSignatureHash(script, ht, Tx, heap, idx).status,
                 script |-> script, ht |-> ht, idx |-> idx,
                 digest |-> CalcSignatureHash(script, ht, Tx, heap, idx).digest]
  BY DEF Calc
<1>3. last' = IF checkScriptParses(script)
              THEN [status |-> "ok", script |-> script, ht |-> ht, idx |-> idx,
                    digest |-> SpecSighash(script, ht, TxValue(InitHeap), idx)]
              ELSE [status |-> "err", script |-> script, ht |-> ht, idx |-> idx,
                    digest |-> OneHash]
  <2>1. CASE checkScriptParses(script)
    BY <1>2, <2>1, CalcOk
  <2>2. CASE ~checkScriptParses(script)
    <3>1. CalcSignatureHash(script, ht, Tx, heap, idx) = [status |-> "err", heap |-> heap, digest |-> OneHash]
      BY <2>2 DEF CalcSignatureHash
    <3>. QED  BY <1>2, <2>2, <3>1
  <2>. QED  BY <2>1, <2>2
<1>4. SigsOf(heap') = SigsOf(heap)
  BY <1>1
<1>. QED  BY <1>3, <1>4 DEF Abs!Hash, SigsOf

(* A signer's store is a Sign step of the abstract view.                   *)
LEMMA SetRefines ==
  HashInv /\ SetSignatureScript => Abs!Sign
<1> SUFFICES ASSUME HashInv, SetSignatureScript PROVE Abs!Sign
  OBVIOUS
<1>1. PICK i \in 1 .. NIn, s \in SigScripts :
        /\ heap[InAddr(i)].sigScript # s
        /\ heap' = [heap EXCEPT ![InAddr(i)].sigScript = s]
        /\ UNCHANGED last
  BY DEF SetSignatureScript
<1>2. InAddr(i) \in DOMAIN heap /\ InCell(heap[InAddr(i)])
  BY DEF HashInv, HeapOK, Cells
<1>3. heap'[InAddr(i)].sigScript = s
  <2>1. heap'[InAddr(i)] = [heap[InAddr(i)] EXCEPT !.sigScript = s]
    BY <1>1, <1>2
  <2>. QED  BY <1>2, <2>1 DEF InCell
<1>4. \A j \in 1 .. NIn : j # i => heap'[InAddr(j)] = heap[InAddr(j)]
  BY <1>1 DEF InAddr
<1>5. SigsOf(heap') = [SigsOf(heap) EXCEPT ![i] = s]
  BY <1>3, <1>4 DEF SigsOf
<1>6. SigsOf(heap)[i] # s
  BY <1>1 DEF SigsOf
<1>. QED  BY <1>1, <1>5, <1>6 DEF Abs!Sign, SigsOf

(* The heap-level model implements SighashSpec, for any number of inputs  *)
(* and outputs, script codes, hash types and signature scripts: what a     *)
(* signer sees of its transaction and of its calls to CalcSignatureHash    *)
(* is what the abstract view allows (the property SighashRefines).         *)
THEOREM SighashRefinesProved == Spec => SighashRefines
<1>1. Init => Abs!Init
  <2> SUFFICES ASSUME Init PROVE Abs!Init
    OBVIOUS
  <2>1. SigsOf(heap) = [i \in 1 .. NIn |-> << >>]
    <3>1. \A i \in 1 .. NIn : heap[InAddr(i)].sigScript = << >>
      <4> TAKE i \in 1 .. NIn
      <4>1. heap[InAddr(i)] = [prevOut |-> i, sigScript |-> << >>, sequence |-> 5]
        BY InitHeapCells DEF Init
      <4>. QED  BY <4>1
    <3>. QED  BY <3>1 DEF SigsOf
  <2>. QED  BY <2>1 DEF Init, Abs!Init, SigsOf
<1>2. HashInv /\ [Next]_vars => [Abs!Next]_Abs!vars
  <2> SUFFICES ASSUME HashInv, [Next]_vars PROVE [Abs!Next]_Abs!vars
    OBVIOUS
  <2>1. CASE Calc
    BY <2>1, CalcRefines DEF Abs!Next
  <2>2. CASE SetSignatureScript
    BY <2>2, SetRefines DEF Abs!Next
  <2>3. CASE UNCHANGED vars
    BY <2>3 DEF vars, Abs!vars
  <2>. QED  BY <2>1, <2>2, <2>3 DEF Next
<1>. QED  BY <1>1, <1>2, HashInvariant, PTL DEF Spec, Abs!Spec, SighashRefines

=============================================================================
