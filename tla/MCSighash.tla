----------------------------- MODULE MCSighash ------------------------------
(***************************************************************************)
(* A signer's view of one transaction: it asks for the signature hash of   *)
(* its inputs under every hash type, in any order, and fills signature     *)
(* scripts in between.  The transaction's cells live in heap; last is the *)
(* most recent call and its result.                                        *)
(***************************************************************************)
EXTENDS Sighash

CONSTANTS NIn, NOut,    \* inputs and outputs of the transaction
          Scripts,      \* the script codes a caller passes
          HashTypes,    \* the hash types a caller passes
          SigScripts    \* the signature scripts a signer fills in

ASSUME SizeAssumption == NIn \in Nat /\ NOut \in Nat

(* Script codes with a code separator, a pushed 0xab byte that is not one, *)
(* a lone separator and a push that runs past the end; a signature script. *)
MCScripts == {<<OP_DUP, OP_CODESEPARATOR, OP_CHECKSIG>>, <<1, OP_CODESEPARATOR>>,
              <<OP_CODESEPARATOR>>, <<OP_PUSHDATA1>>}
MCSigScripts == {<<1, 9>>}

VARIABLES heap, last
vars == <<heap, last>>

InAddr(i) == <<"in", i>>
OutAddr(i) == <<"out", i>>
Tx == [version |-> 1, lockTime |-> 0,
       txIn |-> [i \in 1 .. NIn |-> InAddr(i)], txOut |-> [i \in 1 .. NOut |-> OutAddr(i)]]
InitHeap ==
  [a \in {InAddr(i) : i \in 1 .. NIn} \cup {OutAddr(i) : i \in 1 .. NOut} |->
     IF a[1] = "in" THEN [prevOut |-> a[2], sigScript |-> << >>, sequence |-> 5]
     ELSE [value |-> 10 * a[2], pkScript |-> <<OP_DUP, a[2]>>]]

(* The transaction as a value, read through its pointers.                  *)
TxValue(h) == SerializeNoWitness(Tx, h)

Init == heap = InitHeap /\ last = [status |-> "none"]

(* CalcSignatureHash for an input NewEngine would accept (idx < len(TxIn)).*)
Calc ==
  \E script \in Scripts, ht \in HashTypes, idx \in 0 .. NIn - 1 :
    LET r == CalcSignatureHash(script, ht, Tx, heap, idx)
    IN /\ heap' = r.heap
       /\ last' = [status |-> r.status, script |-> script, ht |-> ht, idx |-> idx,
                   digest |-> r.digest]

(* The signer stores a signature script in an input of its transaction.   *)
SetSignatureScript ==
  \E i \in 1 .. NIn, s \in SigScripts :
    /\ heap[InAddr(i)].sigScript # s
    /\ heap' = [heap EXCEPT ![InAddr(i)].sigScript = s]
    /\ UNCHANGED last

Next == Calc \/ SetSignatureScript

Spec == Init /\ [][Next]_vars

(* For an input NewEngine accepts, calcSignatureHash does not panic and    *)
(* returns the hash section 4.4 defines for the transaction as it was      *)
(* before any call: the shallow copy,                                      *)
(* the blanking of signature scripts and sequences, the SIGHASH_SINGLE     *)
(* truncation, the out-of-range constant and ANYONECANPAY are computed on *)
(* the copy, and earlier calls and signatures leave no trace in later     *)
(* hashes.                                                                 *)
SighashOfOriginal ==
  last.status \in {"ok", "panic"} =>
    /\ last.status = "ok"
    /\ last.digest = SpecSighash(last.script, last.ht, TxValue(InitHeap), last.idx)

(* The signer's view: the signature script of each input and the last    *)
(* call, with Orig the transaction it started from.                        *)
Abs == INSTANCE SighashSpec
         WITH sigs <- [i \in 1 .. NIn |-> heap[InAddr(i)].sigScript], Orig <- TxValue(InitHeap),
              SpecSighash <- SpecSighash, checkScriptParses <- checkScriptParses, OneHash <- OneHash

(* The heap-level model implements what CalcSignatureHash promises a      *)
(* signer: a call leaves every signature script as it was, refuses a      *)
(* script that does not parse, and otherwise returns the hash of the      *)
(* transaction it started from, whatever signature scripts it has stored  *)
(* in between; a store changes one signature script and nothing the       *)
(* signer sees of the last call.                                           *)
SighashRefines == Abs!Spec

(* A call to CalcSignatureHash never changes the caller's transaction:     *)
(* every step that is a call (Calc) leaves every cell of the heap as it    *)
(* was, whatever the hash type, the script and the input index; the blank- *)
(* ing of signature scripts, sequences and outputs reaches only the        *)
(* copy's cells, which the call drops.                                     *)
TxIntact == [][Calc => heap' = heap]_vars

=============================================================================
