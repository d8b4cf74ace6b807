----------------------------- MODULE SighashSpec -----------------------------
(***************************************************************************)
(* What CalcSignatureHash promises a signer, abstractly: the signer sees   *)
(* the signature scripts of its inputs and the result of its last call.    *)
(* Storing a signature script changes one input; a call for an input      *)
(* refuses a script that does not parse and otherwise returns the hash    *)
(* section 4.4 gives of the transaction Orig the signer started from,     *)
(* whatever it has stored since.  No call changes a signature script.     *)
(***************************************************************************)
EXTENDS Naturals

CONSTANTS NIn,          \* inputs of the transaction
          Scripts,      \* the script codes a caller passes
          HashTypes,    \* the hash types a caller passes
          SigScripts,   \* the signature scripts a signer fills in
          Orig,         \* the transaction value before any signature
          SpecSighash(_, _, _, _),  \* section 4.4's hash of a value
          checkScriptParses(_),     \* whether a script code parses
          OneHash                   \* the digest a refused call returns

VARIABLES sigs,         \* the signature script of each input
          last          \* the most recent call and its result
vars == <<sigs, last>>

Init == sigs = [i \in 1 .. NIn |-> << >>] /\ last = [status |-> "none"]

(* A call for input idx.                                                   *)
Hash ==
  \E script \in Scripts, ht \in HashTypes, idx \in 0 .. NIn - 1 :
    /\ last' = IF checkScriptParses(script)
               THEN [status |-> "ok", script |-> script, ht |-> ht, idx |-> idx,
                     digest |-> SpecSighash(script, ht, Orig, idx)]
               ELSE [status |-> "err", script |-> script, ht |-> ht, idx |-> idx,
                     digest |-> OneHash]
    /\ UNCHANGED sigs

(* The signer stores a new signature script in one input.                 *)
Sign ==
  \E i \in 1 .. NIn, s \in SigScripts :
    /\ sigs[i] # s
    /\ sigs' = [sigs EXCEPT ![i] = s]
    /\ UNCHANGED last

Next == Hash \/ Sign

Spec == Init /\ [][Next]_vars

=============================================================================
