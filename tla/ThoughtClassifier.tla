-------------------------- MODULE ThoughtClassifier --------------------------
(***************************************************************************)
(* The copy of the standard-script classifier kept in package thought     *)
(* (thought/txscript.go): the class names, finalOpcodeData,               *)
(* isStrictPubKeyEncoding, the template extractors, the multisig details, *)
(* the null-data test, typeOfScript and ExtractPkScriptAddrs, translated  *)
(* from that file.  It has no builders and no CalcScriptInfo.             *)
(***************************************************************************)
EXTENDS ScriptBytes

MaxDataCarrierSize == 80
MaxPubKeysPerMultiSig == 20

(* The ScriptClass enumeration and scriptClassToName (index t is t + 1).   *)
NonStandardTy == 0
PubKeyTy == 1
PubKeyHashTy == 2
ScriptHashTy == 3
MultiSigTy == 4
NullDataTy == 5
scriptClassToName ==
  <<"nonstandard", "pubkey", "pubkeyhash", "scripthash", "multisig", "nulldata">>

(* ScriptClass.String: the guard lets t = len(scriptClassToName) through to *)
(* the index, which is out of range and panics.                            *)
ClassString(t) ==
  CASE t > Len(scriptClassToName) \/ t < 0 -> "Invalid"
    [] t + 1 > Len(scriptClassToName)       -> "panic"
    [] OTHER                                -> scriptClassToName[t + 1]

NilBytes == [nil |-> TRUE, data |-> << >>]
Bytes(d) == [nil |-> FALSE, data |-> d]

extractCompressedPubKey(s) ==
  IF /\ Len(s) = 35 /\ At(s, 34) = OP_CHECKSIG /\ At(s, 0) = OP_DATA_33
     /\ At(s, 1) \in {2, 3}
  THEN Bytes(Slice(s, 1, 34)) ELSE NilBytes

extractUncompressedPubKey(s) ==
  IF /\ Len(s) = 67 /\ At(s, 66) = OP_CHECKSIG /\ At(s, 0) = OP_DATA_65
     /\ At(s, 1) \in {4, 6, 7}
  THEN Bytes(Slice(s, 1, 66)) ELSE NilBytes

extractPubKey(s) ==
  IF ~extractCompressedPubKey(s).nil THEN extractCompressedPubKey(s)
  ELSE extractUncompressedPubKey(s)
isPubKeyScript(s) == ~extractPubKey(s).nil

extractPubKeyHash(s) ==
  IF /\ Len(s) = 25 /\ At(s, 0) = OP_DUP /\ At(s, 1) = OP_HASH160
     /\ At(s, 2) = OP_DATA_20 /\ At(s, 23) = OP_EQUALVERIFY /\ At(s, 24) = OP_CHECKSIG
  THEN Bytes(Slice(s, 3, 23)) ELSE NilBytes
isPubKeyHashScript(s) == ~extractPubKeyHash(s).nil

extractScriptHash(s) ==
  IF Len(s) = 23 /\ At(s, 0) = OP_HASH160 /\ At(s, 1) = OP_DATA_20 /\ At(s, 22) = OP_EQUAL
  THEN Bytes(Slice(s, 2, 22)) ELSE NilBytes
isScriptHashScript(s) == ~extractScriptHash(s).nil

(* Mutant: a copy that no longer accepts hybrid keys.                     *)
isStrictPubKeyEncodingNoHybrid(k) ==
  \/ Len(k) = 33 /\ k[1] \in {2, 3}
  \/ Len(k) = 65 /\ k[1] = 4

isStrictPubKeyEncoding(k) ==
  \/ Len(k) = 33 /\ k[1] \in {2, 3}
  \/ Len(k) = 65 /\ k[1] \in {4, 6, 7}

(* extractMultisigScriptDetails.  The loop reads tokens after the first    *)
(* until one is a small integer (stop), counting every other token as a   *)
(* public key and keeping those whose data is strictly encoded.  The loop *)
(* leaves the tokenizer Done when it ran out of tokens or when the stop    *)
(* token ends the script.  pubKeys is always extracted; isMultisigScript  *)
(* only reads valid.                                                       *)
InvalidDetails == [valid |-> FALSE, requiredSigs |-> 0, numPubKeys |-> 0, pubKeys |-> << >>]
(* The index of the first small-integer token after the first, 0 if none. *)
firstSmallIntAfterFirst(toks) ==
  LET stops == {j \in 2 .. Len(toks) : isSmallInt(toks[j].op)}
  IN IF stops = {} THEN 0 ELSE CHOOSE j \in stops : \A i \in stops : j <= i
(* The checks on the tokens of s, given the index of the stop token.       *)
MultisigDetails(s, toks, stop) ==
  LET keys  == [k \in 1 .. stop - 2 |-> toks[k + 1]]
      strict(t) == ~t.nil /\ isStrictPubKeyEncoding(t.data)
  IN CASE Len(s) < 3 \/ At(s, Len(s) - 1) # OP_CHECKMULTISIG -> InvalidDetails
       [] toks = << >> \/ ~isSmallInt(toks[1].op)            -> InvalidDetails
       [] stop = 0 \/ toks[stop].end >= Len(s)                -> InvalidDetails
       [] asSmallInt(toks[stop].op) # stop - 2                -> InvalidDetails
       [] Len(s) - toks[stop].end # 1                         -> InvalidDetails
       [] OTHER -> [valid |-> TRUE, requiredSigs |-> asSmallInt(toks[1].op),
                    numPubKeys |-> stop - 2,
                    pubKeys |-> [k \in 1 .. Len(SelectSeq(keys, strict)) |->
                                   SelectSeq(keys, strict)[k].data]]
MultisigDetailsOf(s, toks) == MultisigDetails(s, toks, firstSmallIntAfterFirst(toks))
extractMultisigScriptDetails(s) == MultisigDetailsOf(s, Parse(s).toks)
isMultisigScript(s) == extractMultisigScriptDetails(s).valid

(* finalOpcodeData: the data of the last token, nil on a parse error.      *)
FinalTokenData(s, p) ==
  IF Len(s) = 0 \/ p.err THEN NilBytes
  ELSE [nil |-> p.toks[Len(p.toks)].nil, data |-> p.toks[Len(p.toks)].data]
finalOpcodeData(s) == FinalTokenData(s, Parse(s))

IsMultisigSigScriptFinal(s, f) ==
  /\ Len(s) >= 4 /\ At(s, Len(s) - 1) = OP_CHECKMULTISIG
  /\ ~f.nil
  /\ isMultisigScript(f.data)
IsMultisigSigScript(s) == IsMultisigSigScriptFinal(s, finalOpcodeData(s))

(* isNullDataScript: OP_RETURN alone, or followed by exactly one token that *)
(* is a small integer or a push opcode with at most 80 bytes of data.     *)
NullDataToken(s, t) ==
  /\ ~t.err /\ t.end >= Len(s) - 1
  /\ isSmallInt(t.op) \/ t.op <= OP_PUSHDATA4
  /\ Len(t.data) <= MaxDataCarrierSize
isNullDataScript(s) ==
  /\ Len(s) >= 1 /\ At(s, 0) = OP_RETURN
  /\ Len(s) = 1 \/ NullDataToken(s, TokenAt(Tail(s), 0))

typeOfScript(s) ==
  CASE isPubKeyScript(s)     -> PubKeyTy
    [] isPubKeyHashScript(s) -> PubKeyHashTy
    [] isScriptHashScript(s) -> ScriptHashTy
    [] isMultisigScript(s)   -> MultiSigTy
    [] isNullDataScript(s)   -> NullDataTy
    [] OTHER                 -> NonStandardTy
GetScriptClass(s) == typeOfScript(s)

(* NewScriptClass: the first index whose name matches, or an error.        *)
NewScriptClass(name) ==
  IF \E i \in 1 .. Len(scriptClassToName) : scriptClassToName[i] = name
  THEN CHOOSE i \in 0 .. Len(scriptClassToName) - 1 : scriptClassToName[i + 1] = name
  ELSE "ErrUnsupportedScriptType"

pubKeyHashToAddrs(h, p) == NewAddressPubKeyHash(h, p)
scriptHashToAddrs(h, p) == NewAddressScriptHashFromHash(h, p)

ExtractAddrs(s, p, ms) ==
  LET AddrsOf[i \in 0 .. Len(ms.pubKeys)] ==
        IF i = 0 THEN << >> ELSE AddrsOf[i - 1] \o NewAddressPubKey(ms.pubKeys[i], p)
      R(c, a, n) == [class |-> c, addrs |-> a, reqSigs |-> n]
  IN CASE ~extractPubKeyHash(s).nil ->
            R(PubKeyHashTy, pubKeyHashToAddrs(extractPubKeyHash(s).data, p), 1)
       [] ~extractScriptHash(s).nil ->
            R(ScriptHashTy, scriptHashToAddrs(extractScriptHash(s).data, p), 1)
       [] ~extractPubKey(s).nil ->
            R(PubKeyTy, NewAddressPubKey(extractPubKey(s).data, p), 1)
       [] ms.valid           -> R(MultiSigTy, AddrsOf[Len(ms.pubKeys)], ms.requiredSigs)
       [] isNullDataScript(s) -> R(NullDataTy, << >>, 0)
       [] OTHER              -> R(NonStandardTy, << >>, 0)
ExtractPkScriptAddrs(s, p) == ExtractAddrs(s, p, extractMultisigScriptDetails(s))

=============================================================================
