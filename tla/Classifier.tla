----------------------------- MODULE Classifier ------------------------------
(***************************************************************************)
(* The standard-script classifier and builders of txscript/standard.go,   *)
(* translated function by function over byte sequences.  A nil slice and  *)
(* an empty one differ in Go; a result that may be nil is a record with a  *)
(* nil flag.                                                                *)
(***************************************************************************)
EXTENDS ScriptBytes

MaxDataCarrierSize == 80
MaxPubKeysPerMultiSig == 20

(* The ScriptClass enumeration and scriptClassToName (index t is t + 1).   *)
NonStandardTy == 0
PubKeyTy == 1
PubKeyHashTy == 2
ScriptHashTy == 3
MultiSigTy == 4
NullDataTy == 5
scriptClassToName ==
  <<"nonstandard", "pubkey", "pubkeyhash", "scripthash", "multisig", "nulldata">>

(* ScriptClass.String: the guard lets t = len(scriptClassToName) through to *)
(* the index, which is out of range and panics.                            *)
ClassString(t) ==
  CASE t > Len(scriptClassToName) \/ t < 0 -> "Invalid"
    [] t + 1 > Len(scriptClassToName)       -> "panic"
    [] OTHER                                -> scriptClassToName[t + 1]

NilBytes == [nil |-> TRUE, data |-> << >>]
Bytes(d) == [nil |-> FALSE, data |-> d]

(* Mutant: the key slice stops one byte short.                            *)
extractCompressedPubKeyShort(s) ==
  IF /\ Len(s) = 35 /\ At(s, 34) = OP_CHECKSIG /\ At(s, 0) = OP_DATA_33
     /\ At(s, 1) \in {2, 3}
  THEN Bytes(Slice(s, 1, 33)) ELSE NilBytes

extractCompressedPubKey(s) ==
  IF /\ Len(s) = 35 /\ At(s, 34) = OP_CHECKSIG /\ At(s, 0) = OP_DATA_33
     /\ At(s, 1) \in {2, 3}
  THEN Bytes(Slice(s, 1, 34)) ELSE NilBytes

extractUncompressedPubKey(s) ==
  IF /\ Len(s) = 67 /\ At(s, 66) = OP_CHECKSIG /\ At(s, 0) = OP_DATA_65
     /\ At(s, 1) \in {4, 6, 7}
  THEN Bytes(Slice(s, 1, 66)) ELSE NilBytes

extractPubKey(s) ==
  IF ~extractCompressedPubKey(s).nil THEN extractCompressedPubKey(s)
  ELSE extractUncompressedPubKey(s)
isPubKeyScript(s) == ~extractPubKey(s).nil

extractPubKeyHash(s) ==
  IF /\ Len(s) = 25 /\ At(s, 0) = OP_DUP /\ At(s, 1) = OP_HASH160
     /\ At(s, 2) = OP_DATA_20 /\ At(s, 23) = OP_EQUALVERIFY /\ At(s, 24) = OP_CHECKSIG
  THEN Bytes(Slice(s, 3, 23)) ELSE NilBytes
isPubKeyHashScript(s) == ~extractPubKeyHash(s).nil

extractScriptHash(s) ==
  IF Len(s) = 23 /\ At(s, 0) = OP_HASH160 /\ At(s, 1) = OP_DATA_20 /\ At(s, 22) = OP_EQUAL
  THEN Bytes(Slice(s, 2, 22)) ELSE NilBytes
isScriptHashScript(s) == ~extractScriptHash(s).nil

(* isStrictPubKeyEncoding (in the engine's source, used here).             *)
isStrictPubKeyEncoding(k) ==
  \/ Len(k) = 33 /\ k[1] \in {2, 3}
  \/ Len(k) = 65 /\ k[1] \in {4, 6, 7}

(* extractMultisigScriptDetails.  The loop reads tokens after the first    *)
(* until one is a small integer (stop), counting every other token as a   *)
(* public key and keeping those whose data is strictly encoded.  The loop *)
(* leaves the tokenizer Done when it ran out of tokens or when the stop    *)
(* token ends the script.  pubKeys is always extracted; isMultisigScript  *)
(* only reads valid.                                                       *)
InvalidDetails == [valid |-> FALSE, requiredSigs |-> 0, numPubKeys |-> 0, pubKeys |-> << >>]
(* The index of the first small-integer token after the first, 0 if none. *)
firstSmallIntAfterFirst(toks) ==
  LET stops == {j \in 2 .. Len(toks) : isSmallInt(toks[j].op)}
  IN IF stops = {} THEN 0 ELSE CHOOSE j \in stops : \A i \in stops : j <= i
(* The checks on the tokens of s, given the index of the stop token.       *)
MultisigDetails(s, toks, stop) ==
  LET keys  == [k \in 1 .. stop - 2 |-> toks[k + 1]]
      strict(t) == ~t.nil /\ isStrictPubKeyEncoding(t.data)
  IN CASE Len(s) < 3 \/ At(s, Len(s) - 1) # OP_CHECKMULTISIG -> InvalidDetails
       [] toks = << >> \/ ~isSmallInt(toks[1].op)            -> InvalidDetails
       [] stop = 0 \/ toks[stop].end >= Len(s)                -> InvalidDetails
       [] asSmallInt(toks[stop].op) # stop - 2                -> InvalidDetails
       [] Len(s) - toks[stop].end # 1                         -> InvalidDetails
       [] OTHER -> [valid |-> TRUE, requiredSigs |-> asSmallInt(toks[1].op),
                    numPubKeys |-> stop - 2,
                    pubKeys |-> [k \in 1 .. Len(SelectSeq(keys, strict)) |->
                                   SelectSeq(keys, strict)[k].data]]
MultisigDetailsOf(s, toks) == MultisigDetails(s, toks, firstSmallIntAfterFirst(toks))
extractMultisigScriptDetails(s) == MultisigDetailsOf(s, Parse(s).toks)
isMultisigScript(s) == extractMultisigScriptDetails(s).valid

(* Mutant: the data of the first token instead of the last.              *)
finalOpcodeDataFirst(s) ==
  LET p == Parse(s)
  IN IF Len(s) = 0 \/ p.err THEN NilBytes
     ELSE [nil |-> p.toks[1].nil, data |-> p.toks[1].data]

(* finalOpcodeData: the data of the last token, nil on a parse error.      *)
FinalTokenData(s, p) ==
  IF Len(s) = 0 \/ p.err THEN NilBytes
  ELSE [nil |-> p.toks[Len(p.toks)].nil, data |-> p.toks[Len(p.toks)].data]
finalOpcodeData(s) == FinalTokenData(s, Parse(s))

IsMultisigSigScriptFinal(s, f) ==
  /\ Len(s) >= 4 /\ At(s, Len(s) - 1) = OP_CHECKMULTISIG
  /\ ~f.nil
  /\ isMultisigScript(f.data)
IsMultisigSigScript(s) == IsMultisigSigScriptFinal(s, finalOpcodeData(s))

(* isNullDataScript: OP_RETURN alone, or followed by exactly one token that *)
(* is a small integer or a push opcode with at most 80 bytes of data.     *)
NullDataToken(s, t) ==
  /\ ~t.err /\ t.end >= Len(s) - 1
  /\ isSmallInt(t.op) \/ t.op <= OP_PUSHDATA4
  /\ Len(t.data) <= MaxDataCarrierSize
isNullDataScript(s) ==
  /\ Len(s) >= 1 /\ At(s, 0) = OP_RETURN
  /\ Len(s) = 1 \/ NullDataToken(s, TokenAt(Tail(s), 0))

typeOfScript(s) ==
  CASE isPubKeyScript(s)     -> PubKeyTy
    [] isPubKeyHashScript(s) -> PubKeyHashTy
    [] isScriptHashScript(s) -> ScriptHashTy
    [] isMultisigScript(s)   -> MultiSigTy
    [] isNullDataScript(s)   -> NullDataTy
    [] OTHER                 -> NonStandardTy
GetScriptClass(s) == typeOfScript(s)

(* NewScriptClass: the first index whose name matches, or an error.        *)
NewScriptClass(name) ==
  IF \E i \in 1 .. Len(scriptClassToName) : scriptClassToName[i] = name
  THEN CHOOSE i \in 0 .. Len(scriptClassToName) - 1 : scriptClassToName[i + 1] = name
  ELSE "ErrUnsupportedScriptType"

(* Mutant: without the extra input for CHECKMULTISIG's extra pop.         *)
expectedInputsNoDummy(s, class) ==
  CASE class = PubKeyTy     -> 1
    [] class = PubKeyHashTy -> 2
    [] class = ScriptHashTy -> 1
    [] class = MultiSigTy   -> asSmallInt(At(s, 0))
    [] OTHER                -> -1

(* expectedInputs reads the multisig's required count from the first byte. *)
expectedInputs(s, class) ==
  CASE class = PubKeyTy     -> 1
    [] class = PubKeyHashTy -> 2
    [] class = ScriptHashTy -> 1
    [] class = MultiSigTy   -> asSmallInt(At(s, 0)) + 1
    [] OTHER                -> -1


(* CalcScriptInfo without the signature-operation count (countSigOpsV0 is *)
(* not in the source tree).  NumInputs counts the tokens of the signature *)
(* script; with pay-to-script-hash under BIP16 the redeem script is its    *)
(* final push and adds its own expected inputs, or makes them unknown.    *)
ScriptInfo(sp, pkParses, pushOnly, p2sh, class, expected, rsInputs) ==
  CASE sp.err                      -> [err |-> "parse"]
    [] ~pkParses                   -> [err |-> "parse"]
    [] ~pushOnly                   -> [err |-> "ErrNotPushOnly"]
    [] class = ScriptHashTy /\ p2sh ->
         [err |-> "none", PkScriptClass |-> class, NumInputs |-> Len(sp.toks),
          ExpectedInputs |-> IF rsInputs = -1 THEN -1 ELSE expected + rsInputs]
    [] OTHER ->
         [err |-> "none", PkScriptClass |-> class, NumInputs |-> Len(sp.toks),
          ExpectedInputs |-> expected]
RedeemInputs(redeem) == expectedInputs(redeem, typeOfScript(redeem))
CalcScriptInfo(sigScript, pkScript, bip16, segwit) ==
  ScriptInfo(Parse(sigScript), checkScriptParses(pkScript), IsPushOnlyScript(sigScript),
             bip16 /\ ~segwit, typeOfScript(pkScript),
             expectedInputs(pkScript, typeOfScript(pkScript)),
             RedeemInputs(finalOpcodeData(sigScript).data))

(* CalcMultiSigStats: (numPubKeys, requiredSigs), or an error.             *)
MultiSigStatsOf(d) ==
  IF d.valid THEN [err |-> FALSE, numPubKeys |-> d.numPubKeys, requiredSigs |-> d.requiredSigs]
  ELSE [err |-> TRUE, numPubKeys |-> 0, requiredSigs |-> 0]
CalcMultiSigStats(s) == MultiSigStatsOf(extractMultisigScriptDetails(s))

(* The payment-script builders.                                            *)
payToPubKeyHashScript(h) ==
  AddOp(AddOp(AddData(AddOp(AddOp(NewScriptBuilder, OP_DUP), OP_HASH160), h),
              OP_EQUALVERIFY), OP_CHECKSIG)
payToScriptHashScript(h) ==
  AddOp(AddData(AddOp(NewScriptBuilder, OP_HASH160), h), OP_EQUAL)
payToPubKeyScript(k) ==
  AddOp(AddData(NewScriptBuilder, k), OP_CHECKSIG)

(* PayToAddrScript by the address's dynamic type; a nil pointer of a known *)
(* type (NilAddress) and an address of any other type are errors.         *)
NilAddress(kind) == Address(kind, -1, << >>)
PayToAddrScript(a) ==
  CASE a.netID = -1     -> [script |-> << >>, err |-> TRUE]
    [] a.kind = "pkh"   -> payToPubKeyHashScript(ScriptAddress(a))
    [] a.kind = "sh"    -> payToScriptHashScript(ScriptAddress(a))
    [] a.kind = "pk"    -> payToPubKeyScript(ScriptAddress(a))
    [] OTHER            -> [script |-> << >>, err |-> TRUE]

NullDataScript(d) ==
  IF Len(d) > MaxDataCarrierSize THEN [script |-> << >>, err |-> TRUE]
  ELSE AddData(AddOp(NewScriptBuilder, OP_RETURN), d)

(* Mutant: the key count pushed first and the required count last.        *)
MultiSigScriptSwapped(pubkeys, nrequired) ==
  LET B[i \in 0 .. Len(pubkeys)] ==
        IF i = 0 THEN AddInt64(NewScriptBuilder, Len(pubkeys))
        ELSE AddData(B[i - 1], ScriptAddress(pubkeys[i]))
  IN IF Len(pubkeys) < nrequired THEN [script |-> << >>, err |-> TRUE]
     ELSE AddOp(AddInt64(B[Len(pubkeys)], nrequired), OP_CHECKMULTISIG)

(* MultiSigScript: nrequired, each key's serialisation, the key count and  *)
(* OP_CHECKMULTISIG; the only check is that there are enough keys.         *)
MultiSigScript(pubkeys, nrequired) ==
  LET B[i \in 0 .. Len(pubkeys)] ==
        IF i = 0 THEN AddInt64(NewScriptBuilder, nrequired)
        ELSE AddData(B[i - 1], ScriptAddress(pubkeys[i]))
  IN IF Len(pubkeys) < nrequired THEN [script |-> << >>, err |-> TRUE]
     ELSE AddOp(AddInt64(B[Len(pubkeys)], Len(pubkeys)), OP_CHECKMULTISIG)

(* PushedData: the data of every push, OP_0 as nil, or the parse error.    *)
PushedDataOf(p) ==
  LET toks == SelectSeq(p.toks, LAMBDA t : ~t.nil \/ t.op = OP_0)
  IN IF p.err THEN [err |-> TRUE, data |-> << >>]
     ELSE [err |-> FALSE, data |-> [k \in 1 .. Len(toks) |->
                                      IF toks[k].nil THEN NilBytes ELSE Bytes(toks[k].data)]]
PushedData(s) == PushedDataOf(Parse(s))

pubKeyHashToAddrs(h, p) == NewAddressPubKeyHash(h, p)
scriptHashToAddrs(h, p) == NewAddressScriptHashFromHash(h, p)

(* ExtractPkScriptAddrs: the templates in the order PKH, SH, PK, multisig, *)
(* null data; keys that do not parse are skipped.                           *)
ExtractAddrs(s, p, ms) ==
  LET AddrsOf[i \in 0 .. Len(ms.pubKeys)] ==
        IF i = 0 THEN << >> ELSE AddrsOf[i - 1] \o NewAddressPubKey(ms.pubKeys[i], p)
      R(c, a, n) == [class |-> c, addrs |-> a, reqSigs |-> n]
  IN CASE ~extractPubKeyHash(s).nil ->
            R(PubKeyHashTy, pubKeyHashToAddrs(extractPubKeyHash(s).data, p), 1)
       [] ~extractScriptHash(s).nil ->
            R(ScriptHashTy, scriptHashToAddrs(extractScriptHash(s).data, p), 1)
       [] ~extractPubKey(s).nil ->
            R(PubKeyTy, NewAddressPubKey(extractPubKey(s).data, p), 1)
       [] ms.valid           -> R(MultiSigTy, AddrsOf[Len(ms.pubKeys)], ms.requiredSigs)
       [] isNullDataScript(s) -> R(NullDataTy, << >>, 0)
       [] OTHER              -> R(NonStandardTy, << >>, 0)
ExtractPkScriptAddrs(s, p) == ExtractAddrs(s, p, extractMultisigScriptDetails(s))


(* PkScript of pkscript.go: a class and the script in a zero-padded array *)
(* of maxLen bytes.  ParsePkScript keeps P2PKH and P2SH scripts only.      *)
pubKeyHashLen == 25
scriptHashLen == 23
maxLen == 34
ZeroPkScript == [class |-> NonStandardTy, script |-> [i \in 1 .. maxLen |-> 0]]
isSupportedScriptType(c) == c \in {PubKeyHashTy, ScriptHashTy}
ParsePkScriptOf(s, c) ==
  LET n == IF Len(s) < maxLen THEN Len(s) ELSE maxLen
  IN IF ~isSupportedScriptType(c) THEN [err |-> TRUE, pk |-> ZeroPkScript]
     ELSE [err |-> FALSE,
           pk |-> [class |-> c, script |-> [i \in 1 .. maxLen |-> IF i <= n THEN s[i] ELSE 0]]]
ParsePkScript(s) == ParsePkScriptOf(s, ExtractPkScriptAddrs(s, MainNetParams).class)

(* Mutant: Script() cuts a P2SH script at the P2PKH length.                 *)
PkScriptScriptLong(ps) ==
  CASE ps.class \in {PubKeyHashTy, ScriptHashTy} -> SubSeq(ps.script, 1, pubKeyHashLen)
    [] OTHER -> << >>

(* PkScript.Script: the first 25 or 23 bytes, nil for any other class.     *)
PkScriptScript(ps) ==
  CASE ps.class = PubKeyHashTy -> SubSeq(ps.script, 1, pubKeyHashLen)
    [] ps.class = ScriptHashTy -> SubSeq(ps.script, 1, scriptHashLen)
    [] OTHER -> << >>

(* PkScript.Address: the first address ExtractPkScriptAddrs gives for      *)
(* Script(); indexing an empty result panics.                              *)
PkScriptAddressOf(e) ==
  IF Len(e.addrs) = 0 THEN [status |-> "panic"] ELSE [status |-> "ok", addr |-> e.addrs[1]]
PkScriptAddress(ps, p) == PkScriptAddressOf(ExtractPkScriptAddrs(PkScriptScript(ps), p))

=============================================================================
