---------------------------- MODULE MCClassifier -----------------------------
(***************************************************************************)
(* Drives the classifier of standard.go with the scripts a wallet and the *)
(* construction code build (PayToAddrScript, MultiSigScript,              *)
(* NullDataScript, pay-to-script-hash around any of them) and with those  *)
(* scripts damaged at one of the bytes the templates inspect.  The state  *)
(* is the script in hand and how it was made; every property is about     *)
(* what the classifier's entry points say of it.                          *)
(***************************************************************************)
EXTENDS Classifier, FiniteSets

CONSTANTS MaxKeys,      \* the most keys MultiSigScript is given
          MutBytes      \* the byte values a damaged byte may take

VARIABLES script, origin, mutated

(* The copy of the classifier in package thought.                          *)
Thought == INSTANCE ThoughtClassifier
vars == <<script, origin, mutated>>

(* Keys are a format byte followed by 32 or 64 copies of an id byte;       *)
(* OnCurve decides which ids are points.  Hashes are 20 equal bytes.  The *)
(* filler bytes are long push opcodes, so that a damaged template that     *)
(* the tokenizer reads as pushes is read as a few long ones.               *)
MkKey(prefix, id) == <<prefix>> \o [i \in 1 .. (IF prefix \in {2, 3} THEN 32 ELSE 64) |-> id]
Hash20(b) == [i \in 1 .. 20 |-> b]
KeyBytes == {MkKey(2, 75), MkKey(3, 75), MkKey(4, 75), MkKey(6, 75), MkKey(2, 74)}
DummySig == <<48, 6, 2, 1, 1, 2, 1, 1, 1>>

(* The addresses a program can hold: those the util constructors return.  *)
AddrsOf(p) ==
  { a \in UNION { {NewAddressPubKeyHash(Hash20(b), p), NewAddressScriptHashFromHash(Hash20(b), p)}
                  : b \in {60, 61} } \cup { NewAddressPubKey(k, p) : k \in KeyBytes } :
      a # << >> }
Addrs(p) == { a[1] : a \in AddrsOf(p) }
PubKeyAddrs(p) == { a \in Addrs(p) : a.kind = "pk" /\ a.payload[1] \in {2, 6} }
KeySeqs(p) == UNION { [1 .. n -> PubKeyAddrs(p)] : n \in 0 .. MaxKeys }
NullDataInputs ==
  { << >>, <<0>>, <<16>>, <<17>>, <<129>>, [i \in 1 .. 75 |-> 1], [i \in 1 .. 76 |-> 1],
    [i \in 1 .. 80 |-> 1], [i \in 1 .. 81 |-> 1] }

Built(b, o) == script' = b.script /\ origin' = [o EXCEPT !.err = b.err] /\ mutated' = FALSE

Init == script = << >> /\ origin = [kind |-> "none", err |-> FALSE] /\ mutated = FALSE

BuildAddrScript ==
  \E p \in Nets, k \in {"pkh", "sh", "pk"} :
    \E a \in Addrs(p) \cup {NilAddress(k)} :
      Built(PayToAddrScript(a), [kind |-> "addr", addr |-> a, net |-> p, err |-> FALSE])

BuildMultiSigScript ==
  \E p \in Nets : \E keys \in KeySeqs(p), m \in -1 .. MaxKeys + 1 :
    Built(MultiSigScript(keys, m),
          [kind |-> "multisig", keys |-> keys, m |-> m, net |-> p, err |-> FALSE])

BuildNullDataScript ==
  \E d \in NullDataInputs :
    Built(NullDataScript(d), [kind |-> "nulldata", data |-> d, err |-> FALSE])

(* Pay to the hash of the script in hand, spent by a signature script that *)
(* pushes a signature and the script itself as the redeem script.          *)
BuildP2SH ==
  /\ origin.kind \in {"addr", "multisig", "nulldata"} /\ ~origin.err /\ ~mutated
  /\ script # << >>
  /\ Built(payToScriptHashScript(Hash20(62)),
           [kind |-> "p2sh", redeem |-> script, err |-> FALSE,
            sig |-> AddData(AddData(NewScriptBuilder, DummySig), script).script])

(* Damage a built script once: set one of its first or last three bytes,   *)
(* drop its last byte, or add one.                                         *)
Mutate ==
  /\ ~mutated /\ origin.kind # "none" /\ script # << >>
  /\ mutated' = TRUE /\ UNCHANGED origin
  /\ \/ \E i \in {0, 1, 2, Len(script) - 3, Len(script) - 2, Len(script) - 1} \cap
                  0 .. Len(script) - 1, b \in MutBytes :
          /\ At(script, i) # b
          /\ script' = [script EXCEPT ![i + 1] = b]
     \/ script' = SubSeq(script, 1, Len(script) - 1)
     \/ \E b \in MutBytes : script' = Append(script, b)

Next == BuildAddrScript \/ BuildMultiSigScript \/ BuildNullDataScript \/ BuildP2SH \/ Mutate

Spec == Init /\ [][Next]_vars


TypeOK ==
  /\ script \in Seq(Byte)
  /\ origin.kind \in {"none", "addr", "multisig", "nulldata", "p2sh"}
  /\ mutated \in BOOLEAN

(* The checks of ClassifierAgrees on script s of class c, with the        *)
(* addresses e and the multisig counts st the entry points report.        *)
ClassifierAgreesOn(s, c, e, st) ==
  /\ e.class = c
  /\ c \in {PubKeyHashTy, ScriptHashTy} => Len(e.addrs) = 1 /\ e.reqSigs = 1
  /\ c = MultiSigTy =>
       /\ st.requiredSigs = e.reqSigs
       /\ expectedInputs(s, c) = e.reqSigs + 1
       /\ Len(e.addrs) <= st.numPubKeys
  /\ c \in {NullDataTy, NonStandardTy} =>
       e.addrs = << >> /\ e.reqSigs = 0 /\ expectedInputs(s, c) = -1

(* The classifier's entry points agree on every script, built or damaged:  *)
(* ExtractPkScriptAddrs (which tries the templates in another order) gives *)
(* the class GetScriptClass gives; a hash template yields exactly one      *)
(* address (PkScript.Address indexes addrs[0]); a multisig's required      *)
(* signatures are what CalcMultiSigStats reports and one less than what    *)
(* expectedInputs reads off the first byte, and it never yields more       *)
(* addresses than it counts keys; null data and non-standard scripts yield *)
(* no address and an unknown input count.                                  *)
ClassifierAgrees ==
  \A p \in Nets :
    ClassifierAgreesOn(script, GetScriptClass(script), ExtractPkScriptAddrs(script, p),
                       CalcMultiSigStats(script))

(* PayToAddrScript then ExtractPkScriptAddrs on the same network gives     *)
(* back the address it paid, of the matching class, with one required      *)
(* signature; a nil address is refused.  The construction service builds   *)
(* outputs with the first and the indexer reads them with the second.     *)
ClassOfKind == [pkh |-> PubKeyHashTy, sh |-> ScriptHashTy, pk |-> PubKeyTy]
PayToAddrRoundTrip ==
  origin.kind = "addr" /\ ~mutated =>
    IF origin.addr.netID = -1 THEN origin.err
    ELSE /\ ~origin.err
         /\ ExtractPkScriptAddrs(script, origin.net) =
              [class |-> ClassOfKind[origin.addr.kind], addrs |-> <<origin.addr>>,
               reqSigs |-> 1]

(* MultiSigScript refuses fewer keys than required signatures; otherwise,  *)
(* for 0 <= m <= n, the script is a multisig of those keys: the addresses, *)
(* the counts CalcMultiSigStats reports and the signature-script guess of *)
(* IsMultisigSigScript all recover what was built; a negative m builds a  *)
(* non-standard script.                                                    *)
MultiSigRoundTrip ==
  origin.kind = "multisig" /\ ~mutated =>
    LET n == Len(origin.keys)
        m == origin.m
    IN /\ origin.err <=> n < m
       /\ 0 <= m /\ m <= n =>
            /\ ExtractPkScriptAddrs(script, origin.net) =
                 [class |-> MultiSigTy, addrs |-> origin.keys, reqSigs |-> m]
            /\ CalcMultiSigStats(script) = [err |-> FALSE, numPubKeys |-> n, requiredSigs |-> m]
            /\ IsMultisigSigScript(AddData(AddData(NewScriptBuilder, DummySig), script).script)
       /\ m < 0 => GetScriptClass(script) = NonStandardTy

(* The checks of P2SHScriptInfo on the script information and the redeem *)
(* script's class.                                                          *)
P2SHInfoAgrees(info, rc) ==
  /\ info.err = "none"
  /\ info.PkScriptClass = ScriptHashTy
  /\ info.NumInputs = 2
  /\ info.ExpectedInputs =
       IF rc \in {NullDataTy, NonStandardTy} THEN -1
       ELSE 1 + expectedInputs(origin.redeem, rc)
  /\ IsMultisigSigScript(origin.sig) <=> rc = MultiSigTy

(* CalcScriptInfo on a pay-to-script-hash spend counts the signature       *)
(* script's two pushes as inputs and expects one more input than the      *)
(* redeem script does, or an unknown number when the redeem script is not *)
(* standard; IsMultisigSigScript recognises the spend exactly when the    *)
(* redeem script is a multisig.                                            *)
P2SHScriptInfo ==
  origin.kind = "p2sh" /\ ~mutated =>
    P2SHInfoAgrees(CalcScriptInfo(origin.sig, script, TRUE, FALSE), GetScriptClass(origin.redeem))

(* The two copies of the classifier, txscript (standard.go) and thought   *)
(* (thought/txscript.go), give the same class, the same addresses and     *)
(* required signatures and the same multisig-signature-script guess for   *)
(* every script: code that builds with one and parses with the other sees *)
(* one answer.                                                             *)
PackagesAgree ==
  /\ Thought!GetScriptClass(script) = GetScriptClass(script)
  /\ Thought!IsMultisigSigScript(script) = IsMultisigSigScript(script)
  /\ \A p \in Nets : Thought!ExtractPkScriptAddrs(script, p) = ExtractPkScriptAddrs(script, p)

(* The check of PkScriptRoundTrip on what ParsePkScript returned.         *)
PkScriptRoundTripOf(ps) ==
  ~ps.err =>
    \A p \in Nets :
      PkScriptAddress(ps.pk, p) = [status |-> "ok", addr |-> ExtractPkScriptAddrs(script, p).addrs[1]]

(* A script ParsePkScript accepts (as a main-net script) gives, through  *)
(* PkScript.Script and PkScript.Address on any network, the address        *)
(* ExtractPkScriptAddrs reads from the script itself: the padding to       *)
(* maxLen is cut at the right length and Address never indexes an empty    *)
(* address list.                                                           *)
PkScriptRoundTrip == PkScriptRoundTripOf(ParsePkScript(script))

(* Section 4.3 of the specification: a multisig is <m> <pubkey>... <n>     *)
(* OP_CHECKMULTISIG with m and n small integers, n the number of keys, and *)
(* 1 <= m <= n <= 20.  GetScriptClass says multisig exactly for those.    *)
SpecMultisigOf(p) ==
  LET t == p.toks
      L == Len(t)
  IN /\ ~p.err /\ L >= 3
     /\ isSmallInt(t[1].op) /\ isSmallInt(t[L - 1].op) /\ t[L].op = OP_CHECKMULTISIG
     /\ \A k \in 2 .. L - 2 : ~t[k].nil /\ isStrictPubKeyEncoding(t[k].data)
     /\ asSmallInt(t[L - 1].op) = L - 3
     /\ 1 <= asSmallInt(t[1].op) /\ asSmallInt(t[1].op) <= asSmallInt(t[L - 1].op)
     /\ asSmallInt(t[L - 1].op) <= MaxPubKeysPerMultiSig
SpecMultisig(s) == SpecMultisigOf(Parse(s))
MultisigMatchesSpec == GetScriptClass(script) = MultiSigTy <=> SpecMultisig(script)

(* NullDataScript's comment: it creates a provably-prunable OP_RETURN      *)
(* script of the data; whenever it succeeds, GetScriptClass calls the      *)
(* script null data.                                                       *)
NullDataScriptIsNullData ==
  origin.kind = "nulldata" /\ ~mutated /\ ~origin.err =>
    GetScriptClass(script) = NullDataTy

=============================================================================
