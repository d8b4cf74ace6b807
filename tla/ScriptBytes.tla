----------------------------- MODULE ScriptBytes -----------------------------
(***************************************************************************)
(* The byte-level script layer the classifier of standard.go is built on: *)
(* the opcode values, the script tokenizer, the small-integer helpers, the *)
(* script builder and the address constructors of util.  None of this code *)
(* is in the repository's source tree (it is the txscript and util code   *)
(* the package imports), so every definition here follows the behaviour   *)
(* the specification and the callers rely on.                              *)
(*                                                                         *)
(* A script is a sequence of bytes; Go's 0-based index i is TLA+'s i+1.    *)
(***************************************************************************)
EXTENDS Integers, Sequences, ChainParams

Byte == 0 .. 255

OP_0 == 0
OP_DATA_1 == 1
OP_DATA_20 == 20
OP_DATA_33 == 33
OP_DATA_65 == 65
OP_DATA_75 == 75
OP_PUSHDATA1 == 76
OP_PUSHDATA2 == 77
OP_PUSHDATA4 == 78
OP_1NEGATE == 79
OP_1 == 81
OP_16 == 96
OP_RETURN == 106
OP_DUP == 118
OP_EQUAL == 135
OP_EQUALVERIFY == 136
OP_HASH160 == 169
OP_CHECKSIG == 172
OP_CHECKMULTISIG == 174

MaxScriptSize == 10000
MaxScriptElementSize == 520

(* Go's s[i] and s[a:b].                                                   *)
At(s, i) == s[i + 1]
Slice(s, a, b) == SubSeq(s, a + 1, b)

(* IsSmallInt and AsSmallInt: OP_0 and OP_1 .. OP_16.                      *)
isSmallInt(op) == op = OP_0 \/ op \in OP_1 .. OP_16
asSmallInt(op) == IF op = OP_0 THEN 0 ELSE op - (OP_1 - 1)

(* One step of the tokenizer at byte offset i: a push opcode is followed by *)
(* its length bytes (little endian) and its data; a length byte above the   *)
(* third of OP_PUSHDATA4 makes the push longer than any script, so it is   *)
(* an error like any push that runs past the end.  Non-push opcodes and    *)
(* OP_0 have nil data.                                                     *)
TokenAt(s, i) ==
  LET op   == At(s, i)
      hdr  == CASE op \in OP_DATA_1 .. OP_DATA_75 -> 1
                [] op = OP_PUSHDATA1 -> 2
                [] op = OP_PUSHDATA2 -> 3
                [] op = OP_PUSHDATA4 -> 5
                [] OTHER -> 1
      B(k) == At(s, i + k)
      dlen == CASE op \in OP_DATA_1 .. OP_DATA_75 -> op
                [] op = OP_PUSHDATA1 -> B(1)
                [] op = OP_PUSHDATA2 -> B(1) + 256 * B(2)
                [] op = OP_PUSHDATA4 ->
                     IF B(4) > 0 THEN Len(s) + 1
                     ELSE B(1) + 256 * B(2) + 65536 * B(3)
                [] OTHER -> 0
  IN CASE op \notin OP_DATA_1 .. OP_PUSHDATA4 ->
            [op |-> op, nil |-> TRUE, data |-> << >>, end |-> i + 1, err |-> FALSE]
       [] i + hdr > Len(s) \/ dlen > Len(s) - (i + hdr) ->
            [op |-> op, nil |-> TRUE, data |-> << >>, end |-> Len(s), err |-> TRUE]
       [] OTHER ->
            [op |-> op, nil |-> FALSE, data |-> Slice(s, i + hdr, i + hdr + dlen),
             end |-> i + hdr + dlen, err |-> FALSE]

(* The tokens successive calls of Next() yield, and whether the tokenizer   *)
(* stopped on an error (Err() # nil) rather than at the end of the script. *)
Parse(s) ==
  LET P[i \in 0 .. Len(s)] ==
        IF i = Len(s) THEN [toks |-> << >>, err |-> FALSE]
        ELSE LET t == TokenAt(s, i)
             IN IF t.err THEN [toks |-> << >>, err |-> TRUE]
                ELSE LET r == P[t.end]
                     IN [toks |-> <<t>> \o r.toks, err |-> r.err]
  IN P[0]

(* IsPushOnlyScript and checkScriptParses.                                 *)
IsPushOnlyScript(s) ==
  LET p == Parse(s) IN ~p.err /\ \A k \in 1 .. Len(p.toks) : p.toks[k].op <= OP_16
checkScriptParses(s) == ~Parse(s).err

(* The script builder: [script, err].  AddData pushes data canonically: an *)
(* empty or one-byte small number becomes OP_0, OP_1 .. OP_16 or OP_1NEGATE,*)
(* longer data the shortest push opcode that holds its length.             *)
NewScriptBuilder == [script |-> << >>, err |-> FALSE]
AddOp(b, op) == IF b.err THEN b ELSE [b EXCEPT !.script = Append(@, op)]
LE(n, k) == [j \in 1 .. k |-> (n \div (256 ^ (j - 1))) % 256]
PushPrefix(d) ==
  CASE Len(d) < OP_PUSHDATA1 -> <<Len(d)>>
    [] Len(d) <= 255         -> <<OP_PUSHDATA1>> \o LE(Len(d), 1)
    [] Len(d) <= 65535       -> <<OP_PUSHDATA2>> \o LE(Len(d), 2)
    [] OTHER                 -> <<OP_PUSHDATA4>> \o LE(Len(d), 4)
CanonicalPush(d) ==
  CASE Len(d) = 0 \/ d = <<0>>          -> <<OP_0>>
    [] Len(d) = 1 /\ d[1] <= 16         -> <<(OP_1 - 1) + d[1]>>
    [] d = <<129>>                      -> <<OP_1NEGATE>>
    [] OTHER                            -> PushPrefix(d) \o d
AddData(b, d) ==
  IF b.err \/ Len(b.script) + Len(CanonicalPush(d)) > MaxScriptSize
     \/ Len(d) > MaxScriptElementSize
  THEN [b EXCEPT !.err = TRUE]
  ELSE [b EXCEPT !.script = @ \o CanonicalPush(d)]

(* AddInt64: OP_0, OP_1NEGATE and OP_1 .. OP_16 directly, any other value  *)
(* as the minimal script number (sign in the top bit) pushed as data.      *)
ScriptNum(v) ==
  LET a == IF v < 0 THEN -v ELSE v
      m == IF a < 128 THEN <<a>> ELSE <<a % 256, a \div 256>>
      top == Len(m)
  IN IF v < 0 THEN [m EXCEPT ![top] = @ + 128] ELSE m
AddInt64(b, v) ==
  CASE b.err                      -> b
    [] v = 0                      -> AddOp(b, OP_0)
    [] v = -1 \/ v \in 1 .. 16    -> AddOp(b, (OP_1 - 1) + v)
    [] OTHER                      -> AddData(b, ScriptNum(v))

(* The addresses of util.  A constructor's (address, error) result is the *)
(* sequence of the addresses it makes: empty on an error.  They fail on a  *)
(* hash that is not 20 bytes and on a public key that does not parse; a    *)
(* key parses when its format byte and length agree and its point is on    *)
(* the curve, which the model decides by the key's second byte (OnCurve). *)
CONSTANT OnCurve
Address(kind, netID, payload) == [kind |-> kind, netID |-> netID, payload |-> payload]
ParsePubKeyOk(k) ==
  /\ \/ Len(k) = 33 /\ k[1] \in {2, 3}
     \/ Len(k) = 65 /\ k[1] \in {4, 6, 7}
  /\ k[2] \in OnCurve
NewAddressPubKeyHash(h, p) ==
  IF Len(h) # 20 THEN << >> ELSE << Address("pkh", p.pubKeyHashAddrID, h) >>
NewAddressScriptHashFromHash(h, p) ==
  IF Len(h) # 20 THEN << >> ELSE << Address("sh", p.scriptHashAddrID, h) >>
NewAddressPubKey(k, p) ==
  IF ParsePubKeyOk(k) THEN << Address("pk", p.pubKeyHashAddrID, k) >> ELSE << >>
ScriptAddress(a) == a.payload

=============================================================================
