------------------------------- MODULE Script -------------------------------
(***************************************************************************)
(* The data of the script layer (thoughtd/txscript): opcodes, the tokens a *)
(* script parses into, the values the data stack holds, and the pure       *)
(* predicates over them that the engine, the classifier and the sighash    *)
(* code share.                                                             *)
(*                                                                         *)
(* Abstraction.  A script is not a byte string but the sequence of tokens  *)
(* the tokenizer yields: a token is an opcode with the data it pushes.     *)
(* Stack values are drawn from a small set: "F" (the empty vector, false), *)
(* "T" (the vector 0x01, true), "BIG" (a push longer than                  *)
(* MaxScriptElementSize), the redeem scripts a signature script can push,  *)
(* and their HASH160 digests.  A script's size is its number of tokens.    *)
(***************************************************************************)
EXTENDS Naturals, Sequences

CONSTANTS
  RedeemScripts,  \* names of the scripts a signature script may push as a
                  \* P2SH redeem script
  RedeemBody,     \* RedeemBody[r]: the tokens of the redeem script named r
  HashOf          \* HashOf[x]: the HASH160 digest of the base value x

(* Opcodes.  OP_DATA stands for OP_DATA_1 .. OP_DATA_75; OP_BAD for bytes   *)
(* the tokenizer cannot parse (a push running past the end of the script). *)
PushOpNames    == {"OP_0", "OP_DATA", "OP_PUSHDATA1", "OP_PUSHDATA2"}
SmallIntNames  == {"OP_0", "OP_1"}
OpNames        == PushOpNames \cup {"OP_1", "OP_IF", "OP_NOTIF", "OP_ELSE",
                   "OP_ENDIF", "OP_TOALTSTACK", "OP_FROMALTSTACK",
                   "OP_HASH160", "OP_EQUAL", "OP_CAT", "OP_VERIF", "OP_BAD"}

NoData == "none"

(* hash160 (RIPEMD160 of SHA-256) as an injective map on the values a      *)
(* script can push (collision resistance); the hash of a hash is one       *)
(* opaque value "HH".  Every stack value is a string, so that any two can  *)
(* be compared.                                                            *)
BaseItems == {"F", "T", "BIG"} \cup RedeemScripts
Hash(x) == IF x \in BaseItems THEN HashOf[x] ELSE "HH"
Hashes  == {HashOf[x] : x \in BaseItems}
Items   == BaseItems \cup Hashes \cup {"HH"}

(* A data push carries the pushed value; every other opcode carries none.  *)
DataPushOpNames == PushOpNames \ {"OP_0"}
Token == [op : DataPushOpNames, data : Items]
           \cup [op : OpNames \ DataPushOpNames, data : {NoData}]
Tok(o) == [op |-> o, data |-> NoData]
Push(o, d) == [op |-> o, data |-> d]

(* Engine flags (ScriptFlags) that change the behaviour modelled here.     *)
Flags == {"Bip16", "SigPushOnly", "MinimalData", "CleanStack"}

(* Conditional-stack entries.                                              *)
OpCondFalse == 0
OpCondTrue  == 1
OpCondSkip  == 2

(* Cast of a stack value to a boolean: only the empty vector is false.     *)
AsBool(x) == x # "F"

(* The value a push opcode places on the data stack.                       *)
PushValue(t) == IF t.op = "OP_0" THEN "F"
                ELSE IF t.op = "OP_1" THEN "T"
                ELSE t.data

(* checkMinimalDataPush: a data push must use the shortest encoding.  The  *)
(* value 0x01 must be pushed with OP_1, a value of at most 75 bytes with   *)
(* OP_DATA_n, and only a value over 255 bytes (BIG) with OP_PUSHDATA2.     *)
MinimalPush(t) ==
  CASE t.op = "OP_0"         -> TRUE
    [] t.op = "OP_DATA"      -> t.data # "T"
    [] t.op = "OP_PUSHDATA1" -> FALSE
    [] t.op = "OP_PUSHDATA2" -> t.data = "BIG"
    [] OTHER                 -> TRUE

isOpcodeDisabled(o)      == o = "OP_CAT"
isOpcodeAlwaysIllegal(o) == o = "OP_VERIF"
isOpcodeConditional(o)   == o \in {"OP_IF", "OP_NOTIF", "OP_ELSE", "OP_ENDIF"}

(* Only BIG exceeds MaxScriptElementSize.                                  *)
ElementTooBig(t) == t.data = "BIG"

(* A script parses when the tokenizer reaches its end without error.       *)
Parses(s) == \A i \in 1..Len(s) : s[i].op # "OP_BAD"

(* IsPushOnlyScript: every opcode is at most OP_16.                        *)
IsPushOnlyScript(s) == \A i \in 1..Len(s) : s[i].op \in PushOpNames \cup {"OP_1"}

(* extractScriptHash / isScriptHashScript:  OP_HASH160 <20 bytes> OP_EQUAL. *)
IsScriptHashScript(s) ==
  /\ Len(s) = 3
  /\ s[1].op = "OP_HASH160"
  /\ s[2].op = "OP_DATA" /\ s[2].data \in Hashes
  /\ s[3].op = "OP_EQUAL"

(* The bytes of a stack value read back as a script: the empty vector is   *)
(* the empty script, 0x01 is a truncated OP_DATA_1, a pushed redeem script *)
(* is itself, and any other blob is taken as unparseable.                  *)
AsScript(x) == IF x \in RedeemScripts THEN RedeemBody[x]
               ELSE IF x = "F" THEN << >>
               ELSE << Tok("OP_BAD") >>

ASSUME RedeemScriptsAssumption ==
  /\ RedeemScripts \subseteq STRING \ {"F", "T", "BIG", "HH", "none"}
  /\ RedeemBody \in [RedeemScripts -> Seq(Token) \ {<< >>}]
  /\ HashOf \in [BaseItems -> STRING \ (BaseItems \cup {"HH", "none"})]
  /\ \A x, y \in BaseItems : HashOf[x] = HashOf[y] => x = y
=============================================================================
