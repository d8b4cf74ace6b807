----------------------------- MODULE ChainParams -----------------------------
(***************************************************************************)
(* The network parameters of chaincfg (params.go): the network magics, the *)
(* address version bytes and the extended-key magics of the main and test *)
(* networks.  They are pure constants; the address layer reads the version *)
(* bytes from the Params value it is given.                                *)
(***************************************************************************)
EXTENDS Naturals, Sequences

(* The NetMagic constants.                                                 *)
MainNet  == 1497837284   \* 0x59472ee4
TestNet3 == 731462079    \* 0x2b9939bf

(* bnStrings, and NetMagic.String: a known magic is named, any other is    *)
(* reported as unknown together with its value.                           *)
bnStrings == [n \in {MainNet, TestNet3} |-> IF n = MainNet THEN "MainNet" ELSE "TestNet3"]
NetMagicString(n) ==
  IF n \in DOMAIN bnStrings THEN bnStrings[n] ELSE <<"Unknown network", n>>

(* The Params fields the address layer reads.                              *)
Params == [name : STRING, net : Nat, pubKeyHashAddrID : 0 .. 255,
           scriptHashAddrID : 0 .. 255, privateKeyID : 0 .. 255,
           hdPrivateKeyID : Seq(0 .. 255), hdPublicKeyID : Seq(0 .. 255),
           hdCoinType : Nat]

MainNetParams ==
  [name |-> "main", net |-> MainNet,
   pubKeyHashAddrID |-> 7, scriptHashAddrID |-> 9, privateKeyID |-> 123,
   hdPublicKeyID |-> <<251, 198, 160, 13>>, hdPrivateKeyID |-> <<90, 235, 216, 198>>,
   hdCoinType |-> 5]

TestNet3Params ==
  [name |-> "test", net |-> TestNet3,
   pubKeyHashAddrID |-> 109, scriptHashAddrID |-> 193, privateKeyID |-> 235,
   hdPublicKeyID |-> <<93, 64, 95, 122>>, hdPrivateKeyID |-> <<182, 241, 63, 80>>,
   hdCoinType |-> 1]

Nets == {MainNetParams, TestNet3Params}

=============================================================================
