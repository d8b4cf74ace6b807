# TLA+ verification of rosetta-thought

This directory holds TLA+ models of the code under `src/`, the TLC configurations
that check them, and TLAPS proofs.  `PROJECT.json` lists the components, the runs,
the mutants, the map from every definition to the lines it models, the findings,
the hazards and the theorems.

## The system

`src/` holds a slice of a Rosetta API server for the Thought chain.  The parts are:

| Part | Source | Behaviour |
|------|--------|-----------|
| Script engine | `src/unnamed/part_003` (package `thought` / txscript) | `NewEngine` checks a signature script and a public key script and builds an `Engine`. `Execute` calls `Step` until it reports done, then calls `CheckErrorCondition(true)`. `Step` tokenizes and executes one opcode (`executeOpcode`), checks the combined stack depth, and at the end of a script moves to the next one. With BIP16 (P2SH), Step saves the signature script's stack, checks the public key script's result, and then runs the redeem script popped from the saved stack. |
| Script classifier | `src/thoughtd/txscript/standard.go`, `src/thought/txscript.go` (a second copy) | Template matchers (`typeOfScript`, `extractMultisigScriptDetails`, `isNullDataScript`, ...), `ExtractPkScriptAddrs`, `CalcScriptInfo`, `CalcMultiSigStats` and the builders `PayToAddrScript`, `MultiSigScript` and `NullDataScript`. The engine uses `isScriptHashScript`. |
| PkScript | `src/unnamed/part_004` | A P2PKH or P2SH output script in a zero-padded array (`ParsePkScript`, `Script`, `Address`); `hash160`. |
| Signature hash | `src/thoughtd/txscript/sighash.go` | `calcSignatureHash`: a shallow copy of the transaction, blanked per hash type and serialised, including the SIGHASH_SINGLE out-of-range constant. |
| Signature verifier | `src/thoughtd/txscript/sigvalidate.go` | Parses a signature and a key with the engine's encoding checks, hashes with `calcSignatureHash`, and checks the result against a signature cache shared by all engines before running ECDSA. |
| Chain parameters | `src/thoughtd/chaincfg/params.go` | Network magics and the main and test network parameters (address versions, HD key ids); the float64 `Amount` type; a construction-service test (lines 240-602). |
| Configuration | `src/unnamed/part_005` | Environment parsing. |
| Build and docs | `src/Dockerfile`, `src/unnamed/part_000..002`, `src/assets` | No behaviour. |

The parts interact through the engine.  NewEngine calls the classifier
(`isScriptHashScript`) to decide on P2SH.  The engine's HASH160 opcode is `hash160`.
The engine's signature opcodes build a `baseSigVerifier`, whose `Verify` calls
`calcSignatureHash` and a `SigCache` that every engine of the process shares.
The classifier builds and reads addresses with the version bytes of the chain
parameters, and `PkScript` calls the classifier.
The concurrent indexer, the stores and the node RPC client are described in
`spec.md` section 4.6, but they are not in `src/`.

## Modules

- **`Script`** holds the data of the script layer.
  - A script is its token sequence.  A token is `[op, data]` over a small opcode
    alphabet: `OP_0`, `OP_DATA`, `OP_PUSHDATA1`, `OP_PUSHDATA2`, `OP_1`, the
    conditionals, the alt-stack opcodes, `OP_HASH160`, `OP_EQUAL`, one disabled
    opcode `OP_CAT`, one always-illegal opcode `OP_VERIF`, and `OP_BAD` for an
    unparseable push.
  - Stack values are strings: `"F"` (the empty vector), `"T"` (0x01), `"BIG"`
    (longer than MaxScriptElementSize), the redeem scripts and their hashes.
  - `Hash` (HASH160) maps a value to the constant `HashOf[x]`, and it maps a
    digest to `"HH"`.  `RedeemScriptsAssumption` makes `HashOf` injective, and
    says that no digest is a value of another kind.  This is the
    collision-resistance assumption that P2SH relies on.  `MCScriptEngine`
    gives `HashOf[x]` the value `"H_" \o x`.
  - It also holds the pure predicates `executeOpcode` uses
    (`isOpcodeDisabled`, `isOpcodeAlwaysIllegal`, `isOpcodeConditional`,
    `checkMinimalDataPush`) and `isScriptHashScript`.
- **`ScriptEngine`** models NewEngine plus Execute as one behaviour.
  - **Variables.** The `Engine` fields `scripts`, `scriptIdx`, `pc` (the
    tokenizer position), `opcodeIdx`, `dstack`, `astack`, `condStack`,
    `savedFirstStack`, `bip16` and `flags`, plus `status` and `err` (what
    Execute returns).
  - **`Init`** is NewEngine: its checks in their order (`NewEngineErr`), and the
    skip of an empty signature script.
  - **Actions.** Step is split by where it returns:
    - `StepFail` covers an opcode error, stack overflow, and a conditional
      straddling scripts;
    - `Step` is within a script;
    - `StepEndScript` is the end of the signature or public key script;
    - `StepEndP2SHFail` and `StepEndP2SH` are the P2SH branch;
    - `ExecuteCheck` is Execute's final `CheckErrorCondition(true)`.
  - Every action runs the opcode through `ExecuteOpcode`, the whole of
    `executeOpcode` with the handlers in `Opfunc`.
  - On an error path the stacks are left as they were before the step.  Execute
    returns the error, and nothing reads the engine afterwards.
- **`ScriptVerify`** is the abstract specification.  It is the reference
  VerifyScript with a recursive per-script evaluator:
  - each script is evaluated on its own, with fresh alt and conditional stacks;
  - the public key script continues on the signature script's stack;
  - with P2SH, the redeem script is evaluated on the saved stack minus its top.
  - One step, `Decide`, moves the verdict from pending to valid or invalid.
  - It uses `RECURSIVE`, so only TLC uses it.
- **`MCScriptEngine`** instantiates both for TLC.  `EngineImplementsVerify` is
  `ScriptVerify`'s specification under the refinement mapping: sigScript is
  `scripts[1]`, pkScript is `scripts[2]`, and the verdict is the engine status.
- **`ScriptEngineProofs`** and **`P2SHProofs`** hold the TLAPS proofs.
- **`ChainParams`** translates `params.go` lines 11-109: the network magics and
  their `String`, the `Params` record and `MainNetParams` / `TestNet3Params`
  (address versions, WIF, HD key ids, coin type).  `Nets` is the set of both.
- **`ScriptBytes`** is the byte-level layer the classifier is written against.
  That code (the opcode table, `ScriptTokenizer`, `ScriptBuilder`, util's
  address constructors) is not under `src/`, so it is modelled from the
  behaviour the callers rely on and marked `spec_modelled`.
  - A script is a byte sequence; `At(s, i)` and `Slice(s, a, b)` are Go's
    `s[i]` and `s[a:b]`.
  - `TokenAt` is one `Next()` of the tokenizer (push lengths little endian, a
    push running past the end is an error); `Parse` is the whole run: the tokens
    and whether it stopped on an error.
  - The builder pushes data canonically (`OP_0`, `OP_1..OP_16`, `OP_1NEGATE`,
    then the shortest push opcode) and fails past the size limits.
  - An address is `[kind, netID, payload]`; a constructor returns `<<addr>>` or
    `<< >>` on error.  Whether a key is on the curve is the constant `OnCurve`
    (its second byte).
- **`Classifier`** translates `standard.go` (and `PkScript` of `part_004`)
  function by function: the extractors return `[nil, data]` so that a nil
  slice and an empty one stay apart; `extractMultisigScriptDetails` returns the
  zero `multiSigDetails` on every early return; `ClassString` returns
  `"panic"` where Go indexes past the table; `PayToAddrScript` takes a nil
  address as netID -1.
- **`ThoughtClassifier`** is the same translation of `src/thought/txscript.go`,
  the second copy of the classifier.
- **`MCClassifier`** is a state machine over the scripts a program builds:
  `BuildAddrScript`, `BuildMultiSigScript` (m from -1 to MaxKeys+1),
  `BuildNullDataScript`, `BuildP2SH` (a P2SH output and a spend of the script in
  hand as redeem script) and `Mutate` (one byte of the first or last three set,
  the last byte dropped, or a byte appended).  `MCClassString` enumerates
  class values for `ClassString`.
- **`Sighash`** models `sighash.go` on a heap: the transaction holds pointers
  (`<<"in", i>>`, `<<"out", i>>`) to cells; `shallowCopyTx` allocates fresh
  cells holding copies; every blanking of `calcSignatureHash` writes through
  the copy's pointers (`WriteThrough`); cells the copy allocated are dropped on
  return, so only writes that reached the caller's cells survive.  The
  serialisation is the list of fields written, and the double SHA-256 is the
  record `Digest(ser, ht)`, injective; `OneHash` is the SIGHASH_SINGLE constant.
  `calcSignatureHash` composes its stages: `SetSigScripts`, `ApplyHashType`,
  then `SighashResult`, which applies `ApplyAnyOneCanPay`.  Each stage takes
  the copy the one before it built.
  `SpecSighash` is section 4.4 of `spec.md` on transaction values, the
  reference the runs compare with.
- **`MCSighash`**: a signer's transaction of `NIn` inputs and `NOut` outputs;
  `Calc` asks for the hash of any input under any hash type and script,
  `SetSignatureScript` stores a signature script between calls.
  `SighashRefines` is `SighashSpec`'s specification under the mapping of each
  input to its signature script (`heap[InAddr(i)].sigScript`) and of `Orig` to
  the initial transaction value.
- **`SighashSpec`** is the abstract view a signer has of its transaction.  It
  holds the signature script of each input (`sigs`) and the last call's result
  (`last`).  `Sign` stores a new signature script in one input.  `Hash` refuses
  a script that does not parse, and otherwise returns `SpecSighash` of the
  transaction `Orig` the signer started from, leaving `sigs` unchanged.  The
  section-4.4 hash, the parse check and the error digest are constant
  operators, which `MCSighash` binds to `Sighash`'s.
- **`SighashProofs`** holds the TLAPS proofs about `Sighash` and `MCSighash`.
- **`SigVerify`** models `sigvalidate.go` and the engine's encoding checks
  (`checkHashTypeEncoding`, `checkPubKeyEncoding`, `checkSignatureEncoding`
  with its DER rules and low-S test against half the curve order).  Engines
  run concurrently and share the cache:
  - `NewVerifier` is `newBaseSigVerifier` (`parseBaseSigAndPubkey` included):
    the hash type is the last byte, then the three checks and the two parses;
  - `verifySigLookup` is `Verify` up to `sigCache.Exists`: the subscript
    without the signature's pushes (`removeOpcodeByData`), `calcSignatureHash`
    of `Sighash`, and the lookup;
  - `verifySigCheck` is the rest of `verifySig`: ECDSA, then `Add`.
  - ECDSA is the oracle `Signed`, the triples the key holders signed.
    `SigCache` is not under `src/`: it is modelled from btcd's, one entry per
    hash and a random entry evicted when full (`AddResults`).
- **`MCSigVerify`** gives two engines a cache of two entries and eleven checks
  over a three-input, two-output transaction.
- **`SigVerifyProofs`** holds the TLAPS proofs of `CacheSound` and
  `VerdictSound`.

A value that is read several times is passed to a helper operator as an
argument instead of being named with LET.  Examples are a script's token list
(`MultisigDetailsOf`, `FinalTokenData`), the copy of a transaction, and an
engine's hash (`verifySigLookupWith`).  The reason is TLC's profiler (`-coverage`):
it expands a LET definition once for each use.  Nested LETs made that
expansion exponential in the classifier and in the signature hash.

## Runs

| Run | cfg | Expect | Shows |
|-----|-----|--------|-------|
| `engine_verify` | `MCScriptEngine.cfg` | pass | `TypeOK`, `RedeemCommitted`, `NoPanic`, `Terminates`, `ExecuteAdvances` and `EngineImplementsVerify` for every input below. |
| `script_ops_bounded` | `MCScriptOps.cfg` | violation | `ScriptOpsBounded`: the engine accepts a script with more non-push opcodes than the limit. |
| `classifier` | `classifier.cfg` | pass | `ClassifierAgrees`, `PayToAddrRoundTrip`, `MultiSigRoundTrip`, `P2SHScriptInfo`, `PackagesAgree`, `PkScriptRoundTrip` over every built and damaged script. |
| `multisig_template` | `multisig_template.cfg` | violation | `MultisigMatchesSpec`: `OP_0 OP_0 OP_CHECKMULTISIG` is classified multisig. |
| `nulldata_script` | `nulldata_script.cfg` | violation | `NullDataScriptIsNullData`: `NullDataScript([0x81])` is non-standard. |
| `class_string` | `class_string.cfg` | violation | `ClassStringTotal`: `ScriptClass(6).String()` panics. |
| `sighash` | `sighash.cfg` | pass | `SighashOfOriginal`, `TxIntact`, `SighashRefines`. |
| `sigverify` | `sigverify.cfg` | pass | `CacheSound`, `VerdictSound`, `VerifyCorrect`. |

What each property of `engine_verify` says:

- **`TypeOK`.** The stacks never exceed MaxStackSize in total.
- **`RedeemCommitted`.** A redeem script runs only if the public key script
  committed to its hash.  A violation needs a sig script pushing one script, a
  P2SH key committing to another, and the end-of-script check skipped.
- **`NoPanic`.** The P2SH branch never indexes an empty saved stack.
- **`Terminates`.** Execute returns.
- **`ExecuteAdvances`** (action property).  Every step moves the engine
  forward in the order (stage, script index, pc).  The stage is stepping, then
  the final check, then returned.  A script change never goes back to a script
  already run.  This is the safety half of `Terminates`.
- **`EngineImplementsVerify`.** The step-by-step engine returns exactly the
  verdict of the reference interpreter.  This covers:
  - the conditional stack against the reference's boolean stack;
  - the alt stack dropped between scripts;
  - disabled opcodes failing even in an untaken branch;
  - `MinimalData`, `SigPushOnly` and `CleanStack`;
  - P2SH with good, failing, unparseable and empty redeem scripts.

### Bounds

The bounds are these:
- **Signature scripts.** Every script of up to two tokens over 17 tokens, plus
  three of three to five tokens:
  - a conditional with an `OP_ELSE` left open;
  - a round trip through the alt stack that reaches the stack limit;
  - a disabled opcode in an untaken branch.
- **Public key scripts.** Six bare scripts, and a P2SH script for `F`, `T` and
  two redeem scripts (`R1` succeeds, `R2` leaves an `OP_IF` open).
- **Flag sets.** Five.
- **Limits.** `MaxStackSize = 2` and `MaxScriptSize = 5`.  With
  `MaxStackSize = 2`, the stack P2SH saves holds exactly one value, the
  redeem script itself, when the signature script pushes it alone.  So the
  P2SH runs exercise a redeem script started on an empty stack, not one
  started on a stack that carries other values.

These bounds reach these cases:
- every NewEngine error except `ErrScriptTooBig`: every script in the runs
  is within `MaxScriptSize`, so that check is modelled but never fails;
- every Step return;
- an exact and an exceeded stack limit;
- both P2SH failures and the empty redeem script.

The TLC coverage report shows every action and every disjunct firing.  The only
line that never fires is the panic branch, which `NoPanic` says is unreachable.
A mutant of each property's code, listed in `PROJECT.json`, breaks it under
these bounds.

### Fairness

`Spec` has `WF_vars(Next)`.  Execute is a plain loop in one goroutine
(`for !done { done, err = vm.Step() }`), and nothing else runs against the
engine.  So while a step is enabled one is taken.  `Terminates` needs this
fairness, and nothing more.

### Finding

`ScriptOpsBounded` states the limit of spec.md section 4.3: at most 201 non-push
opcodes per script, scaled here to 1.  The code never enforces it:
- `numOps` is declared with the comment "primarily used to enforce maximum
  limits";
- Step resets it per script;
- `executeOpcode` never increments it.

TLC finds a valid engine whose public key script `OP_IF OP_1 OP_ENDIF` has two
non-push opcodes.

### The classifier runs

What each property of `classifier` says, for every script in hand:

- **`ClassifierAgrees`.** `ExtractPkScriptAddrs`, which tries the templates in
  another order than `typeOfScript`, gives the class `GetScriptClass` gives.
  A hash template yields exactly one address (`PkScript.Address` indexes
  `addrs[0]`).  For a multisig, `CalcMultiSigStats` and `expectedInputs` agree
  with the required count.  Null data and non-standard scripts yield no address.
- **`PayToAddrRoundTrip`.** `PayToAddrScript` then `ExtractPkScriptAddrs` on the
  same network gives back the address, of the matching class; a nil address is
  refused.
- **`MultiSigRoundTrip`.** `MultiSigScript` refuses fewer keys than required
  signatures; for `0 <= m <= n` the script gives back its keys and counts, and a
  signature script spending it is recognised by `IsMultisigSigScript`.
- **`P2SHScriptInfo`.** `CalcScriptInfo` on a P2SH spend counts the pushes and
  expects one input more than the redeem script does.
- **`PackagesAgree`.** The two copies of the classifier answer alike.
- **`PkScriptRoundTrip`.** A script `ParsePkScript` accepts gives, through
  `Script()` and `Address`, the address of the script itself.

Bounds: both networks; pay-to-key-hash and script-hash addresses over two
hashes, key addresses over five keys (compressed, uncompressed, hybrid, two
formats that do not parse or are off the curve); multisigs of up to
`MaxKeys = 2` keys with m from -1 to 3; null data of 0, 1, 75, 76, 80 and 81
bytes and the one-byte values 0, 16, 17 and 0x81; and one damage of each, with
the bytes in `MutBytes` (the opcodes the templates test).  These reach every
template's accept and reject paths, the data-carrier limit on both sides, and
the small-integer edges.  The key and hash bodies use bytes that are long push
opcodes, so a damaged script tokenizes in a few long pushes.

### The signature hash run

- **`SighashOfOriginal`.** For an input index NewEngine accepts,
  `calcSignatureHash` does not panic and returns `SpecSighash` of the original
  transaction, after any earlier calls and stored signature scripts.
- **`TxIntact`** (action property). A call never changes the caller's
  transaction: every `Calc` step leaves every heap cell as it was, whatever
  the hash type, script and index.  Blanking signature scripts, sequences and
  outputs touches only the copy's cells, which the call drops.  The mutant
  `shallowCopyTxAliased` shares the caller's input records with the copy, and
  TLC then finds a call that blanks a caller's signature script.
- **`SighashRefines`** (refinement).  What the signer sees, its inputs'
  signature scripts and its last result, behaves as `SighashSpec` allows.  A
  call changes no signature script.  It returns `"err"` for a script that does
  not parse, and otherwise the section 4.4 hash of the transaction the signer
  started from.  A store changes one signature script and not the last result.

Bounds: three inputs and two outputs, so that SIGHASH_SINGLE has an input past
the last output; the hash types 0 to 4 and 35, and ALL, NONE and SINGLE with ANYONECANPAY;
scripts with a code separator, with a pushed 0xab byte that is not one, and one
that does not parse.

### The signature verifier run

- **`CacheSound`.** Every triple in the shared cache verifies with ECDSA.
- **`VerdictSound`.** Every verdict an engine reports is ECDSA's answer on
  the hash `Verify()` computed for its own check, whether it came from an entry
  another engine added or from ECDSA, and whatever was evicted in between.
- **`VerifyCorrect`.** Every verdict on a parsed signature is valid exactly
  when the key holder signed, with that key, the signer's hash of the original
  transaction for this input and hash type.  It holds whether the answer came
  from the cache or from ECDSA.

Bounds: two engines and a cache of two entries, so eviction and replacement
happen while the other engine is between its lookup and its Add.  There are
eleven checks:
- honest signatures under ALL and SINGLE, including the SINGLE constant hash
  of input 2;
- the same signature under another hash type, at another input, under
  another key, with another S value;
- a malformed DER encoding, hash type 4 with and without strict encoding, and a
  hybrid key under strict encoding;
- input 1's subscript pushes the very signature that spends it, so
  `removeOpcodeByData` must remove it.

There is no fairness: the properties are safety properties, and
`CHECK_DEADLOCK` stays on (an engine can always take a new check).

### Findings of the classifier

- **`MultisigMatchesSpec`** (`multisig_template`).  spec.md section 4.3 says a
  multisig has `1 <= m <= n <= 20`.  `extractMultisigScriptDetails` checks
  that n counts the keys but never bounds m, and `MultiSigScript` accepts
  nrequired 0.  So `MultiSigScript([], 0)` is `OP_0 OP_0 OP_CHECKMULTISIG`,
  classified multisig.
- **`NullDataScriptIsNullData`** (`nulldata_script`).  `NullDataScript`
  promises a provably-prunable script.  It pushes canonically, so `[0x81]`
  becomes `OP_1NEGATE`, which `isNullDataScript` does not accept: the result
  is non-standard.
- **`ClassStringTotal`** (`class_string`).  `ScriptClass.String` guards with
  `int(t) > len(scriptClassToName)`.  `t = 6` passes and indexes past the
  table: a panic where the comment promises `"Invalid"`.  The copy in
  `src/thought` has the same guard.

## Proofs

`ScriptEngineProofs` proves `THEOREM TypeCorrect == Spec => []TypeOK` for every
value of the constants.  It assumes `EngineAssumption` (the scripts are token
sequences, the flags are flags, and the limits are naturals) and
`RedeemScriptsAssumption`.

TypeOK is not inductive.  The inductive invariant `IInv` adds three things:
- **The saved P2SH stack is within MaxStackSize.**  The redeem script starts on
  it minus one value, so without this bound the P2SH step could overflow.
- **`scriptIdx` fits the number of scripts.**  It is at least 2 once the redeem
  script is appended.
- **A running engine's program counter is inside its script.**  Without this,
  Step's opcode would not exist.  This holds because a script change skips at
  most one empty script, and only the redeem script, the last one, can be
  skipped after the public key script.

The proof checks `Init => IInv`.  It then has one lemma per action for
`IInv /\ A => IInv'`, each split into steps per conjunct the action changes.  The
lemmas rest on these facts:
- `PopTyped`: what popping a sequence yields;
- `AppendLen`;
- `ExecuteOpcodeTyped`: every opcode outcome is typed;
- `EnterScriptTyped`: the state a script change leaves.

The last step is PTL.

`ScriptEngineProofs` also proves `THEOREM ExecuteAdvancesProved == Spec =>
ExecuteAdvances`.  It needs only `TypeOK` (from `TypeCorrect`), with one case
per action:
- `Step` raises pc by one;
- `EnterAdvances`: a script change moves to a later script (`EnterScript`
  moves to its index or one past it), or ends Step's loop;
- an error, a panic or the final check moves to a later stage
  (`EndStepAdvances`).

`P2SHProofs` proves two theorems:
- `THEOREM RedeemSound == Spec => []RedeemCommitted`;
- `THEOREM NoPanicProved == Spec => []NoPanic`.

Both rest on `PInv == IInv /\ P2SHInv`.  `P2SHInv` has two parts:
- **`P2SHFixed`.**
  - `bip16` implies a P2SH public key script.
  - No state is a panic.
  - Once a third script is appended, the saved stack is non-empty, the third
    script is its top read as a script, and the top's hash is the digest of the
    public key script.
- **`P2SHRun`.**  While the P2SH public key script runs, the conditional stack
  is empty, and the data stack at each program counter is known:
  - at 0 it is the saved stack;
  - at 1 it is the saved stack with its top replaced by its hash;
  - at 2 the digest is pushed on that.

The invariant is needed for two reasons:
- At the end of the public key script, Step must know the saved stack is
  non-empty.
- The `"T"` that `OP_EQUAL` left must mean that the digest matched the hash of
  the saved top.

The step lemmas follow the opcodes:
- `Hash160Step`, `PushHashStep` and `EqualStep` are what `executeOpcode` does
  with each token of `OP_HASH160 <h> OP_EQUAL`;
- `PopAppend` gives the stack algebra;
- `HashPreimage` says that a digest in `Hashes` has a preimage among the
  stack values.

`SigVerifyProofs` proves `THEOREM CacheSoundProved == Spec => []CacheSound`
for every set of engines, checks and signed triples and every capacity
(`MaxEntriesAssumption`: a natural).  `CacheSound` is inductive as it stands:
only `verifySigCheck` writes the cache, and only after `EcdsaVerify` held; the
lemma `AddResultsSubset` says that whatever `SigCache.Add` evicts or replaces,
the cache afterwards holds only old entries and the new one.

`SigVerifyProofs` also proves `THEOREM VerdictSoundProved == Spec =>
[]VerdictSound`.  Its inductive invariant `VerdictInv` adds four things to
`VerdictSound`:
- the engines' variables are functions on the engines;
- `CacheSound`, so a cache hit is ECDSA's answer;
- an engine between its lookup and its verdict has no verdict;
- an engine at its ECDSA check holds the hash of its own job.

Without the last two, a hit or an Add by another engine could seem to give an
engine a verdict about a hash that is not its own.

`SighashProofs` proves two theorems about the signer's model `MCSighash`.  They
hold for every number of inputs and outputs and every set of script codes,
hash types and signature scripts, assuming only `SizeAssumption` (the counts
are naturals).

`THEOREM TxIntactProved == Spec => TxIntact` shows that every call leaves the
whole heap, and so the caller's transaction, exactly as it was.  It rests on these facts:
- **The invariant `HeapOK`.**  The heap is a function on the transaction's
  cells, and its input cells are `[prevOut, sigScript, sequence]` records.
- **`CellsDisjoint`.**  No cell `shallowCopyTx` allocates is one of these
  cells.
- **The lemma `CalcKeepsHeap`.**  On every path, including the two slice
  panics, `CalcSignatureHash` returns the caller's heap unchanged.  Every write
  goes through the copy's fresh cells (`WriteThroughMiss`, `ShallowCopyCells`,
  `SetSigHeap`, `ZeroCells`).

`THEOREM SighashOfOriginalProved == Spec => []SighashOfOriginal` shows that
every call for an input NewEngine accepts succeeds and returns section 4.4's
hash of the original transaction.  It rests on two results:
- **The lemma `CalcDigest`.**  For any transaction whose input and output
  cells are well-formed records, and any index below its input count,
  `calcSignatureHash` returns `"ok"` and `SpecSighash` of the transaction read
  through the heap.  Its proof follows the stages:
  - the copy;
  - `SetSigScripts`;
  - `ApplyHashType`, as one predicate `HashTypeCells` over the copy's cells;
  - the SINGLE out-of-range constant;
  - `ApplyAnyOneCanPay`.

  It ends by matching the serialized copy with section 4.4 cell by cell
  (`InCellUpdate`, `OutCellBlank`).
- **The inductive invariant `HashInv == HeapOK /\ SigOnly /\
  SighashOfOriginal`.**  It was checked first by TLC on the `sighash`
  instance.  `SigOnly` says that every input still holds its initial prevOut
  and sequence, and every output its initial value and script.  It is needed
  because the signer's `SetSignatureScript` changes the heap between calls.
  The lemma `SpecSighashCong` shows that section 4.4 ignores signature
  scripts.  So the hash of the current transaction (`CalcDigest`) equals that
  of the initial one (`TxValueCong`).

`THEOREM SighashRefinesProved == Spec => SighashRefines` shows that
`MCSighash` implements `SighashSpec`, step by step under `HashInv`
(`HashInvariant`):
- the initial heap maps to empty signature scripts;
- a `Calc` step is a `Hash` step (`CalcRefines`).  The heap is unchanged
  (`CalcStep`), an unparseable script gives `"err"` and `OneHash`, and
  otherwise `CalcOk` gives section 4.4's hash of the initial transaction;
- a `SetSignatureScript` step is a `Sign` step of the same input and script
  (`SetRefines`);
- a stutter maps to a stutter.

These are left to TLC:
- **Liveness under fairness (`Terminates`).**  TLAPS does not reason about
  ENABLED and fairness.  Its safety half, `ExecuteAdvances`, is proved.  The
  remaining argument, that a running engine's pc stays inside a script of
  bounded length, is the `IInv` conjunct of `TypeCorrect`.  It needs a
  well-founded order on the rank, which only TLC's liveness check covers here.
- **The refinement `EngineImplementsVerify`.**  Its abstract side is a
  `RECURSIVE` evaluator, which the provers cannot handle.
- **The classifier properties.**  These are `ClassifierAgrees`,
  `PayToAddrRoundTrip`, `MultiSigRoundTrip`, `P2SHScriptInfo`, `PackagesAgree`
  and `PkScriptRoundTrip`.  They are about what the byte tokenizer `Parse` (a
  recursive function over the script's positions) computes for every byte
  string, which is induction over data.
- **`VerifyCorrect`.**  It ties the verdict to who signed what in the model's
  `MCSigned` table of honest and forged signatures.  It is a statement about
  those concrete checks.  Its hashes also go through `removeOpcodeByData`,
  which rests on the same tokenizer `Parse`.  The general part, that a verdict is ECDSA's
  answer on the engine's own hash, is `VerdictSoundProved`.

## Not modelled

These are not modelled, and `PROJECT.json` gives the reasons:
- the signature opcodes inside the engine, OP_CODESEPARATOR tracking, witness
  and taproot (the verifier is modelled on its own, with the subscript given);
- the engine's byte-level tokenizer (the engine model reads a script as its
  token list; the classifier's `ScriptBytes` does tokenize bytes);
- `StandardVerifyFlags`, `IsMultisigScript` (an error-returning wrapper) and
  `ExtractAtomicSwapDataPushes`;
- the signature-operation counts of `CalcScriptInfo`;
- `ComputePkScript` and `PkScript.String`;
- the double SHA-256, HASH160 and ECDSA themselves (injective records and an
  oracle stand for them), and the Base58 encoding of addresses;
- the `Amount` type of `params.go`, which converts through float64;
- configuration;
- the indexer, which is described in `spec.md` but is not in `src/`.

## Plan

The next pieces, in order:
1. A spec-modelled indexer: the applier and the fetch slots with reorgs, crashes
   and restarts, refining an abstract chain of applied blocks.
2. The engine's OP_CHECKSIG on top of `SigVerify`, with the empty-signature
   guard the verifier relies on.
