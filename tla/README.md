# A TLA+ verification of keystonecrypto

This directory holds TLA+ models of `src/keystonecrypto` (version 0.1.0), the
TLC configurations that check them on small instances, and TLAPS proofs about
them. Paths such as `keystore.py:98` are relative to `src/keystonecrypto/` of
the repository.

    tlc -config Wallet_shared.cfg MCWallet      # model-check one run
    tlapm WalletProofs.tla                      # check the proofs

`PROJECT.json` lists the components, runs, mutants (a plausible bug for every
property, which that property's run must catch), the source lines every
definition stands for, the findings, the hazards and the theorems.

## 1. The system

The library is a stack of eleven Python modules in three layers: data types and
primitives (`secret_bytes`, `aead`, `kdf`, `entropy`, `exceptions`), formats and
algorithms (`envelope`, `mnemonic`, `derivation`, `signing`), and the API
(`keystore`). Everything is a synchronous call; there are no threads, queues or
retries in the library itself. Concurrency comes from its callers: a `Wallet`
is an ordinary mutable object that several threads may hold, and a keystore
file is a path that several processes may save to and open.

| Component | State it keeps | Operations | Talks to | What is hard |
|---|---|---|---|---|
| `SecretBytes` | one mutable buffer | construct, `bytes()`, `zeroize` (also on `__exit__` and `__del__`), `==` | every other part holds references to the same buffers | zeroizing is a loop others can read into; aliases |
| `Wallet`, `Account` | `_mnemonic`, `_seed`, `_closed` | `derive_account`, `sign_message`, `close` | `derivation`, `signing` | guard and use are apart; close by another thread; exceptions inside close |
| `Keystore`, `KeystoreContext` | the blob; the file | `create`, `save`, `open`, `unlock` | `envelope`, `mnemonic`, the file system | truncation before the write, crashes, several savers |
| `Envelope` | none | `pack`, `unpack` | `kdf`, `aead` | order of checks on bytes nothing has authenticated; offsets |
| `kdf`, `aead` | none | `derive_key`, `encrypt`, `decrypt` | argon2, cryptography | what binds what |
| `Mnemonic`, `entropy` | the phrase | `generate`, `from_phrase`, `from_entropy`, `entropy`, `seed` | `keystore` stores its entropy | bit widths, leading zeros, four conversions in a row |
| `DerivationPath`, `ExtendedPrivateKey` | key, chain code, depth, parent fingerprint, child number | `parse`, `master`, `derive`, `derive_from_seed`, `to_base58` | coincurve; callers share its buffers | rare scalars, two index checks, aliases |
| `Signer`s, `Signature` | a private key; 64 bytes | `sign`, `verify` | coincurve, cryptography | DER and fixed width are not of one length |

What makes each correct:

* **Wallet**: closed means zeroized and refusing; no call disturbs another's derivation; close completes and the copies of the seed die out.
* **Keystore file**: unlocking gives the right secret or an exception, whatever happened to the file; an undisturbed save can be unlocked.
* **Buffers**: no secret of a call outlives the call, and none that its caller or a wallet still uses is wiped.
* **Envelope**: unpack inverts pack, and nothing else unpacks.
* **Mnemonic**: no legal sequence of calls changes the entropy; accepted phrases are canonical.
* **Derivation**: a path names one key; hardened children need the private key; a bad or wiped key has no children.
* **Signing**: own signatures verify, others do not.

## 2. Modules

| Module | Models | Main abstraction |
|---|---|---|
| `Wallet` | one `Wallet` and the threads that call it | a seed byte is *kept* or *overwritten*; every access to `_closed` and every store into the buffer is a step, `bytes(seed)` is one step |
| `Custody` | the abstract promise of a shared wallet | three phases, a call admitted before it takes the seed, no bytes, flag or guards |
| `Session` | every `SecretBytes` of a sequence of `create`, `unlock`, `pack`, `unpack` and derivations, and the wallets around them | a buffer is *live* or zeroed; variables, tracebacks, callers and wallets are sets of references |
| `Envelope` | `envelope.py`, `kdf.py`, `aead.py` as operators | a blob is a sequence of cells; Argon2id and AES-GCM are ideal |
| `KeystoreFile` | `Keystore`, `KeystoreContext`, the file and the disk, on top of `Envelope` | save is *truncate* and *write*, the write can stop at a cut, and the disk lags behind |
| `Vault` | the abstract promise of a keystore file | no bytes, no envelope |
| `Mnemonic` | `mnemonic.py`, `entropy.py` and how `keystore.py` uses them | entropy as bits, words as their indices, SHA-256 as a fixed function |
| `Base58` | `_b58encode` and a decoder to compare with | characters as numbers, two small bases |
| `Derivation` | `derivation.py`, on top of `Base58` | HMAC is a random oracle with memory; a small group order; each field of an export is one byte |
| `Signing` | `signing.py`, and the `Account` of `keystore.py` | bytes of a small base, ideal libraries |
| `WalletProofs`, `SessionProofs`, `KeystoreFileProofs`, `VaultProofs`, `DerivationProofs`, `SigningProofs`, `MnemonicProofs` | theorems (section 4) | |
| `Rows` | nothing of the code: lemmas about sequences cell by cell, division and least elements | |
| `MC…` | constants for TLC | |

How state and actions correspond to the code:

* **Wallet.** `closed`, `mnemonic` and `kept` are `_closed`, `_mnemonic is not None` and `_seed._buf`. `pc`, `idx` and `snap` are a thread's place in a method, the loop variable of `zeroize` and its copy of the seed. `Call`, `SignGuard`, `DeriveGuard`, `TakeSeed`, `BuildAccount`, `Sign` are the lines of `sign_message` and `derive_account` in order; `Close`, `ZeroizeByte`, `SetClosed` those of `close`. `Interrupt` is a KeyboardInterrupt in the main thread. `seen` and `halfClosed` are history variables: the phase of the wallet over a call, and whether a close was ever aborted.
* **Session.** `local` is what the variables of the running call refer to, `raised` what the traceback of a kept exception does, `caller` what the caller's variables do, `wallet` the `Wallet` objects; `live` are the buffers not overwritten. `CallKeystore` to `BuildWallet` follow `create` and `unlock` through `pack` and `unpack`, `CallEnvelope` enters those directly with the caller's own buffers, `CallDerive`, `MakeKey`, `ReturnKey` are `derive_from_seed` and `derive_account`. `Fail` is an exception at any point of any of them, the code's own, a library's or a KeyboardInterrupt. `Settle` is part of every step: CPython frees an object with its last reference, and `__del__` zeroizes it. `Drop`, `Zeroize`, `Revalidate` (a copy through a pydantic model or `bytes`), `WrapWallet` and `Close` are what callers do between calls; they may build several wallets around one buffer. One thread runs; what several do to one wallet is `Wallet`'s subject.
* **KeystoreFile.** `made` remembers every `Keystore` created and what it was made from, `held` those a process still has, `file` is the content at the path as processes see it, `disk` what a power loss would leave, `ctx` the blob in each `KeystoreContext`, `out` the blob a process is saving, `answer` what its last `unlock` returned or raised. `Create`, `Open`, `Unlock` are whole calls; `SaveOpen` and `SaveWrite` the two halves of `Path.write_bytes`. `Flush` is the system writing the file back: the code never syncs, so this happens at any time, and a file's length can reach the disk before its bytes. `PowerLoss` ends every process and takes the file back to `disk`; `Damage` changes one cell on the medium. `disturbed` (saves overlap) and `whole` (keystores written whole since the last truncation) are history variables.
* **Vault.** `content`, `durable`, `opened` and `answer` are what `file`, `disk`, `ctx` and `answer` mean (an answer is the password that was tried with what it gave, so a right password that is refused is no step of `Vault`); `pending` what each save is about to leave, `written` what `whole` holds. An item is somebody's, who has its password, or nobody's: what a salt of another length than the header's sealed can be saved and read back, and never unlocked. The refinement mapping is written out in `KeystoreFile` (`Content` to `Answers`): bytes mean the keystore whose blob they are, the header's reserved cell aside, or nothing.
* **Envelope.** `Pack` and `Unpack` list the checks of the code in their order, with the exception each raises. Scalars of the header are one cell each, the salt, nonce and ciphertext one cell per byte, so that offsets behave as in the code. `DeriveKey` is a record of everything hashed; `Decrypts` holds for exactly what `Encrypt` made. `Argon2Accepts` has argon2's own limits that a header can get past, the memory among them (`MaxMemory`, what the machine lets it allocate, taken to be the same for `pack` and `unpack`; the runs allow just what the parameters take, so that one damaged upwards is refused).
* **Mnemonic.** `mn` is the phrase (words and spelling), `root` what the unlocked wallet's master key is made from. `FromEntropy`, `ValidPhrase`, `Entropy` are the methods; `Generate`, `GenerateRaw`, `FromPhrase`, `StoreAndUnlock` the calls of a user.
* **Derivation.** `keys` are the objects in callers' hands, `walk` a `derive_from_seed` in progress, `oracle` the HMAC answers so far. A call that raises leaves no trace but its HMAC query. `Zeroize` is the caller's use of the buffers `private_key` and `chain_code` return. `MaxDepth` is the depth the export's one byte has room for (255), which `derive` does not look at and `to_base58` trips over.
* **Signing.** `account` is the `Account` a wallet handed out, `sig` the `Signature` in hand, `signed` what the libraries signed, `asked`/`verdict` the last `verify`. `Account.sign` gives out the raw bytes alone, so `Rebuild` makes a `Signature` of them with any scheme and key, and `Garble` is the way they take to the verifier.

The composition: `KeystoreFile` extends `Envelope` and implements `Vault`;
`Wallet` implements `Custody`; `Mnemonic.StoreAndUnlock` summarises a keystore
that round-trips (which `KeystoreFile` shows); `Wallet` takes the seed that
`Unlock` returns and hides `Derivation` and `Signing` behind `BuildAccount` and
`Sign`; `Session` follows the buffers through all of them.

## 3. Runs

| Run | Bounds | Shows |
|---|---|---|
| `wallet_shared` | 3 threads, 2-byte seed, one interruptible thread | `ClosedMeansZeroized`, `RefusesAfterClose`, `GenuineUnlessClosing`, `CloseCompletes`, `CopiesDieOut`; `KeepsCustody`: `Wallet` implements `Custody`, its fairness included (so `derive_account`'s own test is what admits a call) |
| `session_calls` | 5 buffers and 2 wallets at a time (symmetric), calls without bound | `NothingLeftBehind`, `UnlockedSeedIsWhole`, `ClosedSeedIsWiped`, `CallsBorrow` |
| `keystore_shared` | 3 savers (symmetric), 1 reader, 1 password, 2 keystores of different length, 2 cuts, power losses | `KeepsPromise`: `KeystoreFile` implements `Vault` |
| `keystore_damage` | 1 saver, 1 reader, 1 keystore, 2 passwords (symmetric), any 2 damaged cells, salts of the slot's length, one shorter and one longer, the later of the cuts, power losses | `UnlockIsFaithful`, `RoundTrip`, `DamageIsReported`; `KeepsPromise` again, here with damage and any salt |
| `mnemonic_small` | 3-bit words, strengths of 8 and 16 bits and a raw length of 12, all 8-bit entropies and some of the longer ones, 2 accepted slips | `EntropyKept`, `AcceptedIsCanonical`, `Reimportable`, `PhraseSurvivesUnlock` |
| `signing_roundtrip` | 4 byte values, 2-byte components, all of them, 2 keys and messages, 3 schemes and an unknown one | `OwnSignatureVerifies`, `VerifiedMeansSigned` |
| `derivation_keys` | order 3, scalars 0..3, 1 normal and 1 hardened index, 3 keys, 3 HMAC queries, room for 1 level in an export | the derivation properties |
| `wallet_forgets`, `keystore_anysalt`, `keystore_params`, `mnemonic_raw`, `mnemonic_seed` | minimal | a documented statement the code does not keep (section 5) |

Why the bounds are enough. *Wallet*: two closers and a deriver are all that any
property relates, and two bytes let a seed be whole, half zeroed and zeroed; the
theorems remove the bound. *Session*: a call needs three buffers at once
(password, key and seed; or seed, parent and child), which leaves two for a wallet and a
secret or a traceback of the caller's; two wallets can share a buffer or not.
*KeystoreFile*: with two savers of different lengths a file can keep the tail of
a longer blob, and a third can write the missing part of it, so that a keystore
two saves had spoilt is whole again: this is the case that `Vault`'s `written`
is for, and it needs three. The cuts are *inside the header* and *all but the
last cell* of a blob with its salt in the slot; damage to what an early cut leaves
changes no answer, so `keystore_damage` has the later one only. Damage to one cell meets every check alone, and to two cells every
pair, so also the order of the checks; salts one cell off either way shift every
offset after them. *Mnemonic*: the sizes keep the one
relation BIP-39's rest on, three words carry `EntUnit` bits and one checksum
bit; 12 bits make a last word that is padded, as 136 do at BIP-39's own sizes. *Signing*: a component can have none or one leading zero and its high bit
set or not, in both positions. *Derivation*: scalars include 0, order-1 and the
order itself, so that every rejection occurs, and indices include -1 and both
sides of the hardened offset; a key can be one level deeper than an export has
room for. All theorems hold without these bounds.

Every run checks deadlock; none of the systems can stop.

Fairness is assumed only in `wallet_shared`: weak fairness of each thread's own
steps inside a method. A method waits for nothing, and CPython hands its lock to
every runnable thread in turn. Nothing is assumed about callers (a thread may
never call again) or about interrupts; `CloseCompletes` makes an exception for a
close that one aborted.

### Properties worth knowing

* `GenuineUnlessClosing`: a derivation sees the whole seed as long as no `close` overlaps it. The converse is a real hazard: a derivation that a `close` overlaps can pass the guard and work from partly zeroed bytes, and returns an account without any sign of it. The model has these behaviours; the property says they are the only ones, and `Custody` is the contract that results.
* `NothingLeftBehind`: when `unlock` or `pack` raises, the line that zeroizes the password is skipped, and the derived key and the private keys of a path are never zeroized by name. `__del__` does it, as soon as nothing refers to the frames; what an exception the caller keeps refers to is therefore left until the caller drops it, and the property says that nothing else is. The mutant without `__del__` shows how much rests on it.
* `KeepsCustody`: `sign_message` tests the flag and calls `derive_account`, which tests it again. A close that ends between the two tests finds a call that began on an open wallet and must still be refused; `RefusesAfterClose` does not speak of that call, `Custody`'s `Admit` does. `Custody` maps a thread at one place of the wallet's program counter, past the second test, to an admitted call.
* `UnlockedSeedIsWhole`: the wallet's seed is the very buffer `unpack` made. No object that shared it while `unlock` ran may wipe it. For a wallet the caller built around a buffer of its own nothing of the kind holds: closing either of two such wallets wipes the other's seed.
* `RoundTrip`: a keystore unlocks with its password exactly when its salt fills the header's slot; otherwise it is sealed for good, and says so with one exception, always the same.
* `EntropyKept`: for entropy of a BIP-39 length nothing is ever lost; for any other length that `generate_entropy` allows, the mnemonic may stand for other bits than were drawn, or for none (section 5), and what holds is that a wallet and the mnemonic it was unlocked with agree.
* `KeepsPromise`: of two overlapping saves either may survive or neither, but never a mixture that unlocks; a crash in `save` loses the old keystore as well as the new one; a power loss brings back what was written back last, so a `save` that returned may still be lost. `Vault` states exactly this much.
* `UnlockIsFaithful`: the reserved bytes of the header are the only ones bound by nothing; all others are bound by the tag, the associated data or the derived key.
* `NoChildOfBadKey`: for a hardened child, whose HMAC input needs no public key, only the parent fingerprint computed in the constructor's arguments (`derivation.py:166`) keeps a wiped or out-of-range parent from deriving.
* `AcceptedIsCanonical`: `from_phrase` accepts words in hand, however they came about, only if `from_entropy` would write them, so that two phrases never open one wallet.

## 4. Proofs

Each holds for every value of the constants that its module's one named
assumption allows (`WalletAssumption`, `SessionAssumption`,
`EnvelopeAssumption` and `KeystoreAssumption`, `Base58Assumption` and
`DerivationAssumption`, `SigningAssumption`, `MnemonicAssumption`), which say what kind of thing each
constant is; TLC evaluates them in every run. No theorem has a premise beyond them. Most
are about a run's property; three are about the operators alone, and hold for data
no behaviour need reach, and `CallsRunDown` counts the steps of a call.

| Module | Theorem | Property |
|---|---|---|
| `WalletProofs` | `TypeCorrect` | `TypeOK` |
| | `ZeroizedWhenClosed` | `ClosedMeansZeroized` |
| | `ClosedRefuses` | `RefusesAfterClose` |
| | `UndisturbedDerivation` | `GenuineUnlessClosing` |
| | `ImplementsCustody` | the safety part of `KeepsCustody` |
| | `CallsRunDown` | what `CloseCompletes` and `CopiesDieOut` rest on, fairness aside |
| `SessionProofs` | `SessionTypeCorrect` | `TypeOK` |
| | `CallsLeaveNothing` | `NothingLeftBehind` |
| | `UnlockedWalletsAreWhole` | `UnlockedSeedIsWhole` |
| | `ClosedWalletsAreWiped` | `ClosedSeedIsWiped` |
| | `CallsOnlyBorrow` | `CallsBorrow` |
| `KeystoreFileProofs` | `TypeCorrect` | `TypeOK` |
| | `UnlocksAreFaithful` | `UnlockIsFaithful` |
| | `KeystoresUnlock` | `RoundTrip` |
| | `DamageReported` | `DamageIsReported` |
| `VaultProofs` | `ImplementsVault` | `KeepsPromise` |
| `DerivationProofs` | `TypeCorrect` | `TypeOK` |
| | `OneKeyPerPath` | `SamePathSameKey` |
| | `HardenedNeedsPrivate` | `HardenedStaysPrivate` |
| | `BadKeysAreChildless` | `NoChildOfBadKey` |
| | `ChildrenAreUsable` | `ChildIsUsable` |
| | `ParsedPathsDerive` | `ParsedPathDerives` |
| | `DecodesBack` | of `_b58encode`: it loses no byte |
| | `ExportsDecode` | `ExportDecodes` |
| `SigningProofs` | `ConversionsInverse` | of `_der_to_rs` and `_rs_to_der`, over all components and raw bytes |
| | `TypeCorrect` | `TypeOK` |
| | `OwnSignaturesVerify` | `OwnSignatureVerifies` |
| | `TrueMeansSigned` | `VerifiedMeansSigned` |
| `MnemonicProofs` | `TypeCorrect` | `TypeOK` |
| | `EntropyIsKept` | `EntropyKept` |
| | `OnePhrasePerEntropy` | of `from_entropy`, `entropy` and `from_phrase`, over all entropies and phrases |
| | `AcceptedAreCanonical` | `AcceptedIsCanonical` |
| | `AllReimportable` | `Reimportable` |
| | `PhrasesSurvive` | `PhraseSurvivesUnlock` |

The arguments.

* **Wallet.** `ClosedMeansZeroized` alone is not inductive: `SetClosed` needs that a thread at the flag has zeroized everything, and `ZeroizeByte` that a thread at byte *i* has zeroized the bytes below *i*. `ZeroizeProgress` says both; it is preserved because no step ever restores a byte. `RefusesAfterClose` is inductive with types, since `seen[t] = "closed"` is only set while `closed` holds and `closed` is never reset. `GenuineUnlessClosing` needs that a damaged byte has a cause that `seen` records: `DamageExplained` says that a byte is missing only if the wallet is closed, being closed, or was half closed, and `SeenIsTrue` that a thread whose call still counts as undisturbed runs in the open phase. Both theorems follow from one lemma on how a thread gets into a derivation and through it (`ThroughDerivation`). The refinement of `Custody` maps the phase, the phase of each call, and of each thread whether it is past the guard and the state of its snapshot. It needs `ClosedMeansZeroized` and `DamageExplained` for what a call takes, `SeenIsTrue` for which call is admitted, and that only a derivation holds a copy (`HoldsInside`).
* **Session.** One inductive invariant: only reachable buffers are live (`__del__`), the call in progress is at a place that belongs to it, what it allocated itself is referred to by nobody else (`OwnBuffers`), and the seed of a wallet that `unlock` returned is neither the caller's nor another wallet's (`Exclusive`). `Exclusive` is what makes `UnlockedSeedIsWhole` inductive: the caller can wipe and wrap only what it refers to.
* **KeystoreFile.** The proof follows the bytes. Every cell of a blob after the header tells which draw of salt and nonce it is from (`Cells`), and `Origins` says that whatever the file, the disk, a save or a reader holds consists of such cells, each at its own place, and of damaged ones; truncating, writing a prefix over something else, writing back, losing power and damage all keep it. The first cell of a ciphertext that opens then names the keystore, with the key it was sealed under, hence the password, parameters and salt, and the tag covers the rest (`SealedOnlyWhole`). `RoundTrip` and `DamageIsReported` follow from where `pack` puts each part (`BlobParts`) and where `unpack` reads it; for a salt that does not fill its slot, from what it finds there instead. Neither supposes anything about salts, but that a blob with a shorter one can be too short for `unpack` to look at its magic.
* **Vault.** Every cell after the header names its keystore, whatever the length of the salt (`CellsTell`), so bytes mean at most one. A write leaves as last cell its own or the one that was there (`WriteLeaves`); hence, while saves are under way, a file that ends as some keystore does was written whole since it was last emptied (`SavesOrdered`). Then each action is a step of `Vault` or leaves its variables alone, one lemma per action. For a salt of another length than the slot's the argument of `RoundTrip` runs the other way: `unpack` reads a salt that is not the one the key was derived with, or finds no ciphertext, so the item is nobody's from the start.
* **Derivation.** Every key in hand or in a walk is `KeyOK`: its path, depth, child number and the way it was made agree, and its parent was usable. A walk has derived exactly the part of its path no longer to do (`Covers`). For `OneKeyPerPath` a table from seeds and paths to keys (`Memo`) is carried along: all keys in hand are entries of it, but for what their owners wiped, and each entry is the child of its prefix under the answer HMAC gave; since HMAC answers a query once and for all, a second derivation finds the entry it would add.
* **Exports.** `ExportDecodes` is about numbers only. `Value` of a row of digits is what a running total spells (`Spells`), one digit more multiplies and adds (`ValueAppend`), zeros in front add nothing (`ValueZeros`). A number has exactly one row of digits whose first is not 0 (`ProperOne`), and repeated `divmod` finds it (`DigitsAreProper`). Bytes of which one is not 0 are therefore their leading zeros and the digits of their value (`Split`), the text is as many zeros and the digits of the same value in the other base, and reading it takes both apart again (`DecodesBack`). An export always begins with a version byte that is not 0, so the encoder's special case for zeros never applies to it.
* **Signing.** The invariant is short (the one signature issued is `r || s` of two components, and the verdict is that of the last `verify`); the work is in the conversions. The *span* of a component is the number of its digits from the first that is not zero; powers of the base, a recursive function, have to be shown to exist and to grow first. A DER integer is the digits of the span, or one more when the top one has its high bit set (`DerLenOf`), so padding it gives the component's `Width` digits (`ComponentDigits`), stripping and signing those gives the DER integer (`EncodeDigits`), and both on whole signatures follow from where DER puts its parts (`WrappedLayout`). `TrueMeansSigned` needs besides that no two rows of bytes have one DER (`SignedInjective`): a zero that `encode_int` put in front is told apart by the high bit after it.
* **Mnemonic.** Laying the bits of words end to end and cutting bits into words are inverse to each other at every word size (`BitsOfWords`, `WordsOfBits`), and the sizes BIP-39 allows leave no bit over (`StrengthSizes`). So what `from_entropy` writes for an entropy of a strength is taken by `from_phrase` and read back by `entropy` as the same bits (`Written`), and what `from_phrase` takes is of that form (`Accepted`). Entropy of any other length is cut into words all the same (`CutIntoWords`), and any words stand for some bits (`EntropyIsBits`). The invariant says two things: if `origin` has a strength's length, the mnemonic in hand is the one `from_entropy` writes for it; and a mnemonic an unlock gave back is the one for the bits the wallet grew from (`GrewFrom`). The second is needed because a raw entropy can come back at a strength's length, and as other bits: 248 bits make 24 words, which are read as 256. The length in the first is needed too: `mnemonic_raw` (section 5) is the counterexample without it.

Every safety property of a passing run is proved. Out of the prover's reach, and
checked by TLC only, are `CloseCompletes`, `CopiesDieOut` and the fairness of
`KeepsCustody`: they are about liveness. Their non-temporal half is proved:
`CallsRunDown` bounds the steps a call has left (`StepsLeft`), whatever other
threads do; that a thread inside a call can step, and gets to, stays with TLC. Induction over data was needed for the
powers of a base, the digits of numbers and the sizes of phrases; as the library
states it with an operator as parameter, the least counterexample of a set of
naturals (`Least` in `Rows`) takes its place, and recursion is written as
recursive functions. No module declares a RECURSIVE operator.

## 5. Where code and documentation differ

Shown by runs (quotations in `PROJECT.json`):

1. `keystore_anysalt`: `Argon2Params.salt_len` may be 8 to 64, `pack` writes that many bytes, `unpack` reads 16. A keystore made with any other length is lost.
2. `keystore_params`: changed KDF parameters can raise argon2's `HashingError` or `ValueError`, not `KeystoreDecryptionError`.
3. `mnemonic_raw`: `generate_entropy(136)` is legal, and `from_entropy` makes of it a mnemonic whose `entropy` is something else or raises.
4. `mnemonic_seed`: the wallet's BIP-32 seed is the mnemonic's entropy, not its BIP-39 seed as the README's glossary says.
5. `wallet_forgets`: a closed wallet still holds the mnemonic.

Met while modelling, with no run of their own: `time_cost=1` is accepted
(`kdf.py:51`), although `kdf.py:45` and the README (lines 189-190) speak of the
OWASP minimum, and `OWASP_MIN_TIME_COST` is used nowhere; an unknown `kdf_id`
raises `KeystoreDecryptionError` as the adversarial test expects, while
SECURITY.md's table says `KeystoreVersionError`; `unlock("")` raises
`ValueError`; `from_phrase` keeps unusual white space, so that `phrase` and
`seed()` change across a keystore; the README's Ed25519 example verifies with an
ECDSA key; a superscript in a path raises `ValueError`; a key more than 255
levels deep can be derived but not exported.

## 6. Not modelled

* Copies of secrets that are `bytes` or `str` (the password itself, `bytes(seed)` outside `Wallet`, the digests of HMAC) and those inside the libraries: Python cannot overwrite them. Reference cycles, which delay `__del__`, do not occur in the code.
* NFKD normalisation (words are ASCII), the word list itself (a word is its index), the text of errors, `repr`, hashing and comparison of mnemonics and secrets, and what pydantic serialises beyond sharing or copying a buffer.
* File systems that reorder writes within one block, and two paths to one file: a keystore is a few hundred bytes at one path.
* The mathematics of the primitives: Argon2id, AES-GCM, HMAC, SHA-256, ECDSA and Ed25519 are ideal functions. Schnorr verification is a shape check in the code and is modelled as that.
* `__init__.py`, tests, packaging; the chain adapters the documents announce are not part of the repository.

## 7. What is left

The components that keep state are modelled operation by operation, and their
safety properties are proved; liveness is model-checked. The models end where
section 6 says.
A next version of the code would change the models at these places: an atomic
replacement in `save` makes `SaveOpen` and `SaveWrite` one step and `Vault`'s
`written` superfluous, a lock in `Wallet` removes the closing phase of
`Custody`, and a `salt_len` in the header leaves no item in `Vault` to
`nobody's`.
