------------------------------ MODULE Session ------------------------------
(***************************************************************************)
(* Where the secrets of a program using the library are: the SecretBytes   *)
(* that create(), unlock(), Envelope.pack and unpack, and the derivation   *)
(* of keys allocate, who refers to them, and who overwrites them.          *)
(*                                                                         *)
(* A SecretBytes is a buffer that holds its secret ("live") or zeros.      *)
(* CPython frees an object with its last reference, and __del__ then       *)
(* zeroizes it, so this is part of every step that drops a reference.  A   *)
(* call can be left by an exception at any point: one of the library's, or *)
(* a KeyboardInterrupt.  The traceback of an exception the caller keeps    *)
(* refers to the frames of the call, and so to their buffers.  Copies that *)
(* are not SecretBytes (bytes, str, the libraries' own) are left out.      *)
(***************************************************************************)
EXTENDS Integers, FiniteSets

CONSTANTS Buffers,  \* SecretBytes objects there can be at a time
          NoBuffer,
          Wallets   \* Wallet objects there can be at a time

ASSUME SessionAssumption == NoBuffer \notin Buffers

VARIABLES pc,       \* how far the call in progress is
          call,     \* which it is
          local,    \* what the variables of its frames refer to
          raised,   \* buffers of the frames of an exception in hand
          caller,   \* those the caller refers to
          wallet,   \* the Wallet objects in hand
          live      \* buffers not overwritten

vars == <<pc, call, local, raised, caller, wallet, live>>

Roles == {"password", "key", "seed", "private"}
Calls == {"none", "create", "unlock", "pack", "unpack", "derive_account", "derive_from_seed"}
Place == {"idle", "entropy", "kdf", "aead", "return", "zeroize", "wallet", "master",
          "derive"}

Unset == [r \in Roles |-> NoBuffer]
Locals == {local[r] : r \in Roles} \ {NoBuffer}

\* Wallet._seed and _closed, and, as history, whether unlock() made it.
Wallet == [seed : Buffers, closed : BOOLEAN, unlocked : BOOLEAN]
NoWallet == [seed |-> NoBuffer]

InHand == {w \in Wallets : wallet[w] # NoWallet}
Opened == {w \in InHand : ~wallet[w].closed}
SeedsOf(ws) == {wallet[w].seed : w \in ws}

Reachable == Locals \cup raised \cup caller \cup SeedsOf(InHand)

TypeOK ==
    /\ pc \in Place /\ call \in Calls
    /\ local \in [Roles -> Buffers \cup {NoBuffer}]
    /\ raised \subseteq Buffers /\ caller \subseteq Buffers
    /\ wallet \in [Wallets -> Wallet \cup {NoWallet}]
    /\ live \subseteq Reachable
    /\ pc = "idle" => local = Unset

Init ==
    /\ pc = "idle" /\ call = "none"
    /\ local = Unset
    /\ raised = {} /\ caller = {} /\ live = {}
    /\ wallet = [w \in Wallets |-> NoWallet]

\* Faulty variant: a SecretBytes without __del__.
SettleUndeleted(filled, wiped) == live' = (live \ wiped) \cup filled

\* The buffers after a step that fills and wipes some: those without a
\* reference are zeroized by __del__.
Settle(filled, wiped) == live' = ((live \ wiped) \cup filled) \cap Reachable'

\* SecretBytes(value) in the variable r of a frame.
Allocate(r, b) ==
    /\ b \notin Reachable
    /\ local' = [local EXCEPT ![r] = b]

Enter(c, p) == pc = "idle" /\ call' = c /\ pc' = p

Leave == pc' = "idle" /\ call' = "none" /\ local' = Unset

CallerUnchanged == UNCHANGED <<raised, caller, wallet>>

-----------------------------------------------------------------------------
(* The caller between calls.                                               *)

\* SecretBytes(...), from_hex, random: a buffer of the caller's own.
NewSecret(b) ==
    /\ pc = "idle"
    /\ b \notin Reachable
    /\ caller' = caller \cup {b}
    /\ UNCHANGED <<pc, call, local, raised, wallet>>
    /\ Settle({b}, {})

\* b.zeroize(), or leaving a `with b` block.
Zeroize(b) ==
    /\ pc = "idle"
    /\ UNCHANGED <<pc, call, local, raised, caller, wallet>>
    /\ Settle({}, {b})

\* What leaves a pydantic model and comes back (model_dump, or bytes(b)) is a
\* copy of the buffer as it is; a SecretBytes that is only validated stays
\* the same object.
Revalidate(b, c) ==
    /\ pc = "idle"
    /\ c \notin Reachable
    /\ caller' = caller \cup {c}
    /\ UNCHANGED <<pc, call, local, raised, wallet>>
    /\ Settle(IF b \in live THEN {c} ELSE {}, {})

\* Wallet(mnemonic, seed), from unlock() or the caller.
NewWallet(w, b, unlocked) ==
    /\ w \notin InHand
    /\ wallet' = [wallet EXCEPT ![w] =
                    [seed |-> b, closed |-> FALSE, unlocked |-> unlocked]]

WrapWallet(w, b) ==
    /\ pc = "idle"
    /\ NewWallet(w, b, FALSE)
    /\ UNCHANGED <<pc, call, local, raised, caller>>
    /\ Settle({}, {})

\* Faulty variant: close() only marks the wallet.
CloseMarking(w) ==
    /\ pc = "idle"
    /\ wallet' = [wallet EXCEPT ![w].closed = TRUE]
    /\ UNCHANGED <<pc, call, local, raised, caller>>
    /\ Settle({}, {})

Close(w) ==
    /\ pc = "idle"
    /\ wallet' = [wallet EXCEPT ![w].closed = TRUE]
    /\ UNCHANGED <<pc, call, local, raised, caller>>
    /\ Settle({}, {wallet[w].seed})

\* A variable goes out of scope: of a buffer, a Wallet, an exception.
Drop ==
    /\ pc = "idle"
    /\ \/ \E b \in caller : caller' = caller \ {b} /\ UNCHANGED <<raised, wallet>>
       \/ /\ \E w \in InHand : wallet' = [wallet EXCEPT ![w] = NoWallet]
          /\ UNCHANGED <<raised, caller>>
       \/ raised' = {} /\ UNCHANGED <<caller, wallet>>
    /\ UNCHANGED <<pc, call, local>>
    /\ Settle({}, {})

-----------------------------------------------------------------------------
(* Calls.                                                                  *)

\* Keystore.create and KeystoreContext.unlock wrap the password themselves.
CallKeystore(c, b) ==
    /\ Enter(c, IF c = "create" THEN "entropy" ELSE "kdf")
    /\ Allocate("password", b)
    /\ CallerUnchanged
    /\ Settle({b}, {})

\* create(): seed=mnemonic.entropy
TakeEntropy(b) ==
    /\ pc = "entropy" /\ pc' = "kdf"
    /\ Allocate("seed", b)
    /\ CallerUnchanged /\ UNCHANGED call
    /\ Settle({b}, {})

\* Envelope.pack and unpack, called with the caller's own buffers.
CallEnvelope(c, password, seed) ==
    /\ Enter(c, "kdf")
    /\ local' = [Unset EXCEPT !["password"] = password,
                              !["seed"] = IF c = "pack" THEN seed ELSE NoBuffer]
    /\ CallerUnchanged /\ UNCHANGED <<live>>

\* derive_key returns SecretBytes(raw).
DeriveKey(b) ==
    /\ pc = "kdf" /\ pc' = "aead"
    /\ Allocate("key", b)
    /\ CallerUnchanged /\ UNCHANGED call
    /\ Settle({b}, {})

\* encrypt; or decrypt, and SecretBytes(plaintext[...]) in _unpack_plaintext.
Aead(b) ==
    /\ pc = "aead" /\ pc' = "return"
    /\ CallerUnchanged /\ UNCHANGED call
    /\ IF call \in {"unlock", "unpack"} THEN Allocate("seed", b) /\ Settle({b}, {})
       ELSE UNCHANGED <<local, live>>

\* Faulty variant: pack and unpack wipe the password they were given.
ReturnWiping ==
    /\ pc = "return"
    /\ \/ /\ call \in {"create", "unlock"}
          /\ pc' = "zeroize"
          /\ local' = [local EXCEPT !["key"] = NoBuffer,
                                   !["seed"] = IF call = "create" THEN NoBuffer ELSE @]
          /\ UNCHANGED <<call, caller>>
       \/ call = "pack" /\ Leave /\ UNCHANGED caller
       \/ call = "unpack" /\ Leave /\ caller' = caller \cup {local["seed"]}
    /\ UNCHANGED <<raised, wallet>>
    /\ Settle({}, {local["password"]})

\* pack or unpack returns; its own variables, the key among them, are gone.
ReturnEnvelope ==
    /\ pc = "return"
    /\ \/ /\ call \in {"create", "unlock"}
          /\ pc' = "zeroize"
          /\ local' = [local EXCEPT !["key"] = NoBuffer,
                                   !["seed"] = IF call = "create" THEN NoBuffer ELSE @]
          /\ UNCHANGED <<call, caller>>
       \/ call = "pack" /\ Leave /\ UNCHANGED caller
       \/ call = "unpack" /\ Leave /\ caller' = caller \cup {local["seed"]}
    /\ UNCHANGED <<raised, wallet>>
    /\ Settle({}, {})

\* pw_secret.zeroize(); create() has nothing else to do.
ZeroizePassword ==
    /\ pc = "zeroize"
    /\ IF call = "create" THEN Leave ELSE pc' = "wallet" /\ UNCHANGED <<call, local>>
    /\ CallerUnchanged
    /\ Settle({}, {local["password"]})

\* Faulty variant: unlock() wipes what it has passed on.
BuildWalletWiping(w) ==
    /\ pc = "wallet"
    /\ Leave
    /\ NewWallet(w, local["seed"], TRUE)
    /\ UNCHANGED <<raised, caller>>
    /\ Settle({}, {local["seed"]})

\* unlock() returns Wallet(mnemonic=m, seed=unpacked.seed): the same buffer.
BuildWallet(w) ==
    /\ pc = "wallet"
    /\ Leave
    /\ NewWallet(w, local["seed"], TRUE)
    /\ UNCHANGED <<raised, caller>>
    /\ Settle({}, {})

\* derive_account on a Wallet, or derive_from_seed on a buffer.
CallDerive(c, seed) ==
    /\ Enter(c, "master")
    /\ local' = [Unset EXCEPT !["seed"] = seed]
    /\ CallerUnchanged /\ UNCHANGED <<live>>

\* master(), and then each derive(), makes new buffers for the key; with the
\* next one the variable that held the last goes.
MakeKey(b) ==
    /\ pc \in {"master", "derive"} /\ pc' = "derive"
    /\ Allocate("private", b)
    /\ CallerUnchanged /\ UNCHANGED call
    /\ Settle({b}, {})

\* derive_account returns an Account, whose signer has copied the key;
\* derive_from_seed returns the key, or its private_key, to the caller.
ReturnKey ==
    /\ pc = "derive"
    /\ Leave
    /\ caller' = IF call = "derive_from_seed" THEN caller \cup {local["private"]} ELSE caller
    /\ UNCHANGED <<raised, wallet>>
    /\ Settle({}, {})

\* An exception leaves the call, at any point: one the code raises itself, as
\* unpack() does, one of a library, or a KeyboardInterrupt.  The caller keeps
\* it, beside those it has, or does not.
Fail ==
    /\ pc # "idle"
    /\ Leave
    /\ raised' \in {raised, raised \cup Locals}
    /\ UNCHANGED <<caller, wallet>>
    /\ Settle({}, {})

Next ==
    \/ \E b \in Buffers :
          \/ NewSecret(b)
          \/ \E c \in {"create", "unlock"} : CallKeystore(c, b)
          \/ TakeEntropy(b) \/ DeriveKey(b) \/ Aead(b) \/ MakeKey(b)
    \/ Drop
    \/ \E b \in caller :
          \/ Zeroize(b)
          \/ \E c \in Buffers : Revalidate(b, c)
          \/ \E w \in Wallets : WrapWallet(w, b)
          \/ \E s \in caller, c \in {"pack", "unpack"} : CallEnvelope(c, b, s)
          \/ CallDerive("derive_from_seed", b)
    \/ \E w \in InHand : Close(w)
    \/ \E w \in Opened : CallDerive("derive_account", wallet[w].seed)
    \/ \E w \in Wallets : BuildWallet(w)
    \/ ReturnEnvelope \/ ZeroizePassword \/ ReturnKey \/ Fail

Spec == Init /\ [][Next]_vars

-----------------------------------------------------------------------------
(* Properties.                                                             *)

\* Once a call is over, returned or raised, no password it wrapped, no key and
\* no intermediate private key is left: live buffers are the caller's own, the
\* seeds of its open wallets, and those in the frames of an exception that the
\* caller keeps (keystore.py unlock, whose zeroize() an exception skips).
NothingLeftBehind ==
    pc = "idle" => live \subseteq caller \cup SeedsOf(Opened) \cup raised

\* No call overwrites a buffer its caller, or a wallet, still refers to, and
\* none is freed under them: pack and unpack leave their arguments alone, and
\* a private_key outlives the ExtendedPrivateKey it was taken from.
CallsBorrow ==
    [][pc # "idle" => live \cap (caller \cup SeedsOf(Opened)) \subseteq live']_vars

\* The wallet unlock() returns is the only owner of its seed: until it is
\* closed the seed is whole, whatever is closed, zeroized, dropped or raised
\* elsewhere.
UnlockedSeedIsWhole ==
    \A w \in Opened : wallet[w].unlocked => wallet[w].seed \in live

\* A closed wallet's seed stays overwritten, although callers, exceptions or
\* other wallets still hold it.
ClosedSeedIsWiped == \A w \in InHand \ Opened : wallet[w].seed \notin live
=============================================================================
