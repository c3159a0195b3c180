------------------------------- MODULE Wallet -------------------------------
(***************************************************************************)
(* One unlocked Wallet (keystore.py) shared by the threads of a process.   *)
(*                                                                         *)
(* The interpreter switches threads, and delivers KeyboardInterrupt to the *)
(* main thread, between any two bytecodes, so every access to `_closed`    *)
(* and every store into the seed buffer is a step of its own, while        *)
(* bytes(seed) copies the whole buffer under the interpreter lock.  A byte *)
(* is abstracted to whether it is still the seed's or was overwritten by   *)
(* SecretBytes.zeroize().                                                  *)
(***************************************************************************)
EXTENDS Integers

CONSTANTS Threads,        \* callers of the wallet's methods
          Interruptible,  \* those an asynchronous exception can abort
          SeedLen         \* bytes in the seed buffer

ASSUME WalletAssumption ==
    /\ Interruptible \subseteq Threads
    /\ SeedLen \in Nat \ {0}

VARIABLES closed,     \* Wallet._closed
          mnemonic,   \* Wallet._mnemonic is not None
          kept,       \* kept[i]: byte i of Wallet._seed is not overwritten
          pc,         \* where each thread is inside a method
          signing,    \* it entered derive_account from sign_message
          idx,        \* loop variable of its zeroize()
          snap,       \* the copy of the seed its derivation works from
          seen,       \* history: the wallet's phase over a thread's call
          halfClosed  \* history: a close() was aborted by an exception

wallet == <<closed, mnemonic, kept>>
local  == <<signing, idx>>
vars   == <<wallet, pc, local, snap, seen, halfClosed>>

Byte   == 1..SeedLen
Copy   == [Byte -> BOOLEAN]
Intact == [i \in Byte |-> TRUE]
NoCopy == [i \in {} |-> TRUE]
Phase  == {"open", "closing", "closed"}
Place  == {"idle", "sign_guard", "derive_guard", "master", "build", "sign",
           "zeroize", "flag"}

TypeOK ==
    /\ closed \in BOOLEAN
    /\ mnemonic \in BOOLEAN
    /\ kept \in Copy
    /\ pc \in [Threads -> Place]
    /\ signing \in [Threads -> BOOLEAN]
    /\ idx \in [Threads -> Byte]
    /\ snap \in [Threads -> Copy \cup {NoCopy}]
    /\ seen \in [Threads -> Phase]
    /\ halfClosed \in BOOLEAN

\* Wallet.__init__: unlock() hands over a fresh seed, with a mnemonic when
\* the seed has a BIP-39 length.
Init ==
    /\ closed = FALSE
    /\ mnemonic \in BOOLEAN
    /\ kept = Intact
    /\ pc = [t \in Threads |-> "idle"]
    /\ signing = [t \in Threads |-> FALSE]
    /\ idx = [t \in Threads |-> 1]
    /\ snap = [t \in Threads |-> NoCopy]
    /\ seen = [t \in Threads |-> "open"]
    /\ halfClosed = FALSE

InClose(t) == pc[t] \in {"zeroize", "flag"}

CurrentPhase ==
    CASE closed -> "closed"
      [] ~closed /\ (halfClosed \/ \E t \in Threads : InClose(t)) -> "closing"
      [] OTHER -> "open"

Goto(t, p) == pc' = [pc EXCEPT ![t] = p]

\* The call ends, and with it the references it held to the seed's bytes.
Return(t) ==
    /\ Goto(t, "idle")
    /\ snap' = [snap EXCEPT ![t] = NoCopy]

-----------------------------------------------------------------------------
\* derive_account(path, scheme) or sign_message(path, message, scheme).
Call(t, sign) ==
    /\ pc[t] = "idle"
    /\ Goto(t, IF sign THEN "sign_guard" ELSE "derive_guard")
    /\ signing' = [signing EXCEPT ![t] = sign]
    /\ seen' = [seen EXCEPT ![t] = CurrentPhase]
    /\ UNCHANGED <<wallet, idx, snap, halfClosed>>

\* if self._closed: raise RuntimeError("wallet is closed")
SignGuard(t) ==
    /\ pc[t] = "sign_guard"
    /\ Goto(t, IF closed THEN "idle" ELSE "derive_guard")
    /\ UNCHANGED <<wallet, local, snap, seen, halfClosed>>

\* Faulty variant: derive_account without its own guard.
DeriveUnguarded(t) ==
    /\ pc[t] = "derive_guard"
    /\ Goto(t, "master")
    /\ UNCHANGED <<wallet, local, snap, seen, halfClosed>>

DeriveGuard(t) ==
    /\ pc[t] = "derive_guard"
    /\ Goto(t, IF closed THEN "idle" ELSE "master")
    /\ UNCHANGED <<wallet, local, snap, seen, halfClosed>>

\* Faulty variant: the derivation consumes the seed (`with self._seed as s`).
TakeSeedConsuming(t) ==
    /\ pc[t] = "master"
    /\ Goto(t, "build")
    /\ snap' = [snap EXCEPT ![t] = kept]
    /\ kept' = [i \in Byte |-> FALSE]
    /\ UNCHANGED <<closed, mnemonic, local, seen, halfClosed>>

\* derive_from_seed -> ExtendedPrivateKey.master: bytes(seed).
TakeSeed(t) ==
    /\ pc[t] = "master"
    /\ Goto(t, "build")
    /\ snap' = [snap EXCEPT ![t] = kept]
    /\ UNCHANGED <<wallet, local, seen, halfClosed>>

\* derive_account returns its Account to the caller or to sign_message, or
\* raises ValueError: a child key is invalid, the scheme is unknown.
BuildAccount(t) ==
    /\ pc[t] = "build"
    /\ \/ Return(t)
       \/ signing[t] /\ Goto(t, "sign") /\ UNCHANGED snap
    /\ UNCHANGED <<wallet, local, seen, halfClosed>>

\* Faulty variant: the account outlives the call, and with it the copy.
SignKeeping(t) ==
    /\ pc[t] = "sign"
    /\ Goto(t, "idle")
    /\ UNCHANGED <<wallet, local, snap, seen, halfClosed>>

Sign(t) ==
    /\ pc[t] = "sign"
    /\ Return(t)
    /\ UNCHANGED <<wallet, local, seen, halfClosed>>

\* close(), also run on leaving a with block, enters SecretBytes.zeroize().
Close(t) ==
    /\ pc[t] = "idle"
    /\ Goto(t, "zeroize")
    /\ idx' = [idx EXCEPT ![t] = 1]
    /\ seen' = [u \in Threads |->
                  IF seen[u] = "open" THEN "closing" ELSE seen[u]]
    /\ UNCHANGED <<wallet, signing, snap, halfClosed>>

\* Faulty variants: range(len - 1) and range(len + 1).
ZeroizeTooFew(t) ==
    /\ pc[t] = "zeroize"
    /\ kept' = [kept EXCEPT ![idx[t]] = FALSE]
    /\ IF idx[t] < SeedLen - 1
         THEN idx' = [idx EXCEPT ![t] = @ + 1] /\ UNCHANGED pc
         ELSE Goto(t, "flag") /\ UNCHANGED idx
    /\ UNCHANGED <<closed, mnemonic, signing, snap, seen, halfClosed>>

ZeroizeTooMany(t) ==
    /\ pc[t] = "zeroize"
    /\ kept' = [kept EXCEPT ![idx[t]] = FALSE]
    /\ IF idx[t] <= SeedLen
         THEN idx' = [idx EXCEPT ![t] = @ + 1] /\ UNCHANGED pc
         ELSE Goto(t, "flag") /\ UNCHANGED idx
    /\ UNCHANGED <<closed, mnemonic, signing, snap, seen, halfClosed>>

\* One iteration of `for i in range(len(self._buf)): self._buf[i] = 0`.
ZeroizeByte(t) ==
    /\ pc[t] = "zeroize"
    /\ kept' = [kept EXCEPT ![idx[t]] = FALSE]
    /\ IF idx[t] < SeedLen
         THEN idx' = [idx EXCEPT ![t] = @ + 1] /\ UNCHANGED pc
         ELSE Goto(t, "flag") /\ UNCHANGED idx
    /\ UNCHANGED <<closed, mnemonic, signing, snap, seen, halfClosed>>

\* Faulty variant: close() forgets the flag.
SetNothing(t) ==
    /\ pc[t] = "flag"
    /\ Goto(t, "idle")
    /\ UNCHANGED <<wallet, local, snap, seen, halfClosed>>

SetClosed(t) ==
    /\ pc[t] = "flag"
    /\ closed' = TRUE
    /\ Goto(t, "idle")
    /\ UNCHANGED <<mnemonic, kept, local, snap, seen, halfClosed>>

\* KeyboardInterrupt, or another asynchronous exception, aborts the call.
Interrupt(t) ==
    /\ t \in Interruptible
    /\ pc[t] # "idle"
    /\ halfClosed' = (halfClosed \/ InClose(t))
    /\ Return(t)
    /\ UNCHANGED <<wallet, local, seen>>

\* The interpreter's own steps inside a call.
Step(t) ==
    \/ SignGuard(t) \/ DeriveGuard(t) \/ TakeSeed(t) \/ BuildAccount(t)
    \/ Sign(t) \/ ZeroizeByte(t) \/ SetClosed(t)

Next ==
    \E t \in Threads :
        \/ \E sign \in BOOLEAN : Call(t, sign)
        \/ Close(t)
        \/ Interrupt(t)
        \/ Step(t)

Spec == Init /\ [][Next]_vars

\* A thread inside a method waits for nothing, and the interpreter passes
\* its lock to every runnable thread in turn.
FairSpec == Spec /\ \A t \in Threads : WF_vars(Step(t))

-----------------------------------------------------------------------------
(* Properties.                                                             *)

\* is_closed is never observed TRUE while a byte of the seed survives, in
\* whatever order threads run or repeat close() and whichever of their
\* calls are aborted (keystore.py close, secret_bytes.py zeroize).
ClosedMeansZeroized == closed => \A i \in Byte : ~kept[i]

\* A derive_account or sign_message called on a closed wallet never gets
\* past the guards to the seed, although each guard reads the flag apart
\* from the use of the seed.
RefusesAfterClose ==
    \A t \in Threads :
        seen[t] = "closed" => pc[t] \notin {"master", "build", "sign"}

\* A derivation that no close() overlaps and none was aborted before works
\* from the whole seed: calls of other threads never damage it.
GenuineUnlessClosing ==
    \A t \in Threads :
        pc[t] \in {"build", "sign"} /\ seen[t] = "open" => snap[t] = Intact

\* A close() that begins ends with the wallet marked closed, unless an
\* exception aborts one.
CloseCompletes ==
    \A t \in Threads : pc[t] = "zeroize" ~> closed \/ halfClosed

\* Once the wallet is closed the calls still in flight die out, and from
\* some moment on no thread works from a copy of the seed any more.
CopiesDieOut == closed ~> [](\A t \in Threads : snap[t] = NoCopy)

\* What a copy of the seed is good for.
Use(copy) ==
    IF copy = NoCopy THEN "nothing" ELSE IF copy = Intact THEN "whole" ELSE "spoiled"

\* A call past the guard of derive_account is admitted to the seed.
Taken == [t \in Threads |-> IF pc[t] = "master" THEN "admitted" ELSE Use(snap[t])]

Custodian == INSTANCE Custody WITH
    phase <- CurrentPhase, began <- seen, taken <- Taken

\* The wallet does what Custody promises its threads: beside the invariants
\* above, its phases follow one another; no call is let to the seed once the
\* wallet is closed, not even one that passed sign_message's test before (so
\* derive_account has to test again); none takes the seed twice, and every
\* call gives up its copy in the end.
KeepsCustody == Custodian!Spec

\* What the module's docstring promises of close(): the secret cannot be
\* recovered from the wallet afterwards (keystore.py:9-11).
ClosedForgetsSecret == closed => ~mnemonic /\ \A i \in Byte : ~kept[i]
=============================================================================
