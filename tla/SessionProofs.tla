--------------------------- MODULE SessionProofs ---------------------------
(***************************************************************************)
(* Proofs about Session for any sets of buffers and wallets.  The four     *)
(* invariants and the action property follow from one inductive invariant, *)
(* which says who else can refer to the buffers of a call in progress, and *)
(* to the seed of a wallet unlock() returned: nobody.                      *)
(***************************************************************************)
EXTENDS Session, TLAPS

\* Which call can be at which place.
CallShape ==
    /\ pc = "idle" <=> call = "none"
    /\ pc \in {"kdf", "aead", "return"} => call \in {"create", "unlock", "pack", "unpack"}
    /\ pc = "entropy" => call = "create"
    /\ pc = "zeroize" => call \in {"create", "unlock"}
    /\ pc = "wallet" => call = "unlock"
    /\ pc \in {"master", "derive"} => call \in {"derive_account", "derive_from_seed"}

\* What the caller and its wallets refer to.
Elsewhere == caller \cup SeedsOf(InHand)

\* The password a call wrapped, the seed it decrypted and the key it made are
\* its own, and the seed is not overwritten.
OwnBuffers ==
    /\ call \in {"create", "unlock"} => local["password"] \in Buffers \ Elsewhere
    /\ call \in {"unlock", "unpack"} /\ pc \in {"return", "zeroize", "wallet"} =>
          /\ local["seed"] \in Buffers \ Elsewhere
          /\ local["seed"] \in live
          /\ call = "unlock" => local["seed"] # local["password"]
    /\ pc = "derive" => local["private"] \in Buffers \ Elsewhere

\* Neither the caller nor another wallet shares the seed of a wallet that
\* unlock() returned.
Exclusive ==
    \A w \in InHand :
        wallet[w].unlocked =>
            /\ wallet[w].seed \notin caller
            /\ \A v \in InHand \ {w} : wallet[v].seed # wallet[w].seed

IInv ==
    /\ TypeOK /\ CallShape /\ OwnBuffers /\ Exclusive
    /\ ClosedSeedIsWiped /\ UnlockedSeedIsWhole

-----------------------------------------------------------------------------
LEMMA Initially == Init => IInv
BY SessionAssumption
   DEF SessionAssumption, Init, IInv, TypeOK, CallShape, OwnBuffers, Elsewhere, Exclusive,
       ClosedSeedIsWiped, UnlockedSeedIsWhole, Locals, Reachable, InHand, Opened, SeedsOf,
       Wallet, NoWallet, Roles, Unset, Calls, Place

LEMMA Inductive == IInv /\ [Next]_vars => IInv'
<1> SUFFICES ASSUME IInv, [Next]_vars PROVE IInv'
  OBVIOUS
<1> USE SessionAssumption
    DEF SessionAssumption, IInv, TypeOK, CallShape, OwnBuffers, Elsewhere, Exclusive,
        ClosedSeedIsWiped, UnlockedSeedIsWhole, Enter, Leave, Allocate, Settle,
        CallerUnchanged, Locals, Reachable, InHand, Opened, SeedsOf, Wallet, NoWallet,
        Roles, Unset
<1>1. ASSUME NEW b \in Buffers, NewSecret(b) PROVE IInv'
  BY <1>1, SMTT(20) DEF NewSecret, Calls, Place
<1>2. ASSUME NEW b \in Buffers, NEW c \in {"create", "unlock"}, CallKeystore(c, b)
      PROVE  IInv'
  BY <1>2, SMTT(20) DEF CallKeystore, Calls, Place
<1>3. ASSUME NEW b \in Buffers, TakeEntropy(b) PROVE IInv'
  BY <1>3, SMTT(20) DEF TakeEntropy, Calls, Place
<1>4. ASSUME NEW b \in Buffers, DeriveKey(b) PROVE IInv'
  BY <1>4, SMTT(20) DEF DeriveKey, Calls, Place
<1>5. ASSUME NEW b \in Buffers, Aead(b) PROVE IInv'
  BY <1>5, SMTT(20) DEF Aead, Calls, Place
<1>6. ASSUME NEW b \in Buffers, MakeKey(b) PROVE IInv'
  BY <1>6, SMTT(20) DEF MakeKey, Calls, Place
<1>7. ASSUME Drop PROVE IInv'
  BY <1>7, SMTT(20) DEF Drop, Calls, Place
<1>8. ASSUME NEW b \in caller, Zeroize(b) PROVE IInv'
  BY <1>8, SMTT(20) DEF Zeroize, Calls, Place
<1>9. ASSUME NEW b \in caller, NEW c \in Buffers, Revalidate(b, c) PROVE IInv'
  BY <1>9, SMTT(20) DEF Revalidate, Calls, Place
<1>10. ASSUME NEW b \in caller, NEW w \in Wallets, WrapWallet(w, b) PROVE IInv'
  BY <1>10, SMTT(20) DEF WrapWallet, NewWallet, Calls, Place
<1>11. ASSUME NEW b \in caller, NEW s \in caller, NEW c \in {"pack", "unpack"}, CallEnvelope(c, b, s)
      PROVE  IInv'
  BY <1>11, SMTT(20) DEF CallEnvelope, Calls, Place
<1>12. ASSUME NEW b \in caller, CallDerive("derive_from_seed", b) PROVE IInv'
  BY <1>12, SMTT(20) DEF CallDerive, Calls, Place
<1>13. ASSUME NEW w \in InHand, Close(w) PROVE IInv'
  <2>1. InHand' = InHand /\ SeedsOf(InHand)' = SeedsOf(InHand)
    BY <1>13 DEF Close
  <2>2. TypeOK'
    <3>1. wallet' \in [Wallets -> Wallet \cup {NoWallet}]
      BY <1>13, ZenonT(40) DEF Close
    <3>2. live' \subseteq Reachable'
      BY <1>13 DEF Close
    <3>3. QED BY <1>13, <3>1, <3>2 DEF Close
  <2>3. (CallShape /\ OwnBuffers)'
    BY <1>13, <2>1 DEF Close
  <2>4. Exclusive'
    BY <1>13, <2>1 DEF Close
  <2>5. ClosedSeedIsWiped'
    BY <1>13, <2>1 DEF Close
  <2>6. UnlockedSeedIsWhole'
    BY <1>13, <2>1 DEF Close
  <2>7. QED BY <2>2, <2>3, <2>4, <2>5, <2>6
<1>14. ASSUME NEW w \in Opened, CallDerive("derive_account", wallet[w].seed) PROVE IInv'
  BY <1>14, SMTT(20) DEF CallDerive, Calls, Place
<1>15. ASSUME NEW w \in Wallets, BuildWallet(w) PROVE IInv'
  BY <1>15, SMTT(20) DEF BuildWallet, NewWallet, Calls, Place
<1>16. ASSUME ReturnEnvelope PROVE IInv'
  BY <1>16, SMTT(20) DEF ReturnEnvelope, Calls, Place
<1>17. ASSUME ZeroizePassword PROVE IInv'
  BY <1>17, SMTT(20) DEF ZeroizePassword, Calls, Place
<1>18. ASSUME ReturnKey PROVE IInv'
  BY <1>18, SMTT(20) DEF ReturnKey, Calls, Place
<1>19. ASSUME Fail PROVE IInv'
  BY <1>19, SMTT(20) DEF Fail, Calls, Place
<1>20. CASE UNCHANGED vars
  BY <1>20 DEF vars
<1> HIDE DEF IInv, TypeOK, CallShape, OwnBuffers, Elsewhere, Exclusive,
        ClosedSeedIsWiped, UnlockedSeedIsWhole, Enter, Leave, Allocate, Settle,
        CallerUnchanged, Locals, Reachable, InHand, Opened, SeedsOf, Wallet, NoWallet,
        Roles, Unset
<1>21. QED
  BY <1>1, <1>2, <1>3, <1>4, <1>5, <1>6, <1>7, <1>8, <1>9, <1>10, <1>11,
     <1>12, <1>13, <1>14, <1>15, <1>16, <1>17, <1>18, <1>19, <1>20 DEF Next

LEMMA Invariance == Spec => []IInv
BY Initially, Inductive, PTL DEF Spec

-----------------------------------------------------------------------------
\* Every variable keeps its type, and only what someone refers to is live.
THEOREM SessionTypeCorrect == Spec => []TypeOK
<1>1. IInv => TypeOK
  BY DEF IInv
<1>2. QED BY <1>1, Invariance, PTL

\* The seed of a closed wallet is overwritten for good.
THEOREM ClosedWalletsAreWiped == Spec => []ClosedSeedIsWiped
<1>1. IInv => ClosedSeedIsWiped
  BY DEF IInv
<1>2. QED BY <1>1, Invariance, PTL

\* Nothing but close() touches the seed of a wallet that unlock() returned.
THEOREM UnlockedWalletsAreWhole == Spec => []UnlockedSeedIsWhole
<1>1. IInv => UnlockedSeedIsWhole
  BY DEF IInv
<1>2. QED BY <1>1, Invariance, PTL

\* After a call only what the caller, its open wallets and the exceptions it
\* keeps refer to is live.
THEOREM CallsLeaveNothing == Spec => []NothingLeftBehind
<1>1. IInv => NothingLeftBehind
  <2> SUFFICES ASSUME IInv, pc = "idle"
               PROVE  live \subseteq caller \cup SeedsOf(Opened) \cup raised
    BY DEF NothingLeftBehind
  <2>1. Locals = {}
    BY DEF IInv, TypeOK, Locals, Unset
  <2>2. live \subseteq raised \cup caller \cup SeedsOf(InHand)
    BY <2>1 DEF IInv, TypeOK, Reachable
  <2>3. live \cap SeedsOf(InHand) \subseteq SeedsOf(Opened)
    BY DEF IInv, ClosedSeedIsWiped, SeedsOf, Opened
  <2>4. QED BY <2>2, <2>3
<1>2. QED BY <1>1, Invariance, PTL

\* No step of a call overwrites what its caller or an open wallet refers to.
THEOREM CallsOnlyBorrow == Spec => CallsBorrow
<1> DEFINE Borrows == pc # "idle" => live \cap (caller \cup SeedsOf(Opened)) \subseteq live'
<1>1. IInv /\ [Next]_vars => [Borrows]_vars
  <2> SUFFICES ASSUME IInv, Next, pc # "idle",
                      NEW x \in live, x \in caller \cup SeedsOf(Opened)
               PROVE  x \in live'
    BY DEF vars
  <2> USE DEF IInv, TypeOK, CallShape, OwnBuffers, Elsewhere, Settle, Reachable, InHand,
              Opened, SeedsOf, CallerUnchanged
  <2>1. ASSUME NEW b \in Buffers, TakeEntropy(b) \/ DeriveKey(b) \/ Aead(b) \/ MakeKey(b) PROVE x \in live'
    BY <2>1 DEF TakeEntropy, DeriveKey, Aead, MakeKey
  <2>2. ASSUME NEW w \in Wallets, BuildWallet(w) PROVE x \in live'
    BY <2>2 DEF BuildWallet, NewWallet, Wallet, NoWallet
  <2>3. ASSUME ReturnEnvelope \/ ReturnKey \/ Fail PROVE x \in live'
    BY <2>3 DEF ReturnEnvelope, ReturnKey, Fail
  <2>4. ASSUME ZeroizePassword PROVE x \in live'
    BY <2>4 DEF ZeroizePassword
  <2>5. QED
    BY <2>1, <2>2, <2>3, <2>4 DEF Next, NewSecret, CallKeystore, Enter, Drop, Zeroize,
       Revalidate, WrapWallet, CallEnvelope, CallDerive, Close
<1>2. QED BY <1>1, Invariance, PTL DEF Spec, CallsBorrow
=============================================================================
