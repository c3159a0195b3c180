---------------------------- MODULE WalletProofs ----------------------------
(***************************************************************************)
(* Proofs about Wallet for any set of threads, any choice of those that an *)
(* exception can abort, and any seed length.  None of the three invariants *)
(* is inductive alone: the first needs to know how far every zeroize() has *)
(* come, the other two what a call has seen of the wallet's phase.         *)
(***************************************************************************)
EXTENDS Wallet, TLAPS

\* A zeroize() has cleared the bytes before its loop variable, all of them
\* when close() is about to set the flag.
ZeroizeProgress ==
    \A t \in Threads :
        /\ pc[t] = "zeroize" => \A i \in 1..(idx[t] - 1) : ~kept[i]
        /\ pc[t] = "flag" => \A i \in Byte : ~kept[i]

\* Only closing damages the seed.
DamageExplained == CurrentPhase = "open" => kept = Intact

\* What a call has seen of the phase is still so.
SeenIsTrue ==
    \A t \in Threads :
        /\ seen[t] = "open" => CurrentPhase = "open"
        /\ seen[t] = "closed" => closed

-----------------------------------------------------------------------------
\* Every variable of the wallet and of its threads keeps its type.
THEOREM TypeCorrect == Spec => []TypeOK
<1> USE WalletAssumption DEF WalletAssumption, Byte, Copy
<1>1. Init => TypeOK
  <2> SUFFICES ASSUME Init PROVE TypeOK
    OBVIOUS
  <2>1. kept \in Copy
    BY Zenon DEF Init, Intact
  <2>2. 1 \in Byte
    OBVIOUS
  <2>3. QED BY <2>1, <2>2 DEF Init, TypeOK, Place, Phase
<1>2. TypeOK /\ [Next]_vars => TypeOK'
  <2> SUFFICES ASSUME TypeOK, [Next]_vars PROVE TypeOK'
    OBVIOUS
  <2> USE DEF TypeOK, Place, Phase, Goto, Return, wallet, local
  <2>1. ASSUME NEW t \in Threads, NEW sign \in BOOLEAN, Call(t, sign) PROVE TypeOK'
    <3>1. CurrentPhase \in {"open", "closing", "closed"}
      BY DEF CurrentPhase
    <3>2. QED BY <2>1, <3>1 DEF Call
  <2>2. ASSUME NEW t \in Threads, Close(t) PROVE TypeOK'
    BY <2>2 DEF Close
  <2>3. ASSUME NEW t \in Threads, Interrupt(t) PROVE TypeOK'
    BY <2>3 DEF Interrupt, InClose
  <2>4. ASSUME NEW t \in Threads, SignGuard(t) PROVE TypeOK'
    BY <2>4 DEF SignGuard
  <2>5. ASSUME NEW t \in Threads, DeriveGuard(t) PROVE TypeOK'
    BY <2>5 DEF DeriveGuard
  <2>6. ASSUME NEW t \in Threads, TakeSeed(t) PROVE TypeOK'
    BY <2>6 DEF TakeSeed
  <2>7. ASSUME NEW t \in Threads, BuildAccount(t) PROVE TypeOK'
    <3>1. CASE Return(t)
      BY <2>7, <3>1 DEF BuildAccount
    <3>2. CASE Goto(t, "sign") /\ UNCHANGED snap
      BY <2>7, <3>2 DEF BuildAccount
    <3>3. QED BY <2>7, <3>1, <3>2 DEF BuildAccount
  <2>8. ASSUME NEW t \in Threads, Sign(t) PROVE TypeOK'
    BY <2>8 DEF Sign
  <2>9. ASSUME NEW t \in Threads, ZeroizeByte(t) PROVE TypeOK'
    <3>1. idx[t] < SeedLen => idx[t] + 1 \in Byte
      OBVIOUS
    <3>2. kept' \in Copy
      BY <2>9, Zenon DEF ZeroizeByte
    <3>3. idx' \in [Threads -> Byte] /\ pc' \in [Threads -> Place]
      BY <2>9, <3>1 DEF ZeroizeByte
    <3>4. QED BY <2>9, <3>2, <3>3 DEF ZeroizeByte
  <2>10. ASSUME NEW t \in Threads, SetClosed(t) PROVE TypeOK'
    BY <2>10 DEF SetClosed
  <2>11. CASE UNCHANGED vars
    BY <2>11 DEF vars
  <2>12. QED
    BY <2>1, <2>2, <2>3, <2>4, <2>5, <2>6, <2>7, <2>8, <2>9, <2>10, <2>11
       DEF Next, Step
<1>3. QED BY <1>1, <1>2, PTL DEF Spec

-----------------------------------------------------------------------------
\* close() marks the wallet closed only over a zeroized seed, whatever the
\* interleaving of closes, derivations and aborted calls.
THEOREM ZeroizedWhenClosed == Spec => []ClosedMeansZeroized
<1> USE WalletAssumption DEF WalletAssumption
<1>1. Init => ZeroizeProgress /\ ClosedMeansZeroized
  BY DEF Init, ZeroizeProgress, ClosedMeansZeroized
<1>2. TypeOK /\ TypeOK' /\ ZeroizeProgress /\ ClosedMeansZeroized /\ [Next]_vars
        => ZeroizeProgress' /\ ClosedMeansZeroized'
  <2> SUFFICES ASSUME TypeOK, ZeroizeProgress, ClosedMeansZeroized, [Next]_vars
               PROVE  ZeroizeProgress' /\ ClosedMeansZeroized'
    OBVIOUS
  <2> USE DEF TypeOK, ZeroizeProgress, ClosedMeansZeroized, Goto, Return,
              Byte, Copy, wallet, local
  <2>1. ASSUME NEW t \in Threads, Close(t)
        PROVE  ZeroizeProgress' /\ ClosedMeansZeroized'
    BY <2>1 DEF Close
  <2>2. ASSUME NEW t \in Threads, ZeroizeByte(t)
        PROVE  ZeroizeProgress' /\ ClosedMeansZeroized'
    <3>1. \A i \in Byte : kept'[i] => kept[i] /\ i # idx[t]
      BY <2>2 DEF ZeroizeByte
    <3>2. ClosedMeansZeroized'
      BY <2>2, <3>1 DEF ZeroizeByte
    <3>3. ASSUME NEW u \in Threads, u # t
          PROVE  /\ pc'[u] = "zeroize" => \A i \in 1..(idx'[u] - 1) : ~kept'[i]
                 /\ pc'[u] = "flag" => \A i \in Byte : ~kept'[i]
      <4>1. pc'[u] = pc[u] /\ idx'[u] = idx[u]
        BY <2>2, <3>3 DEF ZeroizeByte
      <4>2. QED BY <3>1, <4>1
    <3>4. CASE idx[t] < SeedLen
      <4>1. pc'[t] = "zeroize" /\ idx'[t] = idx[t] + 1
        BY <2>2, <3>4 DEF ZeroizeByte
      <4>2. \A i \in 1..(idx'[t] - 1) : ~kept'[i]
        BY <2>2, <3>1, <4>1 DEF ZeroizeByte
      <4>3. QED BY <3>2, <3>3, <4>1, <4>2
    <3>5. CASE ~(idx[t] < SeedLen)
      <4>1. pc'[t] = "flag" /\ idx[t] = SeedLen
        BY <2>2, <3>5 DEF ZeroizeByte
      <4>2. \A i \in Byte : ~kept'[i]
        BY <2>2, <3>1, <4>1 DEF ZeroizeByte
      <4>3. QED BY <3>2, <3>3, <4>1, <4>2
    <3>6. QED BY <3>4, <3>5
  <2>3. ASSUME NEW t \in Threads, SetClosed(t)
        PROVE  ZeroizeProgress' /\ ClosedMeansZeroized'
    BY <2>3 DEF SetClosed
  <2>4. ASSUME NEW t \in Threads, UNCHANGED <<kept, idx, closed>>,
               NEW p \in Place \ {"zeroize", "flag"}, Goto(t, p)
        PROVE  ZeroizeProgress' /\ ClosedMeansZeroized'
    BY <2>4 DEF Place
  <2>5. ASSUME NEW t \in Threads, Interrupt(t)
        PROVE  ZeroizeProgress' /\ ClosedMeansZeroized'
    BY <2>4, <2>5 DEF Interrupt, Place
  <2>6. ASSUME NEW t \in Threads, NEW sign \in BOOLEAN, Call(t, sign)
        PROVE  ZeroizeProgress' /\ ClosedMeansZeroized'
    BY <2>4, <2>6 DEF Call, Place
  <2>7. ASSUME NEW t \in Threads,
               SignGuard(t) \/ DeriveGuard(t) \/ TakeSeed(t) \/ BuildAccount(t) \/ Sign(t)
        PROVE  ZeroizeProgress' /\ ClosedMeansZeroized'
    BY <2>4, <2>7 DEF SignGuard, DeriveGuard, TakeSeed, BuildAccount, Sign, Place
  <2>8. CASE UNCHANGED vars
    BY <2>8 DEF vars
  <2>9. QED
    BY <2>1, <2>2, <2>3, <2>5, <2>6, <2>7, <2>8 DEF Next, Step
<1>3. QED BY <1>1, <1>2, TypeCorrect, PTL DEF Spec

-----------------------------------------------------------------------------
\* The phase is "open" exactly when nobody closes, closed or tried to.
LEMMA OpenPhase ==
    CurrentPhase = "open" <=> ~closed /\ ~halfClosed /\ \A t \in Threads : ~InClose(t)
<1>1. CASE closed
  BY <1>1 DEF CurrentPhase
<1>2. CASE ~closed /\ (halfClosed \/ \E t \in Threads : InClose(t))
  BY <1>2 DEF CurrentPhase
<1>3. CASE ~closed /\ ~(halfClosed \/ \E t \in Threads : InClose(t))
  BY <1>3 DEF CurrentPhase
<1>4. QED BY <1>1, <1>2, <1>3

\* The facts about phases survive every step; both properties of calls that
\* follow rest on them.
LEMMA PhaseInvariant == Spec => [](DamageExplained /\ SeenIsTrue)
<1> DEFINE Inv == DamageExplained /\ SeenIsTrue
<1>1. Init => Inv
  BY DEF Init, DamageExplained, SeenIsTrue, CurrentPhase, InClose
<1>2. TypeOK /\ Inv /\ [Next]_vars => Inv'
  <2> SUFFICES ASSUME TypeOK, Inv, [Next]_vars PROVE Inv'
    OBVIOUS
  <2>1. (CurrentPhase = "open")' <=>
           ~closed' /\ ~halfClosed' /\ \A t \in Threads : ~InClose(t)'
    BY OpenPhase DEF CurrentPhase, InClose
  <2> USE DEF TypeOK, Goto, Return, InClose, wallet, local
  <2>2. CurrentPhase = "open" => UNCHANGED kept
    BY OpenPhase DEF Next, Step, Call, SignGuard, DeriveGuard, TakeSeed,
       BuildAccount, Sign, Close, ZeroizeByte, SetClosed, Interrupt, vars
  <2>3. CurrentPhase # "open" => (CurrentPhase # "open")'
    <3>1. closed => closed'
      BY DEF Next, Step, Call, SignGuard, DeriveGuard, TakeSeed,
         BuildAccount, Sign, Close, ZeroizeByte, SetClosed, Interrupt, vars
    <3>2. halfClosed => halfClosed'
      BY DEF Next, Step, Call, SignGuard, DeriveGuard, TakeSeed,
         BuildAccount, Sign, Close, ZeroizeByte, SetClosed, Interrupt, vars
    <3>3. ASSUME NEW t \in Threads, InClose(t)
          PROVE  InClose(t)' \/ closed' \/ halfClosed'
      <4>1. UNCHANGED pc[t] \/ (InClose(t))' \/ SetClosed(t) \/ Interrupt(t)
        BY <3>3 DEF Next, Step, Call, SignGuard, DeriveGuard, TakeSeed,
           BuildAccount, Sign, Close, ZeroizeByte, SetClosed, Interrupt, vars
      <4>2. QED BY <3>3, <4>1 DEF SetClosed, Interrupt
    <3>4. QED BY <2>1, <3>1, <3>2, <3>3, OpenPhase
  <2>4. DamageExplained'
    BY <2>2, <2>3 DEF DamageExplained, Intact, Byte
  <2>5. (\E t \in Threads : Close(t)) => SeenIsTrue'
    BY DEF Close, SeenIsTrue
  <2>6. ASSUME CurrentPhase = "open", ~\E t \in Threads : Close(t)
        PROVE  (CurrentPhase = "open")'
    BY <2>1, <2>6, OpenPhase
       DEF Next, Step, Call, SignGuard, DeriveGuard, TakeSeed,
           BuildAccount, Sign, ZeroizeByte, SetClosed, Interrupt, vars
  <2>7. ASSUME NEW t \in Threads, NEW sign \in BOOLEAN, Call(t, sign)
        PROVE  SeenIsTrue'
    <3>1. CurrentPhase = "closed" => closed
      BY DEF CurrentPhase
    <3>2. ~\E u \in Threads : Close(u)
      BY <2>7 DEF Call, Close
    <3>3. QED BY <2>6, <2>7, <3>1, <3>2 DEF Call, SeenIsTrue
  <2>8. ASSUME UNCHANGED seen, closed => closed', ~\E t \in Threads : Close(t)
        PROVE  SeenIsTrue'
    BY <2>6, <2>8 DEF SeenIsTrue
  <2>9. SeenIsTrue'
    BY <2>5, <2>7, <2>8
       DEF Next, Step, SignGuard, DeriveGuard, TakeSeed,
           BuildAccount, Sign, ZeroizeByte, SetClosed, Interrupt, vars
  <2>10. QED BY <2>4, <2>9
<1>3. QED BY <1>1, <1>2, TypeCorrect, PTL DEF Spec

\* How a thread gets into a derivation and through it: by reading the flag as
\* FALSE, then by copying the seed as it is, then with its copy.  On the way no
\* call's view of the phase changes but to "closing".
Deriving == {"master", "build", "sign"}

LEMMA ThroughDerivation ==
    ASSUME TypeOK, [Next]_vars, NEW u \in Threads, pc'[u] \in Deriving
    PROVE  /\ seen'[u] # "closing" => seen'[u] = seen[u]
           /\ \/ pc[u] = "derive_guard" /\ pc'[u] = "master" /\ ~closed
              \/ pc[u] = "master" /\ pc'[u] = "build" /\ snap'[u] = kept
              \/ /\ pc[u] \in Deriving /\ snap'[u] = snap[u]
                 /\ pc[u] = "master" <=> pc'[u] = "master"
<1> USE DEF TypeOK, Deriving, Goto, Return, wallet, local
<1>1. CASE UNCHANGED vars
  BY <1>1 DEF vars
<1>2. ASSUME NEW t \in Threads, Close(t)
      PROVE  /\ pc'[u] = pc[u] /\ snap'[u] = snap[u]
             /\ seen'[u] # "closing" => seen'[u] = seen[u]
  BY <1>2 DEF Close
<1>3. ASSUME NEW t \in Threads, NEW sign \in BOOLEAN, Call(t, sign)
      PROVE  UNCHANGED <<pc[u], snap[u], seen[u]>>
  BY <1>3 DEF Call
<1>4. ASSUME NEW t \in Threads, t # u, Step(t) \/ Interrupt(t)
      PROVE  UNCHANGED <<pc[u], snap[u], seen[u]>>
  BY <1>4 DEF Step, SignGuard, DeriveGuard, TakeSeed, BuildAccount, Sign, ZeroizeByte,
              SetClosed, Interrupt
<1>5. CASE DeriveGuard(u) \/ TakeSeed(u) \/ BuildAccount(u)
  BY <1>5 DEF DeriveGuard, TakeSeed, BuildAccount
<1>6. ~(SignGuard(u) \/ Sign(u) \/ ZeroizeByte(u) \/ SetClosed(u) \/ Interrupt(u))
  BY DEF SignGuard, Sign, ZeroizeByte, SetClosed, Interrupt
<1> QED
  BY <1>1, <1>2, <1>3, <1>4, <1>5, <1>6 DEF Next, Step

\* A call that finds the wallet closed never reaches the seed.
THEOREM ClosedRefuses == Spec => []RefusesAfterClose
<1>1. Init => RefusesAfterClose
  BY DEF Init, RefusesAfterClose
<1>2. ASSUME TypeOK, SeenIsTrue, RefusesAfterClose, [Next]_vars
      PROVE  RefusesAfterClose'
  <2> SUFFICES ASSUME NEW u \in Threads, seen'[u] = "closed", pc'[u] \in Deriving
               PROVE  FALSE
    BY DEF RefusesAfterClose, Deriving
  <2>1. seen[u] = "closed" /\ (pc[u] \in Deriving \/ ~closed)
    BY <1>2, ThroughDerivation DEF Deriving
  <2> QED
    BY <1>2, <2>1 DEF SeenIsTrue, RefusesAfterClose, Deriving
<1> QED
  BY <1>1, <1>2, TypeCorrect, PhaseInvariant, PTL DEF Spec

\* A derivation no close() overlaps works from the whole seed.
THEOREM UndisturbedDerivation == Spec => []GenuineUnlessClosing
<1>1. Init => GenuineUnlessClosing
  BY DEF Init, GenuineUnlessClosing
<1>2. ASSUME TypeOK, DamageExplained, SeenIsTrue, GenuineUnlessClosing, [Next]_vars
      PROVE  GenuineUnlessClosing'
  <2> SUFFICES ASSUME NEW u \in Threads, pc'[u] \in {"build", "sign"}, seen'[u] = "open"
               PROVE  snap'[u] = Intact
    BY DEF GenuineUnlessClosing, Intact, Byte
  <2>1. /\ seen[u] = "open"
        /\ snap'[u] = kept \/ (pc[u] \in {"build", "sign"} /\ snap'[u] = snap[u])
    BY <1>2, ThroughDerivation DEF Deriving
  <2>2. kept = Intact
    BY <1>2, <2>1 DEF SeenIsTrue, DamageExplained
  <2> QED
    BY <1>2, <2>1, <2>2 DEF GenuineUnlessClosing
<1> QED
  BY <1>1, <1>2, TypeCorrect, PhaseInvariant, PTL DEF Spec

-----------------------------------------------------------------------------
\* A thread holds a copy of the seed only inside a derivation.
HoldsInside == \A t \in Threads : snap[t] # NoCopy => pc[t] \in {"build", "sign"}

LEMMA CopiesHeldInside == Spec => []HoldsInside
<1>1. Init => HoldsInside
  BY DEF Init, HoldsInside
<1>2. TypeOK /\ HoldsInside /\ [Next]_vars => HoldsInside'
  <2> SUFFICES ASSUME TypeOK, HoldsInside, [Next]_vars PROVE HoldsInside'
    OBVIOUS
  <2>1. QED
    BY DEF TypeOK, HoldsInside, Goto, Return, Next, Step, Call, SignGuard,
           DeriveGuard, TakeSeed, BuildAccount, Sign, Close, ZeroizeByte,
           SetClosed, Interrupt, vars
<1>3. QED BY <1>1, <1>2, TypeCorrect, PTL DEF Spec

\* What a derivation copies while the wallet is in each phase.
LEMMA CopyOfSeed ==
    ASSUME TypeOK, DamageExplained, ClosedMeansZeroized
    PROVE  /\ kept # NoCopy
           /\ CurrentPhase = "open" => kept = Intact
           /\ CurrentPhase = "closed" => kept # Intact
<1> USE WalletAssumption DEF WalletAssumption, Byte
<1>1. 1 \in Byte
  OBVIOUS
<1>2. kept # NoCopy
  <2>1. DOMAIN kept = Byte
    BY DEF TypeOK, Copy
  <2>2. DOMAIN NoCopy = {}
    BY DEF NoCopy
  <2>3. QED BY <1>1, <2>1, <2>2
<1>3. CurrentPhase = "closed" => kept # Intact
  <2>1. CurrentPhase = "closed" => closed
    BY DEF CurrentPhase
  <2>2. Intact[1]
    BY <1>1 DEF Intact
  <2>3. closed => ~kept[1]
    BY <1>1 DEF ClosedMeansZeroized
  <2>4. QED BY <2>1, <2>2, <2>3
<1>4. QED BY <1>2, <1>3 DEF DamageExplained

LEMMA SamePhase ==
    ASSUME UNCHANGED closed,
           \/ halfClosed' /\ (halfClosed \/ \E t \in Threads : InClose(t))
           \/ /\ UNCHANGED halfClosed
              /\ \A t \in Threads : InClose(t)' <=> InClose(t)
    PROVE  UNCHANGED CurrentPhase
BY DEF CurrentPhase

LEMMA TakenUpdate ==
    ASSUME NEW t \in Threads, NEW p, NEW c, TypeOK, Goto(t, p),
           snap' = [snap EXCEPT ![t] = c]
    PROVE  Taken' = [Taken EXCEPT ![t] = IF p = "master" THEN "admitted" ELSE Use(c)]
BY DEF Taken, Use, Goto, TypeOK

\* The wallet implements Custody, fairness left aside: its threads see one
\* phase after another, none is let to the seed of a closed wallet, and no call
\* works from the seed in a way the phase rules out.
THEOREM ImplementsCustody == Spec => Custodian!Init /\ [][Custodian!Next]_(Custodian!vars)
<1> DEFINE Inv == /\ TypeOK /\ DamageExplained /\ SeenIsTrue
                  /\ ClosedMeansZeroized /\ HoldsInside
<1> USE DEF Goto, Return, InClose, wallet, local
<1>1. Init => Custodian!Init
  BY DEF Init, Custodian!Init, CurrentPhase, Taken, Use
<1>2. Inv /\ [Next]_vars => [Custodian!Next]_(Custodian!vars)
  <2> SUFFICES ASSUME Inv, [Next]_vars PROVE [Custodian!Next]_(Custodian!vars)
    OBVIOUS
  <2>1. UNCHANGED <<CurrentPhase, seen, Taken>> => [Custodian!Next]_(Custodian!vars)
    BY DEF Custodian!vars
  <2>2. ASSUME UNCHANGED snap,
               \A u \in Threads : (pc'[u] = "master") <=> (pc[u] = "master")
        PROVE  UNCHANGED Taken
    BY <2>2 DEF Taken, Use
  <2>3. ASSUME NEW t \in Threads, pc[t] \notin Deriving
        PROVE  Taken[t] = "nothing"
    BY <2>3 DEF HoldsInside, Taken, Use, Deriving
  <2>4. ASSUME NEW t \in Threads, pc[t] = "master"
        PROVE  Taken[t] = "admitted"
    BY <2>4 DEF Taken
  <2>5. ASSUME NEW t \in Threads, UNCHANGED <<CurrentPhase, seen>>, Return(t)
        PROVE  [Custodian!Next]_(Custodian!vars)
    <3>1. Taken' = [Taken EXCEPT ![t] = "nothing"]
      BY <2>5, TakenUpdate DEF Use
    <3>2. CASE Taken[t] = "nothing"
      <4>1. UNCHANGED Taken
        BY <3>1, <3>2 DEF Taken
      <4>2. QED BY <2>1, <2>5, <4>1
    <3>3. CASE Taken[t] # "nothing"
      <4>1. Custodian!Release(t)
        BY <2>5, <3>1, <3>3 DEF Custodian!Release
      <4>2. QED BY <4>1 DEF Custodian!Next
    <3>4. QED BY <3>2, <3>3
  <2>6. ASSUME NEW t \in Threads, NEW sign \in BOOLEAN, Call(t, sign)
        PROVE  [Custodian!Next]_(Custodian!vars)
    <3>1. UNCHANGED CurrentPhase
      BY <2>6, SamePhase DEF Call, TypeOK
    <3>2. Taken[t] = "nothing"
      BY <2>3, <2>6 DEF Call, Deriving
    <3>3. UNCHANGED Taken
      BY <2>2, <2>6 DEF Call, TypeOK
    <3>4. Custodian!Call(t)
      BY <2>6, <3>1, <3>2, <3>3 DEF Call, Custodian!Call
    <3>5. QED BY <3>4 DEF Custodian!Next
  <2>7. ASSUME NEW t \in Threads, SignGuard(t)
        PROVE  [Custodian!Next]_(Custodian!vars)
    <3>1. UNCHANGED CurrentPhase
      BY <2>7, SamePhase DEF SignGuard, TypeOK
    <3>2. UNCHANGED Taken
      BY <2>2, <2>7 DEF SignGuard, TypeOK
    <3>3. QED BY <2>1, <2>7, <3>1, <3>2 DEF SignGuard
  <2>8. ASSUME NEW t \in Threads, DeriveGuard(t)
        PROVE  [Custodian!Next]_(Custodian!vars)
    <3>1. UNCHANGED CurrentPhase
      BY <2>8, SamePhase DEF DeriveGuard, TypeOK
    <3>2. CASE closed
      <4>1. UNCHANGED Taken
        BY <2>2, <2>8, <3>2 DEF DeriveGuard, TypeOK
      <4>2. QED BY <2>1, <2>8, <3>1, <4>1 DEF DeriveGuard
    <3>3. CASE ~closed
      <4>1. snap' = [snap EXCEPT ![t] = snap[t]] /\ Goto(t, "master")
        BY <2>8, <3>3 DEF DeriveGuard, TypeOK
      <4>2. Taken' = [Taken EXCEPT ![t] = "admitted"]
        BY <4>1, TakenUpdate
      <4>3. Taken[t] = "nothing"
        BY <2>3, <2>8 DEF DeriveGuard, Deriving
      <4>4. CurrentPhase # "closed" /\ seen[t] # "closed"
        BY <3>3 DEF CurrentPhase, SeenIsTrue
      <4>5. Custodian!Admit(t)
        BY <2>8, <3>1, <4>2, <4>3, <4>4 DEF DeriveGuard, Custodian!Admit
      <4>6. QED BY <4>5 DEF Custodian!Next
    <3>4. QED BY <3>2, <3>3
  <2>9. ASSUME NEW t \in Threads, TakeSeed(t)
        PROVE  [Custodian!Next]_(Custodian!vars)
    <3>1. UNCHANGED CurrentPhase
      BY <2>9, SamePhase DEF TakeSeed, TypeOK
    <3>2. Taken' = [Taken EXCEPT ![t] = Use(kept)]
      BY <2>9, TakenUpdate DEF TakeSeed
    <3>3. CurrentPhase \in {"open", "closing", "closed"}
      BY DEF CurrentPhase
    <3>4. Use(kept) \in Custodian!Seed(CurrentPhase)
      BY <3>3, CopyOfSeed DEF Use, Custodian!Seed
    <3>5. Taken[t] = "admitted"
      BY <2>4, <2>9 DEF TakeSeed
    <3>6. Custodian!Take(t)
      BY <2>9, <3>1, <3>2, <3>4, <3>5 DEF TakeSeed, Custodian!Take
    <3>7. QED BY <3>6 DEF Custodian!Next
  <2>10. ASSUME NEW t \in Threads, BuildAccount(t) \/ Sign(t)
         PROVE  [Custodian!Next]_(Custodian!vars)
    <3>1. UNCHANGED CurrentPhase
      BY <2>10, SamePhase DEF BuildAccount, Sign, TypeOK
    <3>2. CASE Return(t)
      BY <2>5, <2>10, <3>1, <3>2 DEF BuildAccount, Sign
    <3>3. CASE pc[t] = "build" /\ Goto(t, "sign") /\ UNCHANGED snap
      <4>1. UNCHANGED Taken
        BY <2>2, <3>3 DEF TypeOK
      <4>2. QED BY <2>1, <2>10, <3>1, <4>1 DEF BuildAccount, Sign
    <3>4. QED BY <2>10, <3>2, <3>3 DEF BuildAccount, Sign
  <2>11. ASSUME NEW t \in Threads, Close(t)
         PROVE  [Custodian!Next]_(Custodian!vars)
    <3>1. CurrentPhase' = IF CurrentPhase = "open" THEN "closing" ELSE CurrentPhase
      <4>1. (\E u \in Threads : InClose(u))'
        BY <2>11 DEF Close, TypeOK
      <4>2. CASE closed
        BY <2>11, <4>2 DEF Close, CurrentPhase
      <4>3. CASE ~closed
        BY <2>11, <4>1, <4>3 DEF Close, CurrentPhase
      <4>4. QED BY <4>2, <4>3
    <3>2. UNCHANGED Taken
      BY <2>2, <2>11 DEF Close, TypeOK
    <3>3. Custodian!BeginClose
      BY <2>11, <3>1, <3>2 DEF Close, Custodian!BeginClose
    <3>4. QED BY <3>3 DEF Custodian!Next
  <2>12. ASSUME NEW t \in Threads, ZeroizeByte(t)
         PROVE  [Custodian!Next]_(Custodian!vars)
    <3>1. UNCHANGED CurrentPhase
      BY <2>12, SamePhase DEF ZeroizeByte, TypeOK
    <3>2. UNCHANGED Taken
      BY <2>2, <2>12 DEF ZeroizeByte, TypeOK
    <3>3. QED BY <2>1, <2>12, <3>1, <3>2 DEF ZeroizeByte
  <2>13. ASSUME NEW t \in Threads, SetClosed(t)
         PROVE  [Custodian!Next]_(Custodian!vars)
    <3>1. CurrentPhase' = "closed"
      BY <2>13 DEF SetClosed, CurrentPhase
    <3>2. CurrentPhase \in {"closing", "closed"}
      BY <2>13 DEF SetClosed, CurrentPhase
    <3>3. UNCHANGED <<seen, Taken>>
      BY <2>2, <2>13 DEF SetClosed, TypeOK
    <3>4. CASE CurrentPhase = "closed"
      BY <2>1, <3>1, <3>3, <3>4
    <3>5. CASE CurrentPhase = "closing"
      <4>1. Custodian!EndClose
        BY <3>1, <3>3, <3>5 DEF Custodian!EndClose
      <4>2. QED BY <4>1 DEF Custodian!Next
    <3>6. QED BY <3>2, <3>4, <3>5
  <2>14. ASSUME NEW t \in Threads, Interrupt(t)
         PROVE  [Custodian!Next]_(Custodian!vars)
    <3>1. UNCHANGED CurrentPhase
      <4>1. CASE InClose(t)
        BY <2>14, <4>1, SamePhase DEF Interrupt, TypeOK
      <4>2. CASE ~InClose(t)
        <5>1. \A u \in Threads : InClose(u)' <=> InClose(u)
          BY <2>14, <4>2 DEF Interrupt, TypeOK
        <5>2. QED BY <2>14, <4>2, <5>1, SamePhase DEF Interrupt, TypeOK
      <4>3. QED BY <4>1, <4>2
    <3>2. QED BY <2>5, <2>14, <3>1 DEF Interrupt
  <2>15. CASE UNCHANGED vars
    <3>1. UNCHANGED CurrentPhase
      BY <2>15, SamePhase DEF vars
    <3>2. QED BY <2>1, <2>2, <2>15, <3>1 DEF vars
  <2>16. QED
    BY <2>6, <2>7, <2>8, <2>9, <2>10, <2>11, <2>12, <2>13, <2>14, <2>15 DEF Next, Step
<1>3. QED
  BY <1>1, <1>2, TypeCorrect, PhaseInvariant, ZeroizedWhenClosed, CopiesHeldInside,
     PTL DEF Spec

-----------------------------------------------------------------------------
\* How many steps of its own a call has before it at most.
StepsLeft(t) ==
    CASE pc[t] = "idle"         -> 0
      [] pc[t] = "sign_guard"   -> 5
      [] pc[t] = "derive_guard" -> 4
      [] pc[t] = "master"       -> 3
      [] pc[t] = "build"        -> 2
      [] pc[t] = "sign"         -> 1
      [] pc[t] = "zeroize"      -> SeedLen + 2 - idx[t]
      [] pc[t] = "flag"         -> 1

RunsDown ==
    \A t \in Threads :
        pc[t] # "idle" =>
            \/ StepsLeft(t)' < StepsLeft(t)
            \/ UNCHANGED <<pc[t], idx[t], signing[t], snap[t]>>

\* Every step inside a call brings it nearer its end, and no step of another
\* thread sets it back: a close() is over after SeedLen + 1 steps of its own, a
\* signature after 5, whatever the others do.  (What CloseCompletes and
\* CopiesDieOut need besides is that each thread gets its turn.)
THEOREM CallsRunDown ==
    Spec => /\ [](\A t \in Threads : StepsLeft(t) \in 0..(SeedLen + 5))
            /\ [][RunsDown]_vars
<1> USE WalletAssumption DEF WalletAssumption, Byte
<1>1. ASSUME TypeOK PROVE \A t \in Threads : StepsLeft(t) \in 0..(SeedLen + 5)
  BY <1>1 DEF TypeOK, Place, StepsLeft
<1>2. ASSUME TypeOK, TypeOK', [Next]_vars PROVE RunsDown
  <2> SUFFICES ASSUME NEW u \in Threads, pc[u] # "idle"
               PROVE  \/ StepsLeft(u)' < StepsLeft(u)
                      \/ UNCHANGED <<pc[u], idx[u], signing[u], snap[u]>>
    BY DEF RunsDown
  <2> USE <1>2 DEF TypeOK, Goto, Return, wallet, local
  <2>1. ASSUME NEW t \in Threads, Step(t) \/ Interrupt(t), t # u
        PROVE  UNCHANGED <<pc[u], idx[u], signing[u], snap[u]>>
    BY <2>1 DEF Step, SignGuard, DeriveGuard, TakeSeed, BuildAccount, Sign, ZeroizeByte,
                SetClosed, Interrupt
  <2>2. ASSUME NEW t \in Threads, NEW sign \in BOOLEAN, Call(t, sign)
        PROVE  UNCHANGED <<pc[u], idx[u], signing[u], snap[u]>>
    BY <2>2 DEF Call
  <2>3. ASSUME NEW t \in Threads, Close(t)
        PROVE  UNCHANGED <<pc[u], idx[u], signing[u], snap[u]>>
    BY <2>3 DEF Close
  <2>4. CASE SignGuard(u) \/ DeriveGuard(u) \/ TakeSeed(u) \/ BuildAccount(u) \/ Sign(u)
    BY <2>4 DEF SignGuard, DeriveGuard, TakeSeed, BuildAccount, Sign, StepsLeft
  <2>5. CASE ZeroizeByte(u)
    BY <2>5 DEF ZeroizeByte, StepsLeft
  <2>6. CASE SetClosed(u)
    BY <2>6 DEF SetClosed, StepsLeft
  <2>7. CASE Interrupt(u)
    <3>1. StepsLeft(u)' = 0
      BY <2>7 DEF Interrupt, StepsLeft
    <3>2. StepsLeft(u) \in Nat \ {0}
      BY DEF StepsLeft, Place
    <3> QED
      BY <3>1, <3>2
  <2>8. CASE UNCHANGED vars
    BY <2>8 DEF vars
  <2> QED
    BY <2>1, <2>2, <2>3, <2>4, <2>5, <2>6, <2>7, <2>8 DEF Next, Step
<1> QED
  BY <1>1, <1>2, TypeCorrect, PTL DEF Spec
=============================================================================
