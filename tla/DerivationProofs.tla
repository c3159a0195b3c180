-------------------------- MODULE DerivationProofs --------------------------
(***************************************************************************)
(* Proofs about Derivation for any group order, seeds, texts and bounds.   *)
(* Every key in a caller's hands or in a walk is KeyOK, which only one     *)
(* derivation step after another can show; and a walk has derived exactly  *)
(* the part of its path that is no longer to do.  The last part is about   *)
(* the export in base 58.                                                  *)
(***************************************************************************)
EXTENDS Derivation, Rows, SequenceTheorems, TLAPS

Component == Int \X BOOLEAN

Key == [sk : Scalars, cc : ChainCodes \cup {Zeros}, depth : Nat, pfp : Scalars,
        child : 0..(2 * HARDENED_OFFSET - 1), seed : Seeds, path : Seq(Component),
        via : {"seed", "private", "public"}, intact : BOOLEAN]

\* What one derivation step makes of a key, and no owner can undo.
KeyOK(k) ==
    /\ k \in Key
    /\ k.depth = Len(k.path)
    /\ k.path # <<>> =>
          /\ k.child = ChildNumber(Last(k.path)[1], Last(k.path)[2])
          /\ k.via = "private" <=> Last(k.path)[2]
          /\ Usable(k.pfp)
          /\ k.intact => Usable(k.sk)

Walk == [busy : {TRUE}, key : Key, todo : Seq(Component),
         meaning : Seq(Component), parsed : BOOLEAN]

\* path \o todo = meaning, by places.
Covers(path, todo, meaning) ==
    /\ Len(meaning) = Len(path) + Len(todo)
    /\ \A i \in 1..Len(path) : meaning[i] = path[i]
    /\ \A i \in 1..Len(todo) : meaning[Len(path) + i] = todo[i]

WalkOK(w) ==
    /\ w \in Walk
    /\ KeyOK(w.key)
    /\ Covers(w.key.path, w.todo, w.meaning)
    /\ w.parsed => \A i \in 1..Len(w.todo) : w.todo[i][1] \in 0..(HARDENED_OFFSET - 1)

IInv ==
    /\ keys \in Seq(Key)
    /\ \A i \in DOMAIN keys : KeyOK(keys[i])
    /\ walk = NoWalk \/ WalkOK(walk)

-----------------------------------------------------------------------------
LEMMA Remainder == \A a \in Nat : a % Order \in 0..(Order - 1)
BY DerivationAssumption DEF DerivationAssumption

LEMMA MasterIsOK ==
    ASSUME NEW seed \in Seeds, NEW ans \in Answers
    PROVE  KeyOK(MasterKey(seed, ans)) /\ MasterKey(seed, ans).path = <<>>
BY DerivationAssumption
   DEF DerivationAssumption, KeyOK, Key, MasterKey, Answers, Scalars, Component

LEMMA LastOfAppend ==
    ASSUME NEW path \in Seq(Component), NEW c \in Component
    PROVE  /\ Append(path, c) \in Seq(Component)
           /\ Len(Append(path, c)) = Len(path) + 1
           /\ Append(path, c) # <<>>
           /\ Last(Append(path, c)) = c
BY DEF Last

\* A derivation that is not refused makes a child that is OK.
LEMMA ChildIsOK ==
    ASSUME NEW k, KeyOK(k), NEW index \in Int, NEW hardened \in BOOLEAN,
           NEW ans \in Answers,
           EarlyError(k, index, hardened) = "ok", LateError(k, ans) = "ok"
    PROVE  /\ KeyOK(Child(k, index, hardened, ans))
           /\ Child(k, index, hardened, ans).path = Append(k.path, <<index, hardened>>)
<1> DEFINE c == Child(k, index, hardened, ans)
<1>1. index \in 0..(HARDENED_OFFSET - 1)
  BY DEF EarlyError
<1>2. ans.IL \in Nat /\ k.sk \in Nat /\ ans.IL + k.sk \in Nat
  <2>1. k \in Key
    BY Zenon DEF KeyOK
  <2>2. ans.IL \in Nat /\ k.sk \in Nat
    BY <2>1, DerivationAssumption DEF DerivationAssumption, Answers, Scalars, Key
  <2> QED
    BY <2>2
<1>3. c.sk \in ValidScalars
  <2>1. c.sk = (ans.IL + k.sk) % Order
    BY DEF Child
  <2>2. c.sk # 0
    BY <2>1, Zenon DEF LateError
  <2>3. c.sk \in 0..(Order - 1)
    BY <1>2, <2>1, Remainder, Zenon
  <2> QED
    BY <2>2, <2>3, DerivationAssumption DEF DerivationAssumption, ValidScalars
<1>4. Usable(k.sk)
  BY DEF LateError, FingerprintError
<1>5. /\ c.path \in Seq(Component) /\ c.path # <<>>
      /\ Len(c.path) = Len(k.path) + 1 /\ Last(c.path) = <<index, hardened>>
  BY LastOfAppend DEF Child, KeyOK, Key, Component
<1>6. c.via = "private" <=> hardened
  BY <1>1, DerivationAssumption DEF DerivationAssumption, Child, Via, ChildNumber
<1>7. c \in Key
  <2>1. /\ ChildNumber(index, hardened) \in 0..(2 * HARDENED_OFFSET - 1)
        /\ Via(ChildNumber(index, hardened)) \in {"private", "public"}
    BY <1>1, DerivationAssumption DEF DerivationAssumption, ChildNumber, Via
  <2>2. c.sk \in Scalars
    BY <1>3, DerivationAssumption DEF DerivationAssumption, ValidScalars, Scalars
  <2>3. c.path \in Seq(Component)
    BY <1>5
  <2> QED
    BY <2>1, <2>2, <2>3 DEF Child, Key, KeyOK, Answers
<1> QED
  BY <1>3, <1>4, <1>5, <1>6, <1>7 DEF KeyOK, Key, Child, Usable

LEMMA HandOverOK ==
    ASSUME IInv, NEW k, KeyOK(k), HandOver(k)
    PROVE  /\ keys' \in Seq(Key)
           /\ \A i \in DOMAIN keys' : KeyOK(keys'[i])
BY DEF IInv, HandOver, KeyOK

LEMMA WalkBegins ==
    ASSUME NEW seed \in Seeds, NEW indices \in Seq(Component), NEW parsed \in BOOLEAN,
           parsed => \A i \in 1..Len(indices) : indices[i][1] \in 0..(HARDENED_OFFSET - 1),
           NEW meaning, meaning = indices,
           StartWalk(seed, indices, meaning, parsed)
    PROVE  WalkOK(walk') /\ UNCHANGED keys
<1>1. PICK ans \in Answers :
         walk' = [busy |-> TRUE, key |-> MasterKey(seed, ans), todo |-> indices,
                  meaning |-> meaning, parsed |-> parsed]
  BY DEF StartWalk
<1>2. KeyOK(MasterKey(seed, ans)) /\ MasterKey(seed, ans).path = <<>>
  BY MasterIsOK
<1>3. MasterKey(seed, ans) \in Key
  BY <1>2 DEF KeyOK
<1>4. walk' \in Walk
  BY <1>1, <1>3 DEF Walk
<1>5. Covers(walk'.key.path, walk'.todo, walk'.meaning)
  BY <1>1, <1>2 DEF Covers
<1> QED
  BY <1>1, <1>2, <1>4, <1>5 DEF WalkOK, StartWalk

LEMMA CoversMore ==
    ASSUME NEW path \in Seq(Component), NEW todo \in Seq(Component), todo # <<>>,
           NEW meaning \in Seq(Component), Covers(path, todo, meaning)
    PROVE  Covers(Append(path, Head(todo)), Tail(todo), meaning)
<1> DEFINE path2 == Append(path, Head(todo))
           todo2 == Tail(todo)
<1>1. Len(path) \in Nat /\ Len(todo) \in Nat \ {0} /\ Head(todo) = todo[1]
  OBVIOUS
<1>2. /\ Len(path2) = Len(path) + 1 /\ path2[Len(path) + 1] = todo[1]
      /\ \A i \in 1..Len(path) : path2[i] = path[i]
  BY <1>1
<1>3. Len(todo2) = Len(todo) - 1 /\ \A i \in 1..Len(todo2) : todo2[i] = todo[i + 1]
  BY <1>1
<1>4. Len(meaning) = Len(path2) + Len(todo2)
  BY <1>1, <1>2, <1>3 DEF Covers
<1>5. ASSUME NEW i \in 1..Len(path2) PROVE meaning[i] = path2[i]
  <2>1. meaning[Len(path) + 1] = todo[1]
    BY <1>1 DEF Covers
  <2>2. i \in 1..Len(path) \/ i = Len(path) + 1
    BY <1>1, <1>2
  <2> QED
    BY <1>2, <2>1, <2>2 DEF Covers
<1>6. ASSUME NEW i \in 1..Len(todo2) PROVE meaning[Len(path2) + i] = todo2[i]
  <2>1. i + 1 \in 1..Len(todo) /\ Len(path2) + i = Len(path) + (i + 1)
    BY <1>1, <1>2, <1>3
  <2>2. meaning[Len(path) + (i + 1)] = todo[i + 1]
    BY <2>1 DEF Covers
  <2> QED
    BY <1>3, <2>1, <2>2
<1> QED
  BY <1>4, <1>5, <1>6 DEF Covers

\* One level down, the next component moves from what is to do to the path.
LEMMA WalkGoesOn ==
    ASSUME NEW w, WalkOK(w), w.todo # <<>>, NEW child, KeyOK(child),
           child.path = Append(w.key.path, Head(w.todo))
    PROVE  WalkOK([w EXCEPT !.key = child, !.todo = Tail(@)])
<1> DEFINE v == [w EXCEPT !.key = child, !.todo = Tail(@)]
           path == w.key.path
<1>1. /\ w.todo \in Seq(Component) /\ w.meaning \in Seq(Component)
      /\ path \in Seq(Component) /\ w.parsed \in BOOLEAN /\ w \in Walk /\ child \in Key
  BY DEF WalkOK, Walk, Key, KeyOK
<1>2. Tail(w.todo) \in Seq(Component)
  BY <1>1
<1>3. /\ v.key = child /\ v.todo = Tail(w.todo)
      /\ v.meaning = w.meaning /\ v.parsed = w.parsed
  <2>1. DOMAIN w = {"busy", "key", "todo", "meaning", "parsed"}
    BY <1>1 DEF Walk
  <2> QED
    BY <2>1
<1>4. v \in Walk
  BY <1>1, <1>2 DEF Walk
<1>5. Covers(Append(path, Head(w.todo)), Tail(w.todo), w.meaning)
  BY <1>1, CoversMore DEF WalkOK
<1>6. v.parsed => \A i \in 1..Len(v.todo) : v.todo[i][1] \in 0..(HARDENED_OFFSET - 1)
  <2>1. \A i \in 1..Len(Tail(w.todo)) : i + 1 \in 1..Len(w.todo) /\ Tail(w.todo)[i] = w.todo[i + 1]
    BY <1>1
  <2> QED
    BY <1>3, <2>1 DEF WalkOK
<1> QED
  BY <1>3, <1>4, <1>5, <1>6 DEF WalkOK

\* A text parse() accepts has indices in range, and they mean what they say.
LEMMA ParsedIndices ==
    ASSUME NEW text \in Texts, Parses(text)
    PROVE  /\ Indices(text) \in Seq(Component)
           /\ Meaning(text) = Indices(text)
           /\ \A i \in 1..Len(Indices(text)) :
                Indices(text)[i][1] \in 0..(HARDENED_OFFSET - 1)
<1>1. text.parts \in Seq([digits : Int, marks : STRING])
  BY DerivationAssumption DEF DerivationAssumption
<1>2. \A i \in DOMAIN text.parts : text.parts[i].digits \in 0..(HARDENED_OFFSET - 1)
  <2>1. CASE text.prefix = "m/"
    BY <2>1 DEF Parses
  <2>2. CASE text.prefix # "m/"
    BY <2>2, DerivationAssumption DEF DerivationAssumption
  <2> QED
    BY <2>1, <2>2
<1>3. Meaning(text) = Indices(text)
  BY DEF Meaning, Indices, Hardened
<1>4. /\ Indices(text) = [i \in 1..Len(text.parts) |->
                            <<text.parts[i].digits, Hardened(text.parts[i])>>]
      /\ Len(text.parts) \in Nat
  BY <1>1 DEF Indices
<1>5. ASSUME NEW i \in 1..Len(text.parts)
      PROVE  <<text.parts[i].digits, Hardened(text.parts[i])>> \in Component
  <2>1. text.parts[i] \in [digits : Int, marks : STRING]
    <3> DEFINE Part == [digits : Int, marks : STRING]
    <3>1. text.parts \in Seq(Part)
      BY <1>1
    <3> HIDE DEF Part
    <3>2. text.parts[i] \in Part
      BY <3>1
    <3> QED
      BY <3>2 DEF Part
  <2>2. text.parts[i].digits \in Int
    BY <2>1
  <2>3. Hardened(text.parts[i]) \in BOOLEAN
    BY DEF Hardened
  <2> QED
    BY <2>2, <2>3 DEF Component
<1>6. Indices(text) \in Seq(Component) /\ Len(Indices(text)) = Len(text.parts)
  BY <1>4, <1>5
<1> QED
  BY <1>1, <1>2, <1>3, <1>4, <1>6

\* Once nothing is left to do, the key has the path the caller meant.
LEMMA WalkEnds ==
    ASSUME NEW w, WalkOK(w), w.todo = <<>>
    PROVE  [w.key EXCEPT !.path = w.meaning] = w.key
<1>1. w.key.path \in Seq(Component) /\ w.meaning \in Seq(Component) /\ w.key \in Key
  BY DEF WalkOK, Walk, Key
<1>2. Len(w.meaning) = Len(w.key.path)
  BY <1>1 DEF WalkOK, Covers
<1>3. \A i \in 1..Len(w.key.path) : w.meaning[i] = w.key.path[i]
  BY DEF WalkOK, Covers
<1>4. w.meaning = w.key.path
  BY <1>1, <1>2, <1>3
<1> QED
  BY <1>1, <1>4 DEF Key

-----------------------------------------------------------------------------
LEMMA Initially == Init => IInv
BY DEF Init, IInv

LEMMA BusyIsOK == IInv /\ walk.busy => WalkOK(walk)
<1>1. NoWalk.busy = FALSE
  BY DEF NoWalk
<1> QED
  BY <1>1, Zenon DEF IInv

LEMMA Inductive == IInv /\ [Next]_vars => IInv'
<1> SUFFICES ASSUME IInv, [Next]_vars PROVE IInv'
  OBVIOUS
<1>1. ASSUME NEW seed \in Seeds, Master(seed) PROVE IInv'
  BY <1>1, MasterIsOK, HandOverOK DEF Master, IInv
<1>2. ASSUME NEW i \in DOMAIN keys, NEW index \in -1..HARDENED_OFFSET,
             NEW hardened \in BOOLEAN, Derive(i, index, hardened)
      PROVE  IInv'
  <2>1. KeyOK(keys[i]) /\ index \in Int /\ UNCHANGED walk
    BY <1>2, DerivationAssumption DEF DerivationAssumption, IInv, Derive
  <2>2. CASE UNCHANGED keys
    BY <2>1, <2>2 DEF IInv
  <2>3. CASE ~UNCHANGED keys
    <3>1. PICK ans \in Answers :
             /\ EarlyError(keys[i], index, hardened) = "ok"
             /\ LateError(keys[i], ans) = "ok"
             /\ HandOver(Child(keys[i], index, hardened, ans))
      BY <1>2, <2>3, Zenon DEF Derive, DeriveChild
    <3>2. KeyOK(Child(keys[i], index, hardened, ans))
      BY <2>1, <3>1, ChildIsOK
    <3> QED
      BY <2>1, <3>1, <3>2, HandOverOK DEF IInv
  <2> QED
    BY <2>2, <2>3
<1>3. ASSUME NEW i \in DOMAIN keys, Zeroize(i) PROVE IInv'
  <2>1. KeyOK(keys[i]) /\ keys[i] \in Key /\ keys \in Seq(Key)
    BY DEF IInv, KeyOK
  <2>2. PICK k :
           /\ keys' = [keys EXCEPT ![i] = k]
           /\ \/ k = [keys[i] EXCEPT !.sk = 0, !.intact = FALSE]
              \/ k = [keys[i] EXCEPT !.cc = Zeros, !.intact = FALSE]
    BY <1>3, <2>1 DEF Zeroize, Key
  <2>3. k \in Key
    <3>1. 0 \in Scalars
      BY DerivationAssumption DEF DerivationAssumption, Scalars
    <3> QED
      BY <2>1, <2>2, <3>1 DEF Key
  <2>4. /\ k.intact = FALSE /\ k.path = keys[i].path /\ k.depth = keys[i].depth
        /\ k.child = keys[i].child /\ k.via = keys[i].via /\ k.pfp = keys[i].pfp
    BY <2>1, <2>2 DEF Key
  <2>5. KeyOK(k)
    BY <2>1, <2>3, <2>4 DEF KeyOK
  <2>6. keys' \in Seq(Key) /\ \A j \in DOMAIN keys' : keys'[j] = keys[j] \/ keys'[j] = k
    BY <2>1, <2>2, <2>3
  <2>7. DOMAIN keys' = DOMAIN keys /\ UNCHANGED walk
    BY <1>3, <2>1, <2>2 DEF Zeroize
  <2> QED
    BY <2>5, <2>6, <2>7 DEF IInv
<1>4. ASSUME NEW seed \in Seeds, NEW indices \in DirectPaths, StartDirect(seed, indices)
      PROVE  IInv'
  <2>1. indices \in Seq(Component)
    BY DerivationAssumption DEF DerivationAssumption, Component
  <2>2. WalkOK(walk') /\ UNCHANGED keys
    BY <1>4, <2>1, WalkBegins DEF StartDirect
  <2> QED
    BY <2>2 DEF IInv
<1>5. ASSUME NEW seed \in Seeds, NEW text \in Texts, StartParsed(seed, text)
      PROVE  IInv'
  <2>1. WalkOK(walk') /\ UNCHANGED keys
    BY <1>5, ParsedIndices, WalkBegins DEF StartParsed
  <2> QED
    BY <2>1 DEF IInv
<1>6. ASSUME WalkStep PROVE IInv'
  <2>1. WalkOK(walk) /\ walk.todo # <<>> /\ UNCHANGED keys
    <3>1. walk.busy /\ walk.todo # <<>>
      BY <1>6, Zenon DEF WalkStep
    <3>2. UNCHANGED keys
      BY <1>6, Zenon DEF WalkStep, DeriveChild
    <3> QED
      BY <3>1, <3>2, BusyIsOK
  <2>2. CASE walk' = NoWalk
    BY <2>1, <2>2 DEF IInv
  <2>3. CASE walk' # NoWalk
    <3> DEFINE index == Head(walk.todo)[1]
               hardened == Head(walk.todo)[2]
    <3>1. PICK ans \in Answers :
             /\ EarlyError(walk.key, index, hardened) = "ok"
             /\ LateError(walk.key, ans) = "ok"
             /\ walk' = [walk EXCEPT !.key = Child(walk.key, index, hardened, ans),
                                     !.todo = Tail(@)]
      BY <1>6, <2>3, Zenon DEF WalkStep, DeriveChild
    <3>2. Head(walk.todo) \in Component /\ KeyOK(walk.key)
      BY <2>1 DEF WalkOK, Walk
    <3>3. index \in Int /\ hardened \in BOOLEAN /\ <<index, hardened>> = Head(walk.todo)
      BY <3>2 DEF Component
    <3>4. /\ KeyOK(Child(walk.key, index, hardened, ans))
          /\ Child(walk.key, index, hardened, ans).path
               = Append(walk.key.path, Head(walk.todo))
      BY <3>1, <3>2, <3>3, ChildIsOK, SMTT(20)
    <3> QED
      BY <2>1, <3>1, <3>4, WalkGoesOn DEF IInv
  <2> QED
    BY <2>2, <2>3
<1>7. ASSUME WalkReturn PROVE IInv'
  <2>1. WalkOK(walk) /\ walk.todo = <<>> /\ walk' = NoWalk
    BY <1>7, BusyIsOK DEF WalkReturn
  <2>2. KeyOK([walk.key EXCEPT !.path = walk.meaning])
    BY <2>1, WalkEnds DEF WalkOK
  <2> QED
    BY <1>7, <2>1, <2>2, HandOverOK DEF WalkReturn, IInv
<1>8. CASE UNCHANGED vars
  BY <1>8 DEF vars, IInv
<1> QED
  BY <1>1, <1>2, <1>3, <1>4, <1>5, <1>6, <1>7, <1>8 DEF Next

LEMMA Invariance == Spec => []IInv
BY Initially, Inductive, PTL DEF Spec

-----------------------------------------------------------------------------
\* Depth and child number of every key are those of its path.
THEOREM TypeCorrect == Spec => []TypeOK
<1>1. IInv => walk.busy \in BOOLEAN
  <2>1. NoWalk.busy = FALSE /\ (WalkOK(walk) => walk.busy = TRUE)
    BY DEF NoWalk, WalkOK, Walk
  <2> QED
    BY <2>1, Zenon DEF IInv
<1>2. IInv => TypeOK
  BY <1>1 DEF IInv, TypeOK, KeyOK, Key
<1> QED
  BY <1>2, Invariance, PTL

\* Hardened children come from the private key, and no others (derive).
THEOREM HardenedNeedsPrivate == Spec => []HardenedStaysPrivate
<1>1. IInv => HardenedStaysPrivate
  BY DEF IInv, HardenedStaysPrivate, KeyOK
<1> QED
  BY <1>1, Invariance, PTL

\* No key outside 1..n-1, wiped or drawn, has a child (derive, master).
THEOREM BadKeysAreChildless == Spec => []NoChildOfBadKey
<1>1. IInv => NoChildOfBadKey
  BY DEF IInv, NoChildOfBadKey, KeyOK
<1> QED
  BY <1>1, Invariance, PTL

\* Every derived key is one the library takes, until it is wiped (derive).
THEOREM ChildrenAreUsable == Spec => []ChildIsUsable
<1>1. IInv => ChildIsUsable
  BY DEF IInv, ChildIsUsable, KeyOK
<1> QED
  BY <1>1, Invariance, PTL

\* The index checks of parse() and derive() agree.
THEOREM ParsedPathsDerive == Spec => []ParsedPathDerives
<1>1. ASSUME IInv, walk.busy, walk.parsed, walk.todo # <<>>
      PROVE  EarlyError(walk.key, Head(walk.todo)[1], Head(walk.todo)[2])
                # "index out of range"
  <2>1. WalkOK(walk) /\ walk.todo \in Seq(Component)
    BY <1>1, BusyIsOK DEF WalkOK, Walk
  <2>2. Head(walk.todo) = walk.todo[1] /\ 1 \in 1..Len(walk.todo)
    BY <1>1, <2>1
  <2>3. Head(walk.todo)[1] \in 0..(HARDENED_OFFSET - 1)
    BY <1>1, <2>1, <2>2 DEF WalkOK
  <2> QED
    BY <2>3 DEF EarlyError
<1>2. IInv => ParsedPathDerives
  BY <1>1 DEF ParsedPathDerives
<1> QED
  BY <1>2, Invariance, PTL

-----------------------------------------------------------------------------
(* One path, one key.  The answers of HMAC so far spell a table of keys by  *)
(* seed and path, and every intact key is the one the table has.            *)

\* T is closed under parents, and every entry follows from the oracle.
Recorded(T) ==
    /\ \A seed \in Seeds : <<seed, <<>>>> \in DOMAIN T =>
          /\ MasterQuery(seed) \in DOMAIN oracle
          /\ T[<<seed, <<>>>>] = MasterKey(seed, oracle[MasterQuery(seed)])
    /\ \A seed \in Seeds, path \in Seq(Component), c \in Component :
          <<seed, Append(path, c)>> \in DOMAIN T =>
             LET parent == T[<<seed, path>>]
                 q      == Query(parent, ChildNumber(c[1], c[2]))
             IN  /\ <<seed, path>> \in DOMAIN T
                 /\ q \in DOMAIN oracle
                 /\ T[<<seed, Append(path, c)>>] = Child(parent, c[1], c[2], oracle[q])

Listed(T, k) ==
    k.intact => <<k.seed, k.path>> \in DOMAIN T /\ k = T[<<k.seed, k.path>>]

Extends(U, T) ==
    DOMAIN T \subseteq DOMAIN U /\ \A x \in DOMAIN T : U[x] = T[x]

AllListed(T) ==
    /\ \A i \in DOMAIN keys : Listed(T, keys[i])
    /\ walk.busy => Listed(T, walk.key)

Memo == \E T : Recorded(T) /\ AllListed(T)

LEMMA OracleGrows ==
    ASSUME NEW q, NEW ans, Hmac(q, ans)
    PROVE  /\ q \in DOMAIN oracle' /\ oracle'[q] = ans
           /\ \A x \in DOMAIN oracle : x \in DOMAIN oracle' /\ oracle'[x] = oracle[x]
           /\ q \in DOMAIN oracle => ans = oracle[q]
BY DEF Hmac

LEMMA StillRecorded ==
    ASSUME NEW T, Recorded(T), NEW q, NEW ans, Hmac(q, ans)
    PROVE  Recorded(T)'
<1>1. \A x \in DOMAIN oracle : x \in DOMAIN oracle' /\ oracle'[x] = oracle[x]
  BY OracleGrows
<1> QED
  BY <1>1, Zenon DEF Recorded

LEMMA StillListed ==
    ASSUME NEW U, NEW T, Extends(U, T), NEW k, Listed(T, k)
    PROVE  Listed(U, k)
BY DEF Extends, Listed

LEMMA MasterRecorded ==
    ASSUME NEW T, Recorded(T), NEW seed \in Seeds, NEW ans, Hmac(MasterQuery(seed), ans)
    PROVE  \E U : Recorded(U)' /\ Extends(U, T) /\ Listed(U, MasterKey(seed, ans))
<1> DEFINE here == <<seed, <<>>>>
           key  == MasterKey(seed, ans)
<1>1. key.seed = seed /\ key.path = <<>> /\ key.intact = TRUE
  BY DEF MasterKey
<1>2. Recorded(T)'
  BY StillRecorded
<1>3. CASE here \in DOMAIN T
  <2>1. T[here] = key
    BY <1>3, OracleGrows DEF Recorded
  <2>2. Listed(T, key) /\ Extends(T, T)
    BY <1>1, <1>3, <2>1 DEF Listed, Extends
  <2> QED
    BY <1>2, <2>2
<1>4. CASE here \notin DOMAIN T
  <2> DEFINE U == [x \in DOMAIN T \cup {here} |-> IF x = here THEN key ELSE T[x]]
  <2>1. Extends(U, T) /\ Listed(U, key)
    BY <1>1, <1>4 DEF Extends, Listed
  <2>2. ASSUME NEW s \in Seeds, <<s, <<>>>> \in DOMAIN U
        PROVE  /\ MasterQuery(s) \in DOMAIN oracle'
               /\ U[<<s, <<>>>>] = MasterKey(s, oracle'[MasterQuery(s)])
    <3>1. CASE s = seed
      BY <3>1, OracleGrows
    <3>2. CASE s # seed
      <4>1. <<s, <<>>>> # here /\ <<s, <<>>>> \in DOMAIN T
        BY <2>2, <3>2
      <4> QED
        BY <1>2, <4>1 DEF Recorded
    <3> QED
      BY <3>1, <3>2
  <2>3. ASSUME NEW s \in Seeds, NEW path \in Seq(Component), NEW c \in Component,
               <<s, Append(path, c)>> \in DOMAIN U
        PROVE  LET parent == U[<<s, path>>]
                   q      == Query(parent, ChildNumber(c[1], c[2]))
               IN  /\ <<s, path>> \in DOMAIN U
                   /\ q \in DOMAIN oracle'
                   /\ U[<<s, Append(path, c)>>] = Child(parent, c[1], c[2], oracle'[q])
    <3>1. <<s, Append(path, c)>> # here
      BY LastOfAppend
    <3>2. <<s, Append(path, c)>> \in DOMAIN T
      BY <2>3, <3>1
    <3>3. <<s, path>> \in DOMAIN T
      BY <1>2, <3>2 DEF Recorded
    <3>4. U[<<s, path>>] = T[<<s, path>>] /\ U[<<s, Append(path, c)>>] = T[<<s, Append(path, c)>>]
      BY <1>4, <3>1, <3>2, <3>3
    <3> QED
      BY <1>2, <3>2, <3>3, <3>4, ZenonT(30) DEF Recorded
  <2>4. Recorded(U)'
    BY <2>2, <2>3, Zenon DEF Recorded
  <2> QED
    BY <2>1, <2>4
<1> QED
  BY <1>3, <1>4

LEMMA ChildRecorded ==
    ASSUME NEW T, Recorded(T), NEW k, k \in Key, Listed(T, k),
           NEW index \in Int, NEW hardened \in BOOLEAN, NEW ans,
           Hmac(Query(k, ChildNumber(index, hardened)), ans)
    PROVE  \E U : /\ Recorded(U)' /\ Extends(U, T)
                  /\ Listed(U, Child(k, index, hardened, ans))
<1> DEFINE kid  == Child(k, index, hardened, ans)
           comp == <<index, hardened>>
           here == <<k.seed, Append(k.path, comp)>>
<1>1. /\ kid.seed = k.seed /\ kid.path = Append(k.path, comp) /\ kid.intact = k.intact
      /\ k.seed \in Seeds /\ k.path \in Seq(Component) /\ comp \in Component
      /\ comp[1] = index /\ comp[2] = hardened
  BY DEF Child, Key, Component
<1>2. Recorded(T)'
  BY StillRecorded
<1>3. CASE ~k.intact
  BY <1>1, <1>2, <1>3 DEF Listed, Extends
<1>4. CASE k.intact /\ here \in DOMAIN T
  <2>1. k = T[<<k.seed, k.path>>]
    BY <1>4 DEF Listed
  <2>2. LET q == Query(k, ChildNumber(comp[1], comp[2]))
        IN  q \in DOMAIN oracle /\ T[here] = Child(k, comp[1], comp[2], oracle[q])
    <3> HIDE DEF comp
    <3>1. <<k.seed, Append(k.path, comp)>> \in DOMAIN T
      BY <1>4
    <3> QED
      BY <1>1, <2>1, <3>1, Zenon DEF Recorded
  <2>3. T[here] = kid
    BY <1>1, <2>2, OracleGrows, Zenon
  <2>4. Listed(T, kid) /\ Extends(T, T)
    BY <1>1, <1>4, <2>3 DEF Listed, Extends
  <2> QED
    BY <1>2, <2>4
<1>5. CASE k.intact /\ here \notin DOMAIN T
  <2> DEFINE U == [x \in DOMAIN T \cup {here} |-> IF x = here THEN kid ELSE T[x]]
  <2>1. Extends(U, T) /\ Listed(U, kid)
    BY <1>1, <1>5 DEF Extends, Listed
  <2>2. ASSUME NEW s \in Seeds, <<s, <<>>>> \in DOMAIN U
        PROVE  /\ MasterQuery(s) \in DOMAIN oracle'
               /\ U[<<s, <<>>>>] = MasterKey(s, oracle'[MasterQuery(s)])
    <3>1. <<s, <<>>>> # here
      BY <1>1, LastOfAppend
    <3>2. <<s, <<>>>> \in DOMAIN T /\ U[<<s, <<>>>>] = T[<<s, <<>>>>]
      BY <2>2, <3>1
    <3> QED
      BY <1>2, <3>2 DEF Recorded
  <2>3. ASSUME NEW s \in Seeds, NEW path \in Seq(Component), NEW c \in Component,
               <<s, Append(path, c)>> \in DOMAIN U
        PROVE  LET parent == U[<<s, path>>]
                   q      == Query(parent, ChildNumber(c[1], c[2]))
               IN  /\ <<s, path>> \in DOMAIN U
                   /\ q \in DOMAIN oracle'
                   /\ U[<<s, Append(path, c)>>] = Child(parent, c[1], c[2], oracle'[q])
    <3>1. CASE <<s, Append(path, c)>> = here
      <4>1. s = k.seed /\ path = k.path /\ c = comp
        <5>1. s = k.seed /\ Append(path, c) = Append(k.path, comp)
          BY <3>1, Zenon
        <5> HIDE DEF comp
        <5> QED
          BY <1>1, <5>1, AppendInjective, SMTT(20)
      <4>2. <<s, path>> \in DOMAIN T /\ k = T[<<s, path>>] /\ <<s, path>> # here
        BY <1>5, <4>1 DEF Listed
      <4>3. U[<<s, path>>] = k /\ U[<<s, Append(path, c)>>] = kid
        BY <3>1, <4>2
      <4>4. LET q == Query(k, ChildNumber(c[1], c[2]))
            IN  /\ q \in DOMAIN oracle'
                /\ Child(k, c[1], c[2], oracle'[q]) = kid
        BY <1>1, <4>1, OracleGrows, Zenon
      <4>5. <<s, path>> \in DOMAIN U
        BY <4>2
      <4> QED
        BY <4>3, <4>4, <4>5, Zenon
    <3>2. CASE <<s, Append(path, c)>> # here
      <4>1. <<s, Append(path, c)>> \in DOMAIN T
        BY <2>3, <3>2
      <4>2. <<s, path>> \in DOMAIN T
        BY <1>2, <4>1 DEF Recorded
      <4>3. /\ U[<<s, path>>] = T[<<s, path>>]
            /\ U[<<s, Append(path, c)>>] = T[<<s, Append(path, c)>>]
        BY <1>5, <3>2, <4>1, <4>2
      <4> QED
        BY <1>2, <4>1, <4>2, <4>3, Zenon DEF Recorded
    <3> QED
      BY <3>1, <3>2
  <2>4. Recorded(U)'
    BY <2>2, <2>3, Zenon DEF Recorded
  <2> QED
    BY <2>1, <2>4
<1> QED
  BY <1>3, <1>4, <1>5

LEMMA MemoBegins == Init => Memo
<1> SUFFICES ASSUME Init PROVE Memo
  OBVIOUS
<1> DEFINE T == [x \in {} |-> 0]
<1>1. Recorded(T)
  BY DEF Recorded
<1>2. AllListed(T)
  BY DEF Init, NoWalk, AllListed
<1> QED
  BY <1>1, <1>2, Zenon DEF Memo

\* What a call adds to the table, and what it hands over or keeps.
LEMMA MemoKept == IInv /\ Memo /\ [Next]_vars => Memo'
<1> SUFFICES ASSUME IInv, Memo, [Next]_vars PROVE Memo'
  OBVIOUS
<1> PICK T : Recorded(T) /\ AllListed(T)
  BY Zenon DEF Memo
<1>1. ASSUME NEW k, HandOver(k), UNCHANGED walk \/ walk' = NoWalk,
             NEW U, Recorded(U)', Extends(U, T), Listed(U, k)
      PROVE  Memo'
  <2>1. /\ DOMAIN keys' = 1..(Len(keys) + 1) /\ Len(keys) \in Nat
        /\ keys'[Len(keys) + 1] = k
        /\ \A i \in 1..Len(keys) : i \in DOMAIN keys /\ keys'[i] = keys[i]
    BY <1>1 DEF HandOver, IInv
  <2>2. ASSUME NEW i \in DOMAIN keys' PROVE Listed(U, keys'[i])
    <3>1. i = Len(keys) + 1 \/ i \in 1..Len(keys)
      BY <2>1
    <3> QED
      BY <1>1, <2>1, <3>1, StillListed, Zenon DEF AllListed
  <2>3. walk'.busy => Listed(U, walk'.key)
    <3>1. ~NoWalk.busy
      BY DEF NoWalk
    <3> QED
      BY <1>1, <3>1, StillListed, Zenon DEF AllListed
  <2> QED
    BY <1>1, <2>2, <2>3, Zenon DEF Memo, AllListed
<1>2. ASSUME UNCHANGED keys, NEW U, Recorded(U)', Extends(U, T),
             walk'.busy => Listed(U, walk'.key)
      PROVE  Memo'
  BY <1>2, StillListed, Zenon DEF Memo, AllListed
<1>3. ASSUME UNCHANGED keys, UNCHANGED walk \/ walk' = NoWalk, Recorded(T)'
      PROVE  Memo'
  <2>1. ~NoWalk.busy
    BY DEF NoWalk
  <2> QED
    BY <1>3, <2>1, Zenon DEF Memo, AllListed
<1>4. ASSUME NEW seed \in Seeds, Master(seed) PROVE Memo'
  <2>1. PICK ans \in Answers :
           Hmac(MasterQuery(seed), ans) /\ HandOver(MasterKey(seed, ans)) /\ UNCHANGED walk
    BY <1>4, Zenon DEF Master
  <2> QED
    BY <1>1, <2>1, MasterRecorded, Zenon
<1>5. ASSUME NEW i \in DOMAIN keys, NEW index \in -1..HARDENED_OFFSET,
             NEW hardened \in BOOLEAN, Derive(i, index, hardened)
      PROVE  Memo'
  <2>1. /\ keys[i] \in Key /\ Listed(T, keys[i]) /\ index \in Int /\ UNCHANGED walk
    BY <1>5, DerivationAssumption
       DEF DerivationAssumption, IInv, KeyOK, Derive, AllListed
  <2>2. CASE EarlyError(keys[i], index, hardened) # "ok"
    <3>1. UNCHANGED keys /\ UNCHANGED oracle
      BY <1>5, <2>2, Zenon DEF Derive, DeriveChild
    <3> QED
      BY <1>3, <2>1, <3>1 DEF Recorded
  <2>3. CASE EarlyError(keys[i], index, hardened) = "ok"
    <3>1. PICK ans \in Answers :
             /\ Hmac(Query(keys[i], ChildNumber(index, hardened)), ans)
             /\ \/ UNCHANGED keys
                \/ HandOver(Child(keys[i], index, hardened, ans))
      BY <1>5, <2>3, Zenon DEF Derive, DeriveChild
    <3>2. CASE UNCHANGED keys
      BY <1>3, <2>1, <3>1, <3>2, StillRecorded, Zenon
    <3>3. CASE HandOver(Child(keys[i], index, hardened, ans))
      BY <1>1, <2>1, <3>1, <3>3, ChildRecorded, ZenonT(30)
    <3> QED
      BY <3>1, <3>2, <3>3
  <2> QED
    BY <2>2, <2>3
<1>6. ASSUME NEW i \in DOMAIN keys, Zeroize(i) PROVE Memo'
  <2>1. /\ DOMAIN keys' = DOMAIN keys
        /\ \A j \in DOMAIN keys : j # i => keys'[j] = keys[j]
        /\ ~keys'[i].intact
        /\ UNCHANGED <<walk, oracle>>
    <3>1. keys[i] \in Key /\ keys \in Seq(Key)
      BY DEF IInv
    <3>2. PICK k : /\ keys' = [keys EXCEPT ![i] = k]
                    /\ \/ k = [keys[i] EXCEPT !.sk = 0, !.intact = FALSE]
                       \/ k = [keys[i] EXCEPT !.cc = Zeros, !.intact = FALSE]
      BY <1>6 DEF Zeroize
    <3>3. DOMAIN keys' = DOMAIN keys /\ \A j \in DOMAIN keys : j # i => keys'[j] = keys[j]
      BY <3>2
    <3>4. keys'[i] = k
      BY <3>1, <3>2
    <3>5. ~keys'[i].intact
      BY <3>1, <3>2, <3>4 DEF Key
    <3> QED
      BY <1>6, <3>3, <3>5 DEF Zeroize
  <2>2. \A j \in DOMAIN keys' : Listed(T, keys'[j])
    BY <2>1, Zenon DEF AllListed, Listed
  <2>3. Recorded(T)'
    BY <2>1 DEF Recorded
  <2> QED
    BY <2>1, <2>2, <2>3, Zenon DEF Memo, AllListed
<1>7. ASSUME NEW seed \in Seeds, NEW indices, NEW meaning, NEW parsed,
             StartWalk(seed, indices, meaning, parsed)
      PROVE  Memo'
  <2>1. PICK ans \in Answers :
           /\ Hmac(MasterQuery(seed), ans)
           /\ walk' = [busy |-> TRUE, key |-> MasterKey(seed, ans), todo |-> indices,
                       meaning |-> meaning, parsed |-> parsed]
           /\ UNCHANGED keys
    BY <1>7, Zenon DEF StartWalk
  <2>2. PICK U : Recorded(U)' /\ Extends(U, T) /\ Listed(U, MasterKey(seed, ans))
    BY <2>1, MasterRecorded, Zenon
  <2>3. walk'.key = MasterKey(seed, ans)
    BY <2>1
  <2> QED
    BY <1>2, <2>1, <2>2, <2>3, Zenon
<1>8. ASSUME WalkStep PROVE Memo'
  <2> DEFINE index == Head(walk.todo)[1]
             hardened == Head(walk.todo)[2]
  <2>1. walk.busy /\ walk.todo # <<>> /\ UNCHANGED keys
    BY <1>8, Zenon DEF WalkStep, DeriveChild
  <2>2. /\ walk.key \in Key /\ Listed(T, walk.key)
        /\ index \in Int /\ hardened \in BOOLEAN
    <3>1. WalkOK(walk)
      BY <2>1, BusyIsOK
    <3>2. walk.key \in Key /\ Head(walk.todo) \in Component
      BY <2>1, <3>1 DEF WalkOK, Walk
    <3> QED
      BY <2>1, <3>2 DEF Component, AllListed
  <2>3. CASE EarlyError(walk.key, index, hardened) # "ok"
    <3>1. walk' = NoWalk /\ UNCHANGED oracle
      BY <1>8, <2>3, Zenon DEF WalkStep, DeriveChild
    <3> QED
      BY <1>3, <2>1, <3>1 DEF Recorded
  <2>4. CASE EarlyError(walk.key, index, hardened) = "ok"
    <3>1. PICK ans \in Answers :
             /\ Hmac(Query(walk.key, ChildNumber(index, hardened)), ans)
             /\ \/ walk' = NoWalk
                \/ walk' = [walk EXCEPT !.key = Child(walk.key, index, hardened, ans),
                                        !.todo = Tail(@)]
      BY <1>8, <2>4, Zenon DEF WalkStep, DeriveChild
    <3>2. CASE walk' = NoWalk
      BY <1>3, <2>1, <3>1, <3>2, StillRecorded, Zenon
    <3>3. CASE walk' = [walk EXCEPT !.key = Child(walk.key, index, hardened, ans),
                                    !.todo = Tail(@)]
      <4>1. PICK U : /\ Recorded(U)' /\ Extends(U, T)
                     /\ Listed(U, Child(walk.key, index, hardened, ans))
        BY <2>2, <3>1, ChildRecorded, Zenon
      <4>2. walk'.key = Child(walk.key, index, hardened, ans)
        <5>1. walk \in Walk
          BY <2>1, BusyIsOK DEF WalkOK
        <5> QED
          BY <3>3, <5>1 DEF Walk
      <4> QED
        BY <1>2, <2>1, <4>1, <4>2, Zenon
    <3> QED
      BY <3>1, <3>2, <3>3
  <2> QED
    BY <2>3, <2>4
<1>9. ASSUME WalkReturn PROVE Memo'
  <2>1. [walk.key EXCEPT !.path = walk.meaning] = walk.key
    BY <1>9, BusyIsOK, WalkEnds DEF WalkReturn
  <2>2. HandOver(walk.key) /\ walk' = NoWalk /\ UNCHANGED oracle /\ walk.busy
    BY <1>9, <2>1 DEF WalkReturn
  <2>3. Recorded(T)' /\ Extends(T, T) /\ Listed(T, walk.key)
    BY <2>2 DEF Recorded, Extends, AllListed
  <2> QED
    BY <1>1, <2>2, <2>3, Zenon
<1>10. CASE UNCHANGED vars
  BY <1>3, <1>10 DEF vars, Recorded
<1> QED
  BY <1>4, <1>5, <1>6, <1>7, <1>8, <1>9, <1>10, Zenon DEF Next, StartDirect, StartParsed

\* Two intact keys of one seed and one path are equal, however and in whatever
\* order they were derived (derive, derive_from_seed, parse).
THEOREM OneKeyPerPath == Spec => []SamePathSameKey
<1>1. Memo => SamePathSameKey
  BY DEF Memo, AllListed, Listed, SamePathSameKey
<1> QED
  BY <1>1, Initially, MemoBegins, Inductive, MemoKept, PTL DEF Spec

-----------------------------------------------------------------------------
(* What the export of a key decodes to.  A number has one row of digits    *)
(* whose first is not 0, the one divmod yields, and zeros in front add     *)
(* nothing to it: they are what LeadingZeros counts, in the bytes and in   *)
(* the text alike.                                                         *)

\* v[i] is the number the first i digits spell.
Spells(v, d, n, base) ==
    /\ v \in [0..n -> Nat]
    /\ v[0] = 0
    /\ \A i \in 1..n : v[i] = v[i - 1] * base + d[i]

LEMMA SpellsExists ==
    ASSUME NEW base \in Nat, NEW n \in Nat, NEW d \in [1..n -> Nat]
    PROVE  \E v : Spells(v, d, n, base)
<1> DEFINE T == {m \in Nat : m <= n /\ ~\E v : Spells(v, d, m, base)}
<1>1. T = {}
  <2> SUFFICES ASSUME T # {} PROVE FALSE
    OBVIOUS
  <2>1. PICK m \in T : \A k \in T : m <= k
    <3>1. T \subseteq Nat
      OBVIOUS
    <3> QED
      BY <3>1, Least
  <2>2. m # 0
    <3>1. Spells([i \in 0..0 |-> 0], d, 0, base)
      BY DEF Spells
    <3> QED
      BY <3>1
  <2>3. m \in Nat /\ m - 1 \in Nat /\ m - 1 <= n /\ m - 1 \notin T /\ m \in 1..n
    BY <2>1, <2>2
  <2>4. PICK v : Spells(v, d, m - 1, base)
    BY <2>3
  <2> DEFINE w == [i \in 0..m |-> IF i = m THEN v[m - 1] * base + d[m] ELSE v[i]]
  <2>5. Spells(w, d, m, base)
    <3>1. \A i \in 0..(m - 1) : v[i] \in Nat
      BY <2>4 DEF Spells
    <3>2. v[m - 1] * base + d[m] \in Nat
      <4>1. v[m - 1] \in Nat /\ d[m] \in Nat
        BY <2>3, <3>1
      <4>2. \A x, y \in Nat : x * base + y \in Nat
        OBVIOUS
      <4> QED
        BY <4>1, <4>2
    <3>3. w \in [0..m -> Nat]
      BY <2>3, <3>1, <3>2
    <3>4. w[0] = 0
      BY <2>2, <2>3, <2>4 DEF Spells
    <3>5. ASSUME NEW i \in 1..m PROVE w[i] = w[i - 1] * base + d[i]
      <4>1. CASE i = m
        <5>1. w[i] = v[m - 1] * base + d[m] /\ w[i - 1] = v[m - 1]
          BY <2>3, <4>1
        <5> QED
          BY <4>1, <5>1
      <4>2. CASE i # m
        <5>1. i \in 1..(m - 1) /\ w[i] = v[i] /\ w[i - 1] = v[i - 1]
          BY <2>3, <4>2
        <5> QED
          BY <2>4, <5>1 DEF Spells
      <4> QED
        BY <4>1, <4>2
    <3> HIDE DEF w
    <3> QED
      BY <3>3, <3>4, <3>5 DEF Spells
  <2> QED
    BY <2>1, <2>5
<1>2. n \notin T
  BY <1>1
<1> QED
  BY <1>2

LEMMA SpellsOne ==
    ASSUME NEW base \in Nat, NEW n \in Nat, NEW d,
           NEW v, Spells(v, d, n, base), NEW w, Spells(w, d, n, base)
    PROVE  v = w
<1> DEFINE T == {i \in Nat : i <= n /\ v[i] # w[i]}
<1>1. T = {}
  <2> SUFFICES ASSUME T # {} PROVE FALSE
    OBVIOUS
  <2>1. PICK i \in T : \A k \in T : i <= k
    <3>1. T \subseteq Nat
      OBVIOUS
    <3> QED
      BY <3>1, Least
  <2>2. i # 0
    BY DEF Spells
  <2>3. i \in 1..n /\ i - 1 \in Nat /\ i - 1 <= n /\ v[i - 1] = w[i - 1]
    BY <2>1, <2>2
  <2> QED
    BY <2>1, <2>3 DEF Spells
<1>2. \A i \in 0..n : v[i] = w[i]
  BY <1>1
<1> QED
  BY <1>2 DEF Spells

\* Value is what the digits spell.
LEMMA ValueIs ==
    ASSUME NEW base \in Nat, NEW n \in Nat, NEW d \in [1..n -> Nat],
           NEW v, Spells(v, d, n, base)
    PROVE  Value(d, base) = v[n] /\ Value(d, base) \in Nat
<1> DEFINE Rec(g) == g = [i \in 0..Len(d) |->
                            IF i = 0 THEN 0 ELSE g[i - 1] * base + d[i]]
           f == CHOOSE g : Rec(g)
<1>1. Len(d) = n
  OBVIOUS
<1>2. Rec(v)
  <2>1. ASSUME NEW i \in 0..n
        PROVE  v[i] = IF i = 0 THEN 0 ELSE v[i - 1] * base + d[i]
    BY DEF Spells
  <2>2. v = [i \in 0..n |-> v[i]]
    BY DEF Spells
  <2> QED
    BY <1>1, <2>1, <2>2
<1>3. Rec(f)
  BY <1>2
<1>4. Value(d, base) = f[n]
  BY <1>1 DEF Value
<1> HIDE DEF f
<1>5. f[0] = 0 /\ \A i \in 1..n : f[i] = f[i - 1] * base + d[i]
  BY <1>1, <1>3
<1> DEFINE T == {i \in Nat : i <= n /\ v[i] # f[i]}
<1>6. T = {}
  <2> SUFFICES ASSUME T # {} PROVE FALSE
    OBVIOUS
  <2>1. PICK i \in T : \A k \in T : i <= k
    <3>1. T \subseteq Nat
      OBVIOUS
    <3> QED
      BY <3>1, Least
  <2>2. i # 0
    BY <1>5 DEF Spells
  <2>3. i \in 1..n /\ i - 1 \in Nat /\ i - 1 <= n /\ v[i - 1] = f[i - 1]
    BY <2>1, <2>2
  <2> HIDE DEF Rec
  <2> QED
    BY <1>5, <2>1, <2>3 DEF Spells
<1>7. v[n] = f[n] /\ v[n] \in Nat
  BY <1>6 DEF Spells
<1> QED
  BY <1>4, <1>7

LEMMA ValueOfNone == \A base \in Nat : Value(<<>>, base) = 0
<1> TAKE base \in Nat
<1>1. <<>> \in [1..0 -> Nat] /\ Spells([i \in 0..0 |-> 0], <<>>, 0, base)
  BY DEF Spells
<1> QED
  BY <1>1, ValueIs

\* One more digit.
LEMMA ValueAppend ==
    ASSUME NEW base \in Nat, NEW n \in Nat, NEW d \in [1..n -> Nat],
           NEW e \in [1..(n + 1) -> Nat], \A i \in 1..n : e[i] = d[i]
    PROVE  Value(e, base) = Value(d, base) * base + e[n + 1]
<1>1. PICK v : Spells(v, d, n, base)
  BY SpellsExists
<1>2. PICK m \in Nat : m = n + 1
  OBVIOUS
<1>3. e \in [1..m -> Nat]
  BY <1>2
<1>4. PICK w : Spells(w, e, m, base)
  BY <1>3, SpellsExists
<1> DEFINE u == [i \in 0..n |-> w[i]]
<1>5. Spells(u, d, n, base)
  <2>1. u \in [0..n -> Nat] /\ u[0] = 0
    <3>1. \A i \in 0..n : w[i] \in Nat
      <4>1. w \in [0..m -> Nat]
        BY <1>4 DEF Spells
      <4>2. \A i \in 0..n : i \in 0..m
        BY <1>2
      <4> QED
        BY <4>1, <4>2
    <3>2. w[0] = 0
      BY <1>4 DEF Spells
    <3> QED
      BY <3>1, <3>2
  <2>2. ASSUME NEW i \in 1..n PROVE u[i] = u[i - 1] * base + d[i]
    <3>1. w[i] = w[i - 1] * base + e[i]
      BY <1>2, <1>4 DEF Spells
    <3>2. u[i] = w[i] /\ u[i - 1] = w[i - 1] /\ e[i] = d[i]
      OBVIOUS
    <3> HIDE DEF u
    <3> QED
      BY <3>1, <3>2
  <2> HIDE DEF u
  <2> QED
    BY <2>1, <2>2 DEF Spells
<1>6. v[n] = w[n]
  <2>1. u[n] = w[n]
    OBVIOUS
  <2> HIDE DEF u
  <2> QED
    BY <1>1, <1>5, <2>1, SpellsOne
<1>7. w[m] = w[n] * base + e[m]
  BY <1>2, <1>4 DEF Spells
<1>8. Value(d, base) = v[n] /\ Value(e, base) = w[m]
  BY <1>1, <1>3, <1>4, ValueIs
<1> QED
  BY <1>2, <1>6, <1>7, <1>8

\* e is d behind z zeros.
Padded(e, z, d, n) ==
    /\ z \in Nat /\ n \in Nat
    /\ d \in [1..n -> Nat]
    /\ e \in [1..(z + n) -> Nat]
    /\ \A i \in 1..z : e[i] = 0
    /\ \A i \in 1..n : e[z + i] = d[i]

\* Zeros in front change nothing.
LEMMA ValueZeros ==
    ASSUME NEW base \in Nat, NEW z, NEW n, NEW d, NEW e, Padded(e, z, d, n)
    PROVE  Value(e, base) = Value(d, base)
<1>0. /\ z \in Nat /\ n \in Nat /\ d \in [1..n -> Nat] /\ e \in [1..(z + n) -> Nat]
      /\ \A i \in 1..z : e[i] = 0
      /\ \A i \in 1..n : e[z + i] = d[i]
  BY DEF Padded
<1>1. PICK v : Spells(v, d, n, base)
  BY <1>0, SpellsExists
<1>2. PICK m \in Nat : m = z + n
  BY <1>0
<1> DEFINE w == [i \in 0..m |-> IF i <= z THEN 0 ELSE v[i - z]]
<1>3. Spells(w, e, m, base)
  <2>1. w \in [0..m -> Nat] /\ w[0] = 0
    BY <1>0, <1>1, <1>2 DEF Spells
  <2>2. ASSUME NEW i \in 1..m PROVE w[i] = w[i - 1] * base + e[i]
    <3>1. CASE i <= z
      <4>1. w[i] = 0 /\ w[i - 1] = 0 /\ e[i] = 0 /\ 0 * base = 0
        BY <1>0, <1>2, <3>1
      <4> QED
        BY <4>1
    <3>2. CASE i > z
      <4>1. PICK j \in 1..n : i = z + j
        BY <1>0, <1>2, <3>2, i - z \in 1..n
      <4>2. v[j] = v[j - 1] * base + d[j] /\ e[i] = d[j] /\ v[0] = 0
        BY <1>0, <1>1, <4>1 DEF Spells
      <4>3. w[i] = v[j] /\ w[i - 1] = v[j - 1]
        BY <1>0, <1>1, <1>2, <4>1, <4>2
      <4> QED
        BY <4>2, <4>3
    <3> QED
      BY <1>0, <1>2, <3>1, <3>2
  <2> HIDE DEF w
  <2> QED
    BY <2>1, <2>2 DEF Spells
<1>4. w[m] = v[n]
  BY <1>0, <1>1, <1>2 DEF Spells
<1> HIDE DEF w
<1>5. e \in [1..m -> Nat]
  BY <1>0, <1>2
<1>6. Value(d, base) = v[n]
  BY <1>0, <1>1, ValueIs
<1>7. Value(e, base) = w[m]
  BY <1>3, <1>5, ValueIs
<1> QED
  BY <1>4, <1>6, <1>7

LEMMA ValuePositive ==
    ASSUME NEW base \in Nat \ {0}, NEW n \in Nat \ {0}, NEW d \in [1..n -> Nat], d[1] # 0
    PROVE  Value(d, base) # 0
<1>1. PICK v : Spells(v, d, n, base)
  BY SpellsExists
<1> DEFINE T == {i \in Nat : i \in 1..n /\ v[i] = 0}
<1>2. T = {}
  <2> SUFFICES ASSUME T # {} PROVE FALSE
    OBVIOUS
  <2>1. PICK i \in T : \A k \in T : i <= k
    <3>1. T \subseteq Nat
      OBVIOUS
    <3> QED
      BY <3>1, Least
  <2>2. i \in 1..n /\ v[i] = v[i - 1] * base + d[i] /\ v[i - 1] \in Nat /\ d[i] \in Nat
    BY <1>1 DEF Spells
  <2>3. CASE i = 1
    BY <1>1, <2>2, <2>3 DEF Spells
  <2>4. CASE i # 1
    <3>1. i - 1 \in 1..n /\ i - 1 \notin T
      BY <2>1, <2>2, <2>4
    <3>2. v[i - 1] \in Nat \ {0}
      BY <2>2, <3>1
    <3>3. v[i - 1] * base \in Nat \ {0}
      BY <3>2
    <3> QED
      BY <2>2, <3>3
  <2> QED
    BY <2>3, <2>4
<1> QED
  BY <1>1, <1>2, ValueIs

\* The digits of m, the first of them not 0.
Proper(d, n, m, base) ==
    /\ n \in Nat
    /\ d \in [1..n -> 0..(base - 1)]
    /\ n # 0 => d[1] # 0
    /\ Value(d, base) = m

LEMMA ProperOfNone ==
    ASSUME NEW base \in Nat \ {0, 1}, NEW n, NEW d, NEW m, Proper(d, n, m, base)
    PROVE  /\ d \in [1..n -> Nat] /\ m \in Nat
           /\ n = 0 <=> m = 0
           /\ n = 0 => d = <<>>
<1>1. n \in Nat /\ d \in [1..n -> 0..(base - 1)] /\ (n # 0 => d[1] # 0) /\ Value(d, base) = m
  BY DEF Proper
<1>2. d \in [1..n -> Nat]
  BY <1>1
<1>3. n = 0 => d = <<>>
  BY <1>2
<1>4. m \in Nat
  BY <1>1, <1>2, SpellsExists, ValueIs
<1>5. n # 0 => m # 0
  BY <1>1, <1>2, ValuePositive
<1>6. n = 0 => m = 0
  BY <1>1, <1>3, ValueOfNone
<1> QED
  BY <1>2, <1>3, <1>4, <1>5, <1>6

\* All but the last digit.
LEMMA ProperFront ==
    ASSUME NEW base \in Nat \ {0, 1}, NEW k \in Nat, NEW d, NEW m \in Nat,
           Proper(d, k + 1, m, base)
    PROVE  /\ Proper([i \in 1..k |-> d[i]], k, m \div base, base)
           /\ d[k + 1] = m % base
<1> DEFINE f == [i \in 1..k |-> d[i]]
<1>1. PICK n \in Nat \ {0} : n = k + 1
  OBVIOUS
<1>2. d \in [1..n -> 0..(base - 1)] /\ d[1] # 0 /\ Value(d, base) = m
  BY <1>1 DEF Proper
<1>3. d \in [1..n -> Nat] /\ d[n] \in 0..(base - 1)
  BY <1>1, <1>2
<1>4. f \in [1..k -> 0..(base - 1)] /\ f \in [1..k -> Nat] /\ \A i \in 1..k : d[i] = f[i]
  BY <1>1, <1>2
<1>5. k # 0 => f[1] # 0
  BY <1>2
<1> HIDE DEF f
<1>6. Value(f, base) \in Nat
  BY <1>4, SpellsExists, ValueIs
<1>7. m = Value(f, base) * base + d[n]
  <2>1. d \in [1..(k + 1) -> Nat]
    BY <1>1, <1>3
  <2>2. Value(d, base) = Value(f, base) * base + d[k + 1]
    BY <1>4, <2>1, ValueAppend
  <2> QED
    BY <1>1, <1>2, <2>2
<1>8. m \div base = Value(f, base) /\ m % base = d[n]
  BY <1>3, <1>6, <1>7, DivMod
<1>9. Proper(f, k, m \div base, base)
  BY <1>4, <1>5, <1>8 DEF Proper
<1> QED
  BY <1>1, <1>8, <1>9 DEF f

LEMMA ProperAppend ==
    ASSUME NEW base \in Nat \ {0, 1}, NEW m \in Nat \ {0}, NEW k, NEW f,
           Proper(f, k, m \div base, base)
    PROVE  Proper(Append(f, m % base), k + 1, m, base)
<1> DEFINE q == m \div base
           r == m % base
           d == Append(f, r)
<1>1. /\ q \in Nat /\ r \in 0..(base - 1) /\ r \in Nat
      /\ m = q * base + r
  <2>1. q \in Nat /\ r \in 0..(base - 1) /\ m = base * q + r
    OBVIOUS
  <2>2. base * q = q * base
    BY <2>1
  <2> QED
    BY <2>1, <2>2
<1> HIDE DEF q, r
<1>2. /\ k \in Nat /\ f \in [1..k -> 0..(base - 1)] /\ f \in [1..k -> Nat]
      /\ (k # 0 => f[1] # 0) /\ Value(f, base) = q
  BY ProperOfNone DEF Proper, q
<1>3. PICK n \in Nat \ {0} : n = k + 1
  BY <1>2
<1>4. f \in Seq(0..(base - 1)) /\ Len(f) = k
  BY <1>2
<1>5. /\ d \in [1..n -> 0..(base - 1)] /\ d[n] = r
      /\ \A i \in 1..k : d[i] = f[i]
  <2>1. /\ d \in Seq(0..(base - 1)) /\ Len(d) = k + 1
        /\ \A i \in 1..Len(f) : d[i] = f[i]
        /\ d[Len(f) + 1] = r
    BY <1>1, <1>4, AppendProperties
  <2> HIDE DEF d
  <2>2. d \in [1..n -> 0..(base - 1)]
    BY <1>3, <2>1
  <2> QED
    BY <1>3, <1>4, <2>1, <2>2
<1> HIDE DEF d
<1>6. Value(d, base) = m
  <2>1. d \in [1..(k + 1) -> Nat]
    BY <1>3, <1>5
  <2>2. Value(d, base) = Value(f, base) * base + d[k + 1]
    BY <1>2, <1>5, <2>1, ValueAppend
  <2> QED
    BY <1>1, <1>2, <1>3, <1>5, <2>2
<1>7. d[1] # 0
  <2>1. CASE k = 0
    <3>1. q = 0
      BY <1>2, <2>1, ProperOfNone DEF q
    <3>2. m = r
      BY <1>1, <3>1
    <3> QED
      BY <1>3, <1>5, <2>1, <3>2
  <2>2. CASE k # 0
    BY <1>2, <1>5, <2>2
  <2> QED
    BY <2>1, <2>2
<1>8. Proper(d, n, m, base)
  BY <1>3, <1>5, <1>6, <1>7 DEF Proper
<1> QED
  BY <1>3, <1>8 DEF d, r

\* A number has one row of digits.
LEMMA ProperOne ==
    ASSUME NEW base \in Nat \ {0, 1}
    PROVE  \A m \in Nat : \A d, e, n, k :
               Proper(d, n, m, base) /\ Proper(e, k, m, base) => d = e
<1> DEFINE Two(m) == \E d, e, n, k :
               Proper(d, n, m, base) /\ Proper(e, k, m, base) /\ d # e
           T == {m \in Nat : Two(m)}
<1> SUFFICES ASSUME T # {} PROVE FALSE
  OBVIOUS
<1>1. PICK m \in T : \A i \in T : m <= i
  <2>1. T \subseteq Nat
    OBVIOUS
  <2> QED
    BY <2>1, Least
<1>2. m \in Nat
  OBVIOUS
<1>3. PICK d, e, n, k : Proper(d, n, m, base) /\ Proper(e, k, m, base) /\ d # e
  BY <1>1
<1>4. m # 0
  BY <1>3, ProperOfNone
<1>5. n \in Nat \ {0} /\ k \in Nat \ {0}
  BY <1>3, <1>4, ProperOfNone DEF Proper
<1>6. PICK a \in Nat, b \in Nat : n = a + 1 /\ k = b + 1
  BY <1>5, n - 1 \in Nat, k - 1 \in Nat
<1> DEFINE f == [i \in 1..a |-> d[i]]
           g == [i \in 1..b |-> e[i]]
           q == m \div base
<1>7. /\ Proper(f, a, q, base) /\ d[n] = m % base
      /\ Proper(g, b, q, base) /\ e[k] = m % base
  BY <1>2, <1>3, <1>6, ProperFront
<1>8. q \in Nat /\ q < m
  <2>1. q \in Nat /\ m % base \in Nat /\ m = base * q + (m % base)
    BY <1>2
  <2>2. q # 0 => base * q > q
    BY <2>1
  <2> QED
    BY <1>2, <1>4, <2>1, <2>2
<1> HIDE DEF q
<1>9. f = g
  BY <1>1, <1>7, <1>8
<1>10. a = b
  <2>1. DOMAIN f = 1..a /\ DOMAIN g = 1..b
    OBVIOUS
  <2>2. 1..a = 1..b
    BY <1>9, <2>1
  <2> QED
    BY <2>2
<1>11. Row(d, n) /\ Row(e, n)
  BY <1>3, <1>5, <1>6, <1>10 DEF Proper, Row
<1>12. ASSUME NEW i \in 1..n PROVE d[i] = e[i]
  <2>1. CASE i = n
    BY <1>6, <1>7, <1>10, <2>1
  <2>2. CASE i # n
    <3>1. i \in 1..a /\ f[i] = d[i] /\ g[i] = e[i]
      BY <1>6, <1>10, <2>2
    <3> HIDE DEF f, g
    <3> QED
      BY <1>9, <3>1
  <2> QED
    BY <2>1, <2>2
<1> QED
  BY <1>3, <1>11, <1>12, RowsEqual

LEMMA ProperExists ==
    ASSUME NEW base \in Nat \ {0, 1}
    PROVE  \A m \in Nat : \E d, n : Proper(d, n, m, base)
<1> DEFINE Some(m) == \E d, n : Proper(d, n, m, base)
           T == {m \in Nat : ~Some(m)}
<1> SUFFICES ASSUME T # {} PROVE FALSE
  OBVIOUS
<1>1. PICK m \in T : \A i \in T : m <= i
  <2>1. T \subseteq Nat
    OBVIOUS
  <2> QED
    BY <2>1, Least
<1>2. m # 0
  <2>1. Proper(<<>>, 0, 0, base)
    BY ValueOfNone DEF Proper
  <2> QED
    BY <2>1
<1>3. m \in Nat \ {0}
  BY <1>2
<1>4. PICK q \in Nat : q = m \div base /\ q < m
  <2>1. m \div base \in Nat /\ m % base \in Nat /\ m = base * (m \div base) + (m % base)
    BY <1>3
  <2>2. m \div base # 0 => base * (m \div base) > m \div base
    BY <2>1
  <2> QED
    BY <1>3, <2>1, <2>2
<1>5. Some(q)
  BY <1>1, <1>4
<1>6. PICK f, k : Proper(f, k, q, base)
  BY <1>5
<1>7. Proper(Append(f, m % base), k + 1, m, base)
  BY <1>3, <1>4, <1>6, ProperAppend
<1> QED
  BY <1>1, <1>7

\* The digits divmod yields are the proper ones.
LEMMA DigitsAreProper ==
    ASSUME NEW base \in Nat \ {0, 1}, NEW m \in Nat
    PROVE  \E n : Proper(DigitsOf(m, base), n, m, base)
<1> DEFINE IsProper(d, i) == \E n : Proper(d, n, i, base)
           Digits(i) == CHOOSE d : IsProper(d, i)
           w == [i \in Nat |-> Digits(i)]
           Rec(g) == g = [i \in Nat |->
                            IF i = 0 THEN <<>> ELSE Append(g[i \div base], i % base)]
           f == CHOOSE g : Rec(g)
<1>1. ASSUME NEW i \in Nat PROVE IsProper(w[i], i)
  <2>1. \E d : IsProper(d, i)
    BY ProperExists
  <2> QED
    BY <2>1
<1> HIDE DEF w
<1>2. ASSUME NEW i \in Nat \ {0}
      PROVE  i \div base \in Nat /\ i \div base < i
  <2>1. i \div base \in Nat /\ i % base \in Nat /\ i = base * (i \div base) + (i % base)
    OBVIOUS
  <2>2. i \div base # 0 => base * (i \div base) > i \div base
    BY <2>1
  <2> QED
    BY <2>1, <2>2
<1>3. Rec(w)
  <2>1. ASSUME NEW i \in Nat
        PROVE  w[i] = IF i = 0 THEN <<>> ELSE Append(w[i \div base], i % base)
    <3>1. PICK n : Proper(w[i], n, i, base)
      BY <1>1
    <3>2. CASE i = 0
      BY <3>1, <3>2, ProperOfNone
    <3>3. CASE i # 0
      <4>1. PICK k : Proper(w[i \div base], k, i \div base, base)
        BY <1>1, <1>2, <3>3
      <4>2. Proper(Append(w[i \div base], i % base), k + 1, i, base)
        BY <3>3, <4>1, ProperAppend
      <4>3. w[i] = Append(w[i \div base], i % base)
        BY <3>1, <4>2, ProperOne
      <4> QED
        BY <3>3, <4>3
    <3> QED
      BY <3>2, <3>3
  <2>2. w = [i \in Nat |-> w[i]]
    <3> HIDE DEF Digits
    <3> QED
      BY DEF w
  <2> QED
    BY <2>1, <2>2
<1>4. Rec(f)
  BY <1>3
<1>5. DigitsOf(m, base) = f[m]
  BY DEF DigitsOf
<1> HIDE DEF f
<1>6. f[0] = <<>> /\ \A i \in Nat \ {0} : f[i] = Append(f[i \div base], i % base)
  BY <1>4
<1>7. w[0] = <<>> /\ \A i \in Nat \ {0} : w[i] = Append(w[i \div base], i % base)
  BY <1>3
<1> HIDE DEF Rec, IsProper
<1> DEFINE T == {i \in Nat : w[i] # f[i]}
<1>8. T = {}
  <2> SUFFICES ASSUME T # {} PROVE FALSE
    OBVIOUS
  <2>1. PICK i \in T : \A k \in T : i <= k
    <3>1. T \subseteq Nat
      OBVIOUS
    <3> QED
      BY <3>1, Least
  <2>2. i \in Nat \ {0}
    BY <1>6, <1>7
  <2>3. PICK q \in Nat : q = i \div base /\ q < i
    BY <1>2, <2>2
  <2>4. w[q] = f[q]
    BY <2>1, <2>3
  <2> QED
    BY <1>6, <1>7, <2>1, <2>2, <2>3, <2>4
<1>9. f[m] = w[m]
  BY <1>8
<1> QED
  BY <1>1, <1>5, <1>9 DEF IsProper

LEMMA LeadingZerosAre ==
    ASSUME NEW z \in Nat, NEW n \in Nat, NEW data \in [1..n -> Nat],
           z + 1 <= n, data[z + 1] # 0, \A i \in 1..z : data[i] = 0
    PROVE  LeadingZeros(data) = z
<1> DEFINE S == {i \in DOMAIN data : data[i] # 0}
<1>1. z + 1 \in S /\ \A i \in S : z + 1 <= i
  OBVIOUS
<1> HIDE DEF S
<1>2. S # {} /\ Min(S) = z + 1
  BY <1>1 DEF Min
<1> QED
  BY <1>2 DEF LeadingZeros, S

\* Data with a byte that is not zero: its zeros in front, then the digits of
\* the number it spells.
LEMMA Split ==
    ASSUME NEW base \in Nat \ {0, 1}, NEW n \in Nat,
           NEW data \in [1..n -> 0..(base - 1)], \E i \in 1..n : data[i] # 0
    PROVE  \E z \in Nat : /\ LeadingZeros(data) = z
                          /\ Value(data, base) \in Nat \ {0}
                          /\ data = Zeroes(z) \o DigitsOf(Value(data, base), base)
<1> DEFINE S == {i \in Nat : i \in 1..n /\ data[i] # 0}
<1>1. PICK g \in S : \A i \in S : g <= i
  <2>1. S \subseteq Nat /\ S # {}
    OBVIOUS
  <2> QED
    BY <2>1, Least
<1>2. PICK z \in Nat, k \in Nat \ {0} : g = z + 1 /\ n = z + k
  <2>1. /\ g - 1 \in Nat /\ n - (g - 1) \in Nat \ {0} /\ g = (g - 1) + 1
        /\ n = (g - 1) + (n - (g - 1))
    OBVIOUS
  <2> QED
    BY <2>1
<1> DEFINE rest == [i \in 1..k |-> data[z + i]]
<1>3. data \in [1..n -> Nat]
  OBVIOUS
<1>4. /\ rest \in [1..k -> 0..(base - 1)] /\ rest \in [1..k -> Nat]
      /\ rest[1] # 0 /\ Row(rest, k)
      /\ \A i \in 1..k : data[z + i] = rest[i]
  BY <1>1, <1>2 DEF Row
<1>5. \A i \in 1..z : data[i] = 0
  BY <1>1, <1>2
<1> HIDE DEF rest, S
<1>6. LeadingZeros(data) = z
  <2>1. data[z + 1] # 0 /\ z + 1 <= n
    BY <1>1, <1>2 DEF S
  <2> QED
    BY <1>3, <1>5, <2>1, LeadingZerosAre
<1>7. Value(data, base) = Value(rest, base)
  <2>1. data \in [1..(z + k) -> Nat]
    BY <1>2, <1>3
  <2> QED
    <3>1. Padded(data, z, rest, k)
      BY <1>4, <1>5, <2>1 DEF Padded
    <3> QED
      BY <3>1, ValueZeros
<1>8. Value(rest, base) \in Nat \ {0}
  <2>1. Value(rest, base) \in Nat
    BY <1>4, SpellsExists, ValueIs
  <2> QED
    BY <1>4, <2>1, ValuePositive
<1>9. Proper(rest, k, Value(rest, base), base)
  BY <1>4 DEF Proper
<1>10. DigitsOf(Value(rest, base), base) = rest
  BY <1>8, <1>9, DigitsAreProper, ProperOne
<1>11. data = Zeroes(z) \o rest
  <2>1. Row(Zeroes(z), z) /\ \A i \in 1..z : Zeroes(z)[i] = 0
    BY DEF Row, Zeroes
  <2>2. Joins(Zeroes(z) \o rest, Zeroes(z), z, rest, k)
    BY <1>4, <2>1, Concatenation
  <2>3. PICK u : u = Zeroes(z) \o rest
    OBVIOUS
  <2>4. Row(u, n) /\ Row(data, n)
    BY <1>2, <2>2, <2>3 DEF Joins, Row
  <2>5. ASSUME NEW i \in 1..n PROVE u[i] = data[i]
    <3>1. CASE i \in 1..z
      BY <1>5, <2>1, <2>2, <2>3, <3>1 DEF Joins
    <3>2. CASE i \notin 1..z
      <4>1. PICK j \in 1..k : z + j = i
        BY <1>2, <3>2, i - z \in 1..k
      <4> QED
        BY <1>4, <2>2, <2>3, <4>1 DEF Joins
    <3> QED
      BY <3>1, <3>2
  <2> QED
    BY <2>3, <2>4, <2>5, RowsEqual
<1> QED
  BY <1>6, <1>7, <1>8, <1>10, <1>11

\* Any reader of base58 gets back the bytes that were encoded, leading zeros
\* and all, unless they are zeros only (_b58encode).
THEOREM DecodesBack ==
    ASSUME NEW n \in Nat, NEW data \in [1..n -> 0..(ByteBase - 1)],
           \E i \in 1..n : data[i] # 0
    PROVE  B58Decode(B58Encode(data)) = data /\ B58Encode(data) # <<>>
<1> DEFINE V   == Value(data, ByteBase)
           D   == DigitsOf(V, Symbols)
<1>1. ByteBase \in Nat \ {0, 1} /\ Symbols \in Nat \ {0, 1}
  BY Base58Assumption DEF Base58Assumption
<1>2. PICK z \in Nat : /\ LeadingZeros(data) = z /\ V \in Nat \ {0}
                       /\ data = Zeroes(z) \o DigitsOf(V, ByteBase)
  BY <1>1, Split
<1> HIDE DEF V
<1>3. PICK k : Proper(D, k, V, Symbols)
  BY <1>1, <1>2, DigitsAreProper
<1> HIDE DEF D
<1>4. k \in Nat \ {0} /\ D \in [1..k -> Nat] /\ Row(D, k) /\ D[1] # 0 /\ Value(D, Symbols) = V
  <2>1. D \in [1..k -> Nat] /\ (k = 0 <=> V = 0)
    BY <1>1, <1>3, ProperOfNone
  <2>2. k \in Nat /\ (k # 0 => D[1] # 0) /\ Value(D, Symbols) = V
    BY <1>3, Zenon DEF Proper
  <2>3. k \in Nat \ {0}
    BY <1>2, <2>1, <2>2
  <2>4. Row(D, k)
    BY <2>1, <2>2 DEF Row
  <2> QED
    BY <2>1, <2>2, <2>3, <2>4, Zenon
<1> DEFINE str == Zeroes(z) \o D
<1>5. B58Encode(data) = str
  BY <1>2 DEF B58Encode, V, D
<1>6. Row(Zeroes(z), z) /\ \A i \in 1..z : Zeroes(z)[i] = 0
  BY DEF Row, Zeroes
<1>7. Joins(str, Zeroes(z), z, D, k)
  BY <1>4, <1>6, Concatenation
<1> HIDE DEF str
<1>8. PICK m \in Nat \ {0} : m = z + k
  BY <1>4
<1>9. Row(str, m) /\ Len(str) = m
  BY <1>7, <1>8 DEF Joins
<1>10. (\A i \in 1..z : str[i] = 0) /\ (\A i \in 1..k : str[z + i] = D[i])
  BY <1>6, <1>7 DEF Joins
<1>11. str \in [1..m -> Nat]
  <2>1. ASSUME NEW i \in 1..m PROVE str[i] \in Nat
    <3>1. CASE i \in 1..z
      BY <1>10, <3>1
    <3>2. CASE i \notin 1..z
      <4>1. PICK j \in 1..k : z + j = i
        BY <1>4, <1>8, <3>2, i - z \in 1..k
      <4> QED
        BY <1>4, <1>10, <4>1
    <3> QED
      BY <3>1, <3>2
  <2> QED
    BY <1>9, <2>1 DEF Row
<1>12. LeadingZeros(str) = z
  <2>1. 1 \in 1..k /\ z + 1 <= m
    BY <1>4, <1>8
  <2>2. str[z + 1] # 0
    BY <1>4, <1>10, <2>1
  <2> QED
    BY <1>10, <1>11, <2>1, <2>2, LeadingZerosAre
<1>13. Value(str, Symbols) = V
  <2>1. str \in [1..(z + k) -> Nat]
    BY <1>8, <1>11
  <2> QED
    <3>1. Padded(str, z, D, k)
      BY <1>4, <1>10, <2>1 DEF Padded
    <3>2. Value(str, Symbols) = Value(D, Symbols)
      BY <1>1, <3>1, ValueZeros
    <3> QED
      BY <1>4, <3>2
<1>14. B58Decode(str) = data
  BY <1>2, <1>12, <1>13 DEF B58Decode
<1>15. str # <<>>
  BY <1>9
<1> QED
  BY <1>5, <1>14, <1>15

Byte == 0..(ByteBase - 1)

\* An export is seven fields, the first of them not 0, and a checksum.
LEMMA FieldsAreBytes ==
    ASSUME NEW k, KeyOK(k), k.depth <= MaxDepth, NEW version \in Versions
    PROVE  /\ Raw(k, version) \in [1..7 -> Byte]
           /\ Raw(k, version)[1] # 0
<1>1. version \in Byte /\ version # 0
  BY DerivationAssumption DEF DerivationAssumption, Byte
<1>2. k.depth \in Byte
  <2>1. k.depth \in Nat /\ MaxDepth \in 0..(ByteBase - 1) /\ ByteBase \in Nat
    BY DerivationAssumption, Base58Assumption
       DEF DerivationAssumption, Base58Assumption, KeyOK, Key
  <2> QED
    BY <2>1 DEF Byte
<1>3. k.pfp \in Byte /\ k.sk \in Byte /\ k.cc \in Byte
  BY DerivationAssumption, Base58Assumption
     DEF DerivationAssumption, Base58Assumption, KeyOK, Key, Scalars, Byte
<1>4. k.child \in Byte /\ 0 \in Byte
  BY DerivationAssumption, Base58Assumption
     DEF DerivationAssumption, Base58Assumption, KeyOK, Key, Byte
<1>5. PICK a, b, c, d, e, f : /\ a = k.depth /\ b = k.pfp /\ c = k.child /\ d = k.cc
                              /\ e = k.sk /\ f = version
  OBVIOUS
<1>6. Raw(k, version) = <<f, a, b, c, d, 0, e>>
  BY <1>5 DEF Raw
<1>7. <<f, a, b, c, d, 0, e>> \in [1..7 -> Byte]
  <2> HIDE DEF Byte
  <2>1. a \in Byte /\ b \in Byte /\ c \in Byte /\ d \in Byte /\ e \in Byte /\ f \in Byte
        /\ 0 \in Byte
    BY <1>1, <1>2, <1>3, <1>4, <1>5
  <2> QED
    BY <2>1
<1> QED
  BY <1>1, <1>5, <1>6, <1>7

LEMMA ChecksumIsByte ==
    ASSUME NEW raw \in [1..7 -> Byte]
    PROVE  Checksum(raw) \in Byte
<1>1. ByteBase \in Nat \ {0}
  BY Base58Assumption DEF Base58Assumption
<1>2. raw \in [1..7 -> Nat]
  BY <1>1 DEF Byte
<1>3. Value(raw, 3) \in Nat
  BY <1>2, SpellsExists, ValueIs
<1>4. PICK v \in Nat : v = 1 + Value(raw, 3)
  BY <1>3
<1>5. v % ByteBase \in Byte
  BY <1>1 DEF Byte
<1> QED
  BY <1>4, <1>5 DEF Checksum

\* data is raw with c put after it.
PutLast(data, raw, n, c, S) ==
    /\ data \in [1..(n + 1) -> S]
    /\ \A i \in 1..n : data[i] = raw[i]
    /\ Front(data) = raw
    /\ Last(data) = c

LEMMA LastIsPut ==
    ASSUME NEW S, NEW n \in Nat, NEW raw, raw \in [1..n -> S], NEW c, c \in S
    PROVE  PutLast(Append(raw, c), raw, n, c, S)
<1>1. raw \in Seq(S) /\ Len(raw) = n
  OBVIOUS
<1>2. PICK m \in Nat \ {0} : m = n + 1 /\ m - 1 = n
  OBVIOUS
<1>3. PICK data : data = Append(raw, c)
  OBVIOUS
<1>4. /\ data \in Seq(S) /\ Len(data) = m
      /\ \A i \in 1..n : data[i] = raw[i]
      /\ data[m] = c
  <2>1. /\ Append(raw, c) \in Seq(S) /\ Len(Append(raw, c)) = Len(raw) + 1
        /\ \A i \in 1..Len(raw) : Append(raw, c)[i] = raw[i]
        /\ Append(raw, c)[Len(raw) + 1] = c
    BY <1>1, AppendProperties
  <2> QED
    BY <1>1, <1>2, <1>3, <2>1, Zenon
<1>5. data \in [1..m -> S]
  BY <1>4
<1>6. Last(data) = c
  BY <1>4, Zenon DEF Last
<1>7. Row(data, m) /\ Row(raw, n)
  BY <1>1, <1>2, <1>5 DEF Row
<1>8. PartOf(raw, n, data, m, 1, n)
  <2>1. \A i \in 1..n : raw[i] = data[1 - 1 + i]
    BY <1>4
  <2>2. 1 <= n + 1 /\ n <= m /\ n = n - 1 + 1 /\ 1 \in Nat \ {0}
    BY <1>2
  <2> QED
    BY <1>7, <2>1, <2>2 DEF PartOf
<1>9. SubSeq(data, 1, n) = raw
  BY <1>8, Slices
<1>10. Front(data) = raw
  BY <1>2, <1>4, <1>9, Zenon DEF Front
<1>11. data \in [1..(n + 1) -> S]
  BY <1>2, <1>5, Zenon
<1> QED
  BY <1>3, <1>4, <1>6, <1>10, <1>11, Zenon DEF PutLast

\* An export is read as the key it was made from (to_base58).
THEOREM ExportsDecode == Spec => []ExportDecodes
<1>1. ASSUME NEW k, KeyOK(k), k.depth <= MaxDepth, NEW version \in Versions
      PROVE  LET text == ToBase58(k, version)
                 read == B58Decode(text)
             IN  /\ text # NoText
                 /\ Front(read) = Raw(k, version)
                 /\ Last(read) = Checksum(Front(read))
  <2>1. PICK raw, c : raw = Raw(k, version) /\ c = Checksum(raw)
    OBVIOUS
  <2>2. raw \in [1..7 -> Byte] /\ raw[1] # 0
    BY <1>1, <2>1, FieldsAreBytes
  <2>3. c \in Byte
    BY <2>1, <2>2, ChecksumIsByte
  <2>4. PICK data : data = Append(raw, c)
    OBVIOUS
  <2> PICK n \in Nat : n = 7 + 1
    OBVIOUS
  <2>5. /\ data \in [1..n -> Byte] /\ data[1] # 0
        /\ Front(data) = raw /\ Last(data) = c
    <3>1. PICK m \in Nat : m = 7 /\ m + 1 = n
      OBVIOUS
    <3>2. raw \in [1..m -> Byte]
      BY <2>2, <3>1, Zenon
    <3>3. PutLast(data, raw, m, c, Byte)
      BY <2>3, <2>4, <3>2, LastIsPut, Zenon
    <3>4. data \in [1..n -> Byte] /\ Front(data) = raw /\ Last(data) = c
      BY <3>1, <3>3, Zenon DEF PutLast
    <3>5. 1 \in 1..m
      BY <3>1
    <3>6. data[1] = raw[1]
      BY <3>3, <3>5, Zenon DEF PutLast
    <3> QED
      BY <2>2, <3>4, <3>6, Zenon
  <2>6. B58Decode(B58Encode(data)) = data /\ B58Encode(data) # <<>>
    <3>1. data \in [1..n -> 0..(ByteBase - 1)] /\ \E i \in 1..n : data[i] # 0
      BY <2>4, <2>5 DEF Byte
    <3> QED
      BY <3>1, DecodesBack
  <2>7. ToBase58(k, version) = B58Encode(data)
    BY <1>1, <2>1, <2>4 DEF ToBase58, Exportable, Encoded
  <2> QED
    BY <2>1, <2>5, <2>6, <2>7 DEF NoText
<1>2. ASSUME NEW k, ~(k.depth <= MaxDepth), NEW version
      PROVE  ToBase58(k, version) = NoText
  BY <1>2 DEF ToBase58, Exportable
<1>3. IInv /\ keys # <<>> => KeyOK(Last(keys))
  BY DEF IInv, Last
<1>4. IInv => ExportDecodes
  <2> SUFFICES ASSUME IInv, NEW version \in Versions, keys # <<>>
               PROVE  LET k    == Last(keys)
                          text == ToBase58(k, version)
                      IN  /\ k.depth <= MaxDepth => text # NoText
                          /\ text # NoText =>
                               LET read == B58Decode(text)
                               IN  /\ Front(read) = Raw(k, version)
                                   /\ Last(read) = Checksum(Front(read))
    BY Zenon DEF ExportDecodes
  <2>1. KeyOK(Last(keys))
    BY <1>3
  <2> QED
    BY <1>1, <1>2, <2>1, Zenon
<1> QED
  BY <1>4, Invariance, PTL
=============================================================================
