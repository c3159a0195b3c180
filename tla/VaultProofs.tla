----------------------------- MODULE VaultProofs -----------------------------
(***************************************************************************)
(* KeystoreFile implements Vault: the refinement KeepsPromise, proved.     *)
(*                                                                         *)
(* Every cell after the header tells its keystore, whatever the length of  *)
(* its salt (CellsTell), so bytes match at most one keystore and what they *)
(* mean is well defined (MeansKeystore, MeansNothing).  A write leaves the *)
(* file's last cell either its own or the one that was there, so while     *)
(* saves are under way a file that ends as some keystore does was written  *)
(* whole since it was last emptied (SavesOrdered, WriteLeaves).  Each      *)
(* action is then a step of Vault, or none (one lemma per action).         *)
(***************************************************************************)
EXTENDS KeystoreFileProofs

\* The draw that a cell after the header is of, whatever the salt's length.
Told(cell) == IF cell[1] = "ct" THEN cell[3][1][2] ELSE cell[2]

LEMMA CellTells ==
    ASSUME NEW k, Sound(k), NEW i \in 10..Size(k)
    PROVE  Told(k.blob[i]) = Id(k)
<1> DEFINE salt  == <<"salt", Id(k), i - 9>>
           nonce == <<"nonce", Id(k), i - (9 + Len(k.salt))>>
           ct    == <<"ct", SealKey(k), k.nonce, <<VERSION, 1>>, Plain(k), i - Front(k)>>
<1>1. /\ salt[1] = "salt" /\ salt[2] = Id(k) /\ nonce[1] = "nonce" /\ nonce[2] = Id(k)
      /\ ct[1] = "ct" /\ ct[3] = k.nonce
  OBVIOUS
<1>2. k.blob[i] \in {salt, nonce, ct}
  <2>1. Len(k.salt) \in Nat /\ Front(k) \in Nat
    BY Sizes
  <2>2. i <= 9 + Len(k.salt) \/ (i > 9 + Len(k.salt) /\ i <= Front(k)) \/ i > Front(k)
    BY <2>1
  <2> QED
    BY <2>2, Cells
<1> HIDE DEF salt, nonce, ct
<1> QED
  BY <1>1, <1>2 DEF Told, Id

\* Every cell after the header names the keystore it belongs to.
LEMMA CellsTell ==
    ASSUME NEW M, Created(M), NEW k \in M, NEW l \in M,
           NEW i \in 10..Size(k), i \in 10..Size(l), k.blob[i] = l.blob[i]
    PROVE  k = l
<1>1. Sound(k) /\ Sound(l)
  BY DEF Created
<1>2. Told(k.blob[i]) = Id(k) /\ Told(l.blob[i]) = Id(l)
  BY <1>1, CellTells
<1> QED
  BY <1>2 DEF Created

\* b ends as the blob of k does.
EndsLike(b, k) == Len(b) = Size(k) /\ b[Size(k)] = k.blob[Size(k)]

LEMMA SameEnds ==
    ASSUME NEW k, Sound(k), NEW b, Row(b, Len(b)), SameExcept(b, k.blob, Reserved)
    PROVE  EndsLike(b, k) /\ b[10] = k.blob[10] /\ 10 \in 10..Size(k)
<1>1. Copies(b, k)
  BY CopyIsSame
<1>2. Size(k) \in Nat /\ Size(k) > 10
  BY Sizes
<1> QED
  BY <1>1, <1>2 DEF Copies, EndsLike

-----------------------------------------------------------------------------
\* What bytes mean when M are the keystores made.
Whose(M, b) == {k \in M : SameExcept(b, k.blob, Reserved)}

TheirItem(W) ==
    IF W = {} THEN [password |-> "nobody's"] ELSE ItemOf(CHOOSE k \in W : TRUE)

MeaningIn(M, b) == TheirItem(Whose(M, b))

PendingIn(M, o) == [p \in Savers |-> MeaningIn(M, o[p])]
OpenedIn(M, c)  == [p \in Readers |-> MeaningIn(M, c[p])]
ItemsOf(W)      == {ItemOf(k) : k \in W}
GivenBy(a)      ==
    [password |-> a.password,
     secret   |-> IF a.result.status = "ok" THEN a.result.seed ELSE <<>>]

\* The refinement mapping, before and after a step.
LEMMA Abstraction ==
    /\ Content = MeaningIn(made, file) /\ Content' = MeaningIn(made', file')
    /\ Durable = MeaningIn(made, disk) /\ Durable' = MeaningIn(made', disk')
    /\ Pending = PendingIn(made, out)  /\ Pending' = PendingIn(made', out')
    /\ Opened = OpenedIn(made, ctx)    /\ Opened' = OpenedIn(made', ctx')
    /\ Written = ItemsOf(whole)        /\ Written' = ItemsOf(whole')
    /\ Answers = [p \in Readers |-> GivenBy(answer[p])]
    /\ Answers' = [p \in Readers |-> GivenBy(answer'[p])]
<1>1. Content = MeaningIn(made, file) /\ Content' = MeaningIn(made', file')
  BY DEF Content, Meaning, MeaningIn, TheirItem, Whose
<1>2. Durable = MeaningIn(made, disk) /\ Durable' = MeaningIn(made', disk')
  BY DEF Durable, Meaning, MeaningIn, TheirItem, Whose
<1>3. Pending = PendingIn(made, out) /\ Pending' = PendingIn(made', out')
  BY DEF Pending, PendingIn, Meaning, MeaningIn, TheirItem, Whose
<1>4. Opened = OpenedIn(made, ctx) /\ Opened' = OpenedIn(made', ctx')
  BY DEF Opened, OpenedIn, Meaning, MeaningIn, TheirItem, Whose
<1>5. Written = ItemsOf(whole) /\ Written' = ItemsOf(whole')
  BY DEF Written, ItemsOf
<1>6. /\ Answers = [p \in Readers |-> GivenBy(answer[p])]
      /\ Answers' = [p \in Readers |-> GivenBy(answer'[p])]
  BY DEF Answers, GivenBy
<1> QED
  BY <1>1, <1>2, <1>3, <1>4, <1>5, <1>6

\* Bytes that match a keystore, but for the reserved cell, mean its item.
LEMMA MeansKeystore ==
    ASSUME NEW M, Created(M), NEW k \in M, NEW b, Row(b, Len(b)),
           SameExcept(b, k.blob, Reserved)
    PROVE  MeaningIn(M, b) = ItemOf(k)
<1> DEFINE whose == Whose(M, b)
<1>1. ASSUME NEW l \in whose PROVE l = k
  <2>1. /\ b[10] = k.blob[10] /\ 10 \in 10..Size(k)
        /\ b[10] = l.blob[10] /\ 10 \in 10..Size(l)
    BY SameEnds DEF Created, Whose
  <2>2. l \in M /\ k.blob[10] = l.blob[10]
    BY <2>1 DEF Whose
  <2>3. PICK i : i = 10
    OBVIOUS
  <2> QED
    BY <2>1, <2>2, <2>3, CellsTell
<1>2. k \in whose
  BY DEF Whose
<1> HIDE DEF whose
<1>3. (CHOOSE l \in whose : TRUE) = k
  BY <1>1, <1>2
<1> QED
  BY <1>2, <1>3 DEF MeaningIn, TheirItem, whose

LEMMA MeansNothing ==
    ASSUME NEW M, NEW b, \A k \in M : ~SameExcept(b, k.blob, Reserved)
    PROVE  MeaningIn(M, b) = Promise!Unusable
BY DEF MeaningIn, TheirItem, Whose, Promise!Unusable

LEMMA EmptyMeansNothing ==
    ASSUME NEW M, Created(M)
    PROVE  MeaningIn(M, <<>>) = Promise!Unusable
<1>1. ASSUME NEW k \in M PROVE ~SameExcept(<<>>, k.blob, Reserved)
  <2>1. Len(k.blob) = Size(k) /\ Size(k) > 10
    BY FromItself, Sizes DEF Created
  <2> QED
    BY <2>1 DEF SameExcept
<1> QED
  BY <1>1, MeansNothing

LEMMA AbsentMeansNothing ==
    ASSUME NEW M, Created(M)
    PROVE  MeaningIn(M, NoFile) = Promise!Unusable
<1>1. ASSUME NEW k \in M PROVE ~SameExcept(NoFile, k.blob, Reserved)
  <2>1. Len(k.blob) = Size(k) /\ Size(k) > 10
    BY FromItself, Sizes DEF Created
  <2> QED
    BY <2>1 DEF SameExcept, NoFile
<1> QED
  BY <1>1, MeansNothing

LEMMA ItemsAreUsable ==
    ASSUME NEW M, Created(M), NEW k \in M
    PROVE  /\ ItemOf(k) \in Promise!Item /\ ItemOf(k) # Promise!Unusable
           /\ Len(k.salt) = SaltLen => ItemOf(k).password = k.password
           /\ Len(k.salt) # SaltLen => ItemOf(k).password = "nobody's"
           /\ ItemOf(k).secret = k.seed
<1>1. k.password \in Passwords /\ k.seed \in Seeds
  BY DEF Created, Sound
<1> DEFINE pw == IF Len(k.salt) = SaltLen THEN k.password ELSE "nobody's"
<1>2. pw \in Passwords \cup {"nobody's"}
  BY <1>1
<1> HIDE DEF pw
<1>3. ItemOf(k) = [password |-> pw, secret |-> k.seed]
  BY DEF ItemOf, pw
<1>4. ItemOf(k) \in Promise!Item /\ ItemOf(k).password = pw /\ ItemOf(k).secret = k.seed
  BY <1>1, <1>2, <1>3 DEF Promise!Item
<1>5. ItemOf(k) # Promise!Unusable
  <2>1. "secret" \in DOMAIN ItemOf(k) /\ "secret" \notin DOMAIN Promise!Unusable
    BY <1>3 DEF Promise!Unusable
  <2> QED
    BY <2>1
<1> QED
  BY <1>4, <1>5 DEF pw

\* A new keystore shares no cell with what is stored.
LEMMA MeaningKept ==
    ASSUME NEW M, NEW k, k \notin M, Created(M \cup {k}), NEW b, FromMade(b, M)
    PROVE  MeaningIn(M \cup {k}, b) = MeaningIn(M, b)
<1> DEFINE N == M \cup {k}
<1>1. ~SameExcept(b, k.blob, Reserved)
  <2> SUFFICES ASSUME SameExcept(b, k.blob, Reserved) PROVE FALSE
    OBVIOUS
  <2>1. Sound(k) /\ Row(b, Len(b))
    BY DEF Created, FromMade
  <2>2. b[10] = k.blob[10] /\ 10 \in 10..Size(k) /\ Len(b) = Size(k)
    BY <2>1, SameEnds DEF EndsLike
  <2>3. k.blob[10] = <<"salt", Id(k), 1>>
    <3>1. 10 <= 9 + Len(k.salt)
      BY <2>1, Sizes
    <3>2. PICK i \in 10..Size(k) : i = 10
      BY <2>2
    <3>3. k.blob[i] = <<"salt", Id(k), i - 9>>
      BY <2>1, <3>1, <3>2, Cells
    <3> QED
      BY <3>2, <3>3
  <2>4. b[10] # <<"damaged", 10>>
    BY <2>2, <2>3
  <2>5. PICK l \in M : 10 \in 10..Size(l) /\ b[10] = l.blob[10]
    BY <2>2, <2>4 DEF FromMade
  <2>6. k \in N /\ l \in N /\ Created(N)
    OBVIOUS
  <2> HIDE DEF N
  <2>8. PICK i \in 10..Size(k) : i = 10
    BY <2>2
  <2>9. i \in 10..Size(l) /\ k.blob[i] = l.blob[i]
    BY <2>2, <2>5, <2>8
  <2>7. k = l
    BY <2>6, <2>9, CellsTell
  <2> QED
    BY <2>7
<1>2. Whose(M \cup {k}, b) = Whose(M, b)
  BY <1>1 DEF Whose
<1> QED
  BY <1>2 DEF MeaningIn

\* o holds, for the processes of s and no others, a blob of M.
Saves(M, o, s) ==
    /\ s \subseteq Savers
    /\ \A p \in Savers : o[p] # <<>> <=> p \in s
    /\ \A p \in Savers : o[p] # <<>> => \E k \in M : o[p] = k.blob

\* Something is pending exactly for the processes inside save().
LEMMA PendingSaves ==
    ASSUME NEW M, Created(M), NEW o, NEW s, Saves(M, o, s)
    PROVE  /\ \A p \in Savers : PendingIn(M, o)[p] = Promise!Unusable <=> p \notin s
           /\ PendingIn(M, o) = Promise!Nobody <=> s = {}
<1>1. ASSUME NEW p \in Savers PROVE MeaningIn(M, o[p]) = Promise!Unusable <=> p \notin s
  <2>1. CASE p \in s
    <3>1. PICK k \in M : o[p] = k.blob
      BY <2>1 DEF Saves
    <3>2. MeaningIn(M, k.blob) = ItemOf(k)
      <4>1. Row(k.blob, Len(k.blob)) /\ SameExcept(k.blob, k.blob, Reserved)
        BY FromItself DEF Created, FromMade, SameExcept
      <4> QED
        BY <4>1, MeansKeystore
    <3> QED
      BY <2>1, <3>1, <3>2, ItemsAreUsable
  <2>2. CASE p \notin s
    BY <2>2, EmptyMeansNothing DEF Saves
  <2> QED
    BY <2>1, <2>2
<1>2. PendingIn(M, o) = Promise!Nobody <=> s = {}
  BY <1>1 DEF PendingIn, Promise!Nobody, Saves
<1> QED
  BY <1>1, <1>2 DEF PendingIn

-----------------------------------------------------------------------------
\* An overlapping save is known to be one: a save nothing disturbed writes to
\* the empty file it made, and while saves are under way only what was written
\* whole since the file was last emptied can be there to its last cell.
SavesOrdered ==
    /\ whole \subseteq made
    /\ saving # {} /\ ~disturbed => file = <<>> /\ \E p \in Savers : saving = {p}
    /\ saving # {} => \A k \in made : EndsLike(file, k) => k \in whole

VInv == IInv /\ SavesOrdered

LEMMA VInvFacts ==
    ASSUME VInv
    PROVE  /\ Created(made) /\ AllSound(made)
           /\ Saves(made, out, saving)
           /\ FromMade(file, made) /\ FromMade(disk, made)
           /\ \A p \in Readers : FromMade(ctx[p], made)
BY DEF VInv, IInv, Created, AllSound, Saves, TypeOK, Origins

\* Nothing whose length is below a header's ends like a keystore.
LEMMA ShortEndsLikeNone ==
    ASSUME NEW M, Created(M), NEW k \in M, NEW b, EndsLike(b, k)
    PROVE  Len(b) > 10 /\ b # <<>>
<1>1. Size(k) > 10 /\ Size(k) \in Nat
  BY Sizes DEF Created
<1> QED
  BY <1>1 DEF EndsLike

\* What a write of n cells of out[p] leaves.
LEMMA WriteLeaves ==
    ASSUME VInv, NEW p \in Savers, NEW n \in 0..Len(out[p]), SaveWrite(p, n),
           NEW k \in made, out[p] = k.blob
    PROVE  /\ whole' = IF n = Len(out[p]) THEN whole \cup {k} ELSE whole
           /\ \A l \in made : EndsLike(file', l) => l \in whole'
           /\ ~disturbed /\ n = Len(out[p]) => SameExcept(file', k.blob, Reserved)
           /\ ~disturbed /\ n # Len(out[p]) => \A l \in made : ~EndsLike(file', l)
<1> DEFINE new == out[p]
           r   == Overwrite(file, SubSeq(new, 1, n))
<1>1. /\ Created(made) /\ Sound(k) /\ new = k.blob /\ Len(new) = Size(k) /\ Size(k) \in Nat
      /\ Row(file, Len(file)) /\ Row(new, Len(new)) /\ Len(file) \in Nat
  BY VInvFacts, FromItself DEF Created, FromMade, Row
<1>2. /\ Row(r, Len(r))
      /\ Len(r) = IF n < Len(file) THEN Len(file) ELSE n
      /\ \A i \in 1..n : r[i] = new[i]
      /\ \A i \in (n + 1)..Len(file) : r[i] = file[i]
  BY <1>1, Overwritten
<1>3. file' = r /\ p \in saving
  BY DEF SaveWrite
<1>4. whole' = IF n = Len(new) THEN whole \cup {k} ELSE whole
  <2>1. \A l \in made : l.blob = new => l = k
    <3> SUFFICES ASSUME NEW l \in made, l.blob = k.blob PROVE l = k
      BY <1>1
    <3>1. Size(l) = Size(k) /\ Size(k) > 10
      BY <1>1, FromItself, Sizes DEF Created
    <3>2. PICK i \in 10..Size(k) : i \in 10..Size(l)
      BY <1>1, <3>1
    <3> QED
      BY <1>1, <3>2, CellsTell
  <2>2. whole' = whole \cup {l \in made : l.blob = new /\ n = Len(new)}
    BY DEF SaveWrite, WrittenWhole
  <2> HIDE DEF new
  <2> QED
    BY <1>1, <2>1, <2>2
<1> HIDE DEF new, r
<1>5. ASSUME NEW l \in made, EndsLike(r, l)
      PROVE  \/ n < Len(file) /\ EndsLike(file, l)
             \/ n = Len(new) /\ l = k
  <2> DEFINE z == Size(l)
  <2>1. z > 10 /\ z \in Nat /\ Len(r) = z /\ r[z] = l.blob[z]
    BY <1>1, <1>5, Sizes DEF EndsLike, Created
  <2> HIDE DEF z
  <2>2. CASE n < Len(file)
    <3>1. z = Len(file) /\ z \in (n + 1)..Len(file)
      BY <1>1, <1>2, <2>1, <2>2
    <3>2. file[z] = l.blob[z]
      BY <1>2, <2>1, <3>1
    <3> QED
      BY <2>2, <3>1, <3>2 DEF EndsLike, z
  <2>3. CASE ~(n < Len(file))
    <3>1. z = n /\ n <= Size(k) /\ n \in 1..n /\ n \in 10..Size(k)
      BY <1>1, <1>2, <2>1, <2>3 DEF new
    <3>2. k.blob[n] = l.blob[n]
      BY <1>1, <1>2, <2>1, <3>1
    <3>3. n \in 10..Size(l)
      BY <3>1 DEF z
    <3>4. l = k
      BY <1>1, <3>1, <3>2, <3>3, CellsTell
    <3> QED
      BY <1>1, <3>1, <3>4 DEF z
  <2> QED
    BY <2>2, <2>3
<1>6. \A l \in made : EndsLike(r, l) => l \in whole'
  BY <1>3, <1>4, <1>5 DEF VInv, SavesOrdered
<1>7. ASSUME ~disturbed PROVE file = <<>> /\ Len(file) = 0
  BY <1>3, <1>7 DEF VInv, SavesOrdered
<1>8. ASSUME ~disturbed, n = Len(new) PROVE SameExcept(r, k.blob, Reserved)
  <2>1. Len(r) = Size(k) /\ DOMAIN r = 1..Size(k) /\ Len(k.blob) = Size(k)
    BY <1>1, <1>2, <1>7, <1>8, RowIsSeq
  <2> QED
    BY <1>1, <1>2, <1>8, <2>1 DEF SameExcept
<1>9. ASSUME ~disturbed, n # Len(new) PROVE \A l \in made : ~EndsLike(r, l)
  BY <1>5, <1>7, <1>9
<1> QED
  BY <1>3, <1>4, <1>6, <1>8, <1>9 DEF new

-----------------------------------------------------------------------------
LEMMA VInitially == Init => VInv
<1> SUFFICES ASSUME Init PROVE VInv
  OBVIOUS
<1>1. IInv
  BY Initially
<1> QED
  BY <1>1 DEF Init, VInv, SavesOrdered

\* No bytes end as a keystore that is not made yet will.
LEMMA NewEndsLikeNone ==
    ASSUME NEW M, NEW k, k \notin M, Created(M \cup {k}), NEW b, FromMade(b, M)
    PROVE  ~EndsLike(b, k)
<1> SUFFICES ASSUME EndsLike(b, k) PROVE FALSE
  OBVIOUS
<1> DEFINE N == M \cup {k}
           z == Size(k)
<1>1. Sound(k) /\ z > 10 /\ z \in Nat /\ z > Front(k) /\ Front(k) \in Nat
  BY Sizes DEF Created
<1>2. Len(b) = z /\ b[z] = k.blob[z]
  BY DEF EndsLike
<1>3. z \in 10..Size(k) /\ z \in 10..Len(b)
  BY <1>1, <1>2
<1>4. b[z] # <<"damaged", z>>
  <2> DEFINE c == <<"ct", SealKey(k), k.nonce, <<VERSION, 1>>, Plain(k), z - Front(k)>>
  <2>1. k.blob[z] = c
    BY <1>1, <1>3, Cells
  <2>2. c[1] = "ct" /\ <<"damaged", z>>[1] = "damaged"
    OBVIOUS
  <2> HIDE DEF c
  <2> QED
    BY <1>2, <2>1, <2>2
<1>5. PICK l \in M : z \in 10..Size(l) /\ b[z] = l.blob[z]
  BY <1>3, <1>4 DEF FromMade
<1>6. k \in N /\ l \in N /\ Created(N)
  OBVIOUS
<1> HIDE DEF N, z
<1>7. k = l
  BY <1>2, <1>3, <1>5, <1>6, CellsTell
<1> QED
  BY <1>7

LEMMA VInductive ==
    ASSUME VInv, [Next]_vars
    PROVE  VInv'
<1>1. IInv'
  BY Inductive DEF VInv
<1>2. Created(made')
  BY <1>1 DEF IInv
<1>3. SavesOrdered'
  <2>1. ASSUME NEW pw \in Passwords, NEW seed \in Seeds, NEW params \in ParamSets,
               NEW salt_len \in SaltLens, NEW has_passphrase \in Passphrases,
               Create(pw, seed, params, salt_len, has_passphrase)
        PROVE  SavesOrdered'
    <3>1. PICK k : /\ Id(k) = Cardinality(made) /\ made' = made \cup {k}
                   /\ UNCHANGED <<file, saving, disturbed, whole>>
      BY <2>1, CreateMakes DEF VInv, IInv
    <3>2. k \notin made
      <4>1. Cardinality(made) \in Nat /\ \A l \in made : Id(l) < Cardinality(made)
        BY FS_CardinalityType DEF VInv, IInv, Created
      <4> QED
        BY <3>1, <4>1
    <3>3. ~EndsLike(file, k)
      BY <1>2, <3>1, <3>2, NewEndsLikeNone, VInvFacts
    <3> QED
      BY <3>1, <3>3 DEF VInv, SavesOrdered
  <2>2. ASSUME NEW i \in DOMAIN file, Damage(i) PROVE SavesOrdered'
    <3>1. PICK cell \in Damaged(i) \ {k.blob[i] : k \in {k \in made : i \in DOMAIN k.blob}} :
             file' = [file EXCEPT ![i] = cell]
      BY <2>2 DEF Damage
    <3>2. Row(file, Len(file)) /\ Len(file') = Len(file) /\ DOMAIN file = 1..Len(file)
      BY <1>1, <3>1, VInvFacts, RowIsSeq DEF FromMade, IInv, Origins, Row
    <3>3. ASSUME NEW l \in made, EndsLike(file', l) PROVE EndsLike(file, l)
      <4> DEFINE z == Size(l)
      <4>1. Len(file) = z /\ file'[z] = l.blob[z] /\ z > 10 /\ DOMAIN l.blob = 1..z
        BY <3>2, <3>3, VInvFacts, Sizes, BlobParts DEF EndsLike, AllSound, Parts
      <4> HIDE DEF z
      <4>2. z \in DOMAIN file /\ z \in DOMAIN l.blob
        BY <3>2, <4>1 DEF Row
      <4>3. z # i
        BY <3>1, <4>1, <4>2
      <4>4. file[z] = l.blob[z]
        BY <3>1, <4>1, <4>2, <4>3
      <4> QED
        BY <4>1, <4>4 DEF EndsLike, z
    <3>4. file # <<>>
      OBVIOUS
    <3> QED
      BY <2>2, <3>3, <3>4 DEF Damage, VInv, SavesOrdered
  <2>3. ASSUME NEW p \in Savers, NEW k \in held, SaveOpen(p, k) PROVE SavesOrdered'
    <3>1. ~disturbed' => saving' = {p}
      BY <2>3 DEF SaveOpen
    <3>2. \A l \in made' : ~EndsLike(file', l)
      BY <1>2, <2>3, ShortEndsLikeNone DEF SaveOpen
    <3> QED
      BY <2>3, <3>1, <3>2 DEF SaveOpen, SavesOrdered
  <2>4. ASSUME NEW p \in Savers, NEW n \in 0..Len(out[p]), SaveWrite(p, n) PROVE SavesOrdered'
    <3>1. PICK k \in made : out[p] = k.blob
      BY <2>4 DEF SaveWrite, VInv, IInv, TypeOK
    <3>2. /\ whole' \subseteq made /\ made' = made
          /\ \A l \in made : EndsLike(file', l) => l \in whole'
      BY <2>4, <3>1, WriteLeaves DEF VInv, SavesOrdered, SaveWrite
    <3>3. saving' # {} => disturbed'
      BY <2>4 DEF SaveWrite, VInv, SavesOrdered
    <3> QED
      BY <3>2, <3>3 DEF SavesOrdered
  <2>5. CASE PowerLoss
    BY <2>5 DEF PowerLoss, SavesOrdered
  <2>6. CASE UNCHANGED <<made, file, saving, disturbed, whole>>
    BY <2>6 DEF VInv, SavesOrdered
  <2>7. \A p \in Savers : Len(out[p]) \in Nat \/ p \notin saving
    BY VInvFacts, FromItself DEF Saves, AllSound
  <2>8. ASSUME NEW p \in Savers, NEW n \in (Cuts \cap 0..Len(out[p])) \cup {Len(out[p])},
               SaveWrite(p, n)
        PROVE  n \in 0..Len(out[p])
    BY <2>7, <2>8 DEF SaveWrite
  <2> QED
    BY <2>1, <2>2, <2>3, <2>4, <2>5, <2>6, <2>8 DEF Next, vars, Flush, Open, Unlock
<1> QED
  BY <1>1, <1>3 DEF VInv

-----------------------------------------------------------------------------
LEMMA InitImplements == Init => Promise!Init
<1> SUFFICES ASSUME Init PROVE Promise!Init
  OBVIOUS
<1>1. Created(made) /\ made = {} /\ whole = {}
  BY DEF Init, Created
<1>2. Content = Promise!Unusable /\ Durable = Promise!Unusable
  BY <1>1, Abstraction, AbsentMeansNothing DEF Init
<1>3. Pending = Promise!Nobody
  BY <1>1, Abstraction, EmptyMeansNothing DEF Init, PendingIn, Promise!Nobody
<1>4. Opened = [p \in Readers |-> Promise!Unusable]
  BY <1>1, Abstraction, AbsentMeansNothing DEF Init, OpenedIn
<1>5. Written = {}
  BY <1>1, Abstraction DEF ItemsOf
<1>6. Answers = [p \in Readers |-> Promise!Refused("")]
  BY Abstraction DEF Init, GivenBy, NoAnswer, Raise, Promise!Refused, Promise!Given
<1> QED
  BY <1>2, <1>3, <1>4, <1>5, <1>6 DEF Init, Promise!Init

\* Both sides of an unlock().
LEMMA UnlockGives ==
    ASSUME VInv, NEW p \in Readers, NEW pw \in Passwords \cup {""},
           NEW r, r = IF pw = "" THEN Raise("ValueError") ELSE Unpack(ctx[p], pw)
    PROVE  (IF r.status = "ok" THEN r.seed ELSE <<>>)
             = IF Opened[p].password = pw THEN Opened[p].secret ELSE <<>>
<1> DEFINE b == ctx[p]
<1>1. Created(made) /\ AllSound(made) /\ FromMade(b, made) /\ Row(b, Len(b))
  BY VInvFacts DEF FromMade
<1>2. Opened[p] = MeaningIn(made, b)
  BY Abstraction DEF OpenedIn
<1>3. "nobody's" \notin Passwords \cup {""} /\ "" \notin Passwords
  BY KeystoreAssumption, Zenon DEF KeystoreAssumption
<1>4. r.status = "ok" => pw # "" /\ r = Unpack(b, pw)
  BY DEF Raise
<1> HIDE DEF b
<1>5. r.status = "ok" => OpensAsMade(b, pw, made)
  BY <1>1, <1>4, OpensOnlyWhole
<1>6. CASE \E k \in made : SameExcept(b, k.blob, Reserved)
  <2>1. PICK k \in made : SameExcept(b, k.blob, Reserved)
    BY <1>6
  <2>2. Opened[p] = ItemOf(k)
    BY <1>1, <1>2, <2>1, MeansKeystore
  <2>3. Sound(k) /\ Copies(b, k) /\ pw # "nobody's"
    BY <1>1, <1>3, <2>1, CopyIsSame DEF AllSound
  <2>4. r.status = "ok" => pw = k.password /\ Len(k.salt) = SaltLen
    <3> SUFFICES ASSUME r.status = "ok" PROVE pw = k.password /\ Len(k.salt) = SaltLen
      OBVIOUS
    <3>1. PICK l \in made : /\ SameExcept(b, l.blob, Reserved)
                            /\ pw = l.password /\ Len(l.salt) = SaltLen
      BY <1>5 DEF OpensAsMade
    <3>2. b[10] = l.blob[10] /\ b[10] = k.blob[10]
      BY <1>1, <2>1, <3>1, SameEnds DEF AllSound
    <3>3. l = k
      BY <1>1, <3>2, SameDraw
    <3> QED
      BY <3>1, <3>3
  <2>5. CASE pw = k.password /\ Len(k.salt) = SaltLen
    <3>1. pw # ""
      BY <1>3, <2>3, <2>5 DEF Sound
    <3>2. r = Unpack(b, k.password)
      BY <2>5, <3>1 DEF b
    <3>3. r.status = "ok" /\ r.seed = k.seed
      BY <2>3, <2>5, <3>2, Unpacks
    <3>4. ItemOf(k).password = pw /\ ItemOf(k).secret = k.seed
      BY <1>1, <2>5, ItemsAreUsable
    <3> QED
      BY <2>2, <3>3, <3>4
  <2>6. CASE ~(pw = k.password /\ Len(k.salt) = SaltLen)
    <3>1. r.status # "ok"
      BY <2>4, <2>6
    <3>2. ItemOf(k).password # pw
      BY <1>1, <2>3, <2>6, ItemsAreUsable
    <3> QED
      BY <2>2, <3>1, <3>2
  <2> QED
    BY <2>5, <2>6
<1>7. CASE ~\E k \in made : SameExcept(b, k.blob, Reserved)
  <2>1. Opened[p] = Promise!Unusable
    BY <1>2, <1>7, MeansNothing
  <2>2. Opened[p].password # pw
    <3>1. Promise!Unusable.password = "nobody's"
      BY DEF Promise!Unusable
    <3>2. pw # "nobody's"
      BY <1>3, Zenon
    <3> QED
      BY <2>1, <3>1, <3>2
  <2>3. r.status # "ok"
    BY <1>5, <1>7 DEF OpensAsMade
  <2> QED
    BY <2>2, <2>3
<1> QED
  BY <1>6, <1>7

\* Where the keystores and what a variable holds are the same, so is what it
\* means.
LEMMA SameMeaning ==
    /\ UNCHANGED <<made, file>> => UNCHANGED Content
    /\ UNCHANGED <<made, disk>> => UNCHANGED Durable
    /\ UNCHANGED <<made, out>> => UNCHANGED Pending
    /\ UNCHANGED <<made, ctx>> => UNCHANGED Opened
    /\ UNCHANGED whole => UNCHANGED Written
    /\ UNCHANGED answer => UNCHANGED Answers
BY Abstraction

\* One lemma per action: create() is no step of Vault, the others are its steps.
LEMMA CreateImplements ==
    ASSUME VInv, VInv',
           NEW pw \in Passwords, NEW seed \in Seeds, NEW params \in ParamSets,
           NEW salt_len \in SaltLens, NEW has_passphrase \in Passphrases,
           Create(pw, seed, params, salt_len, has_passphrase)
    PROVE  UNCHANGED Promise!vars
<1>1. PICK k : /\ Id(k) = Cardinality(made) /\ made' = made \cup {k}
               /\ UNCHANGED <<file, disk, saving, out, ctx, answer, disturbed, whole, faults>>
  BY CreateMakes DEF VInv, IInv
<1>2. k \notin made
  <2>1. Cardinality(made) \in Nat /\ \A l \in made : Id(l) < Cardinality(made)
    BY FS_CardinalityType DEF VInv, IInv, Created
  <2> QED
    BY <1>1, <2>1
<1>3. Created(made \cup {k})
  BY <1>1 DEF VInv, IInv
<1>4. ASSUME NEW b, FromMade(b, made) PROVE MeaningIn(made', b) = MeaningIn(made, b)
  BY <1>1, <1>2, <1>3, <1>4, MeaningKept
<1>5. FromMade(file, made) /\ FromMade(disk, made) /\ \A p \in Readers : FromMade(ctx[p], made)
  BY VInvFacts
<1>6. \A p \in Savers : FromMade(out[p], made)
  <2>1. ASSUME NEW p \in Savers PROVE FromMade(out[p], made)
    <3>1. CASE out[p] = <<>>
      BY <3>1, FromNothing
    <3>2. CASE out[p] # <<>>
      BY <3>2, VInvFacts, FromItself DEF Saves, AllSound
    <3> QED
      BY <3>1, <3>2
  <2> QED
    BY <2>1
<1>7. UNCHANGED Content /\ UNCHANGED Durable
  BY <1>1, <1>4, <1>5, Abstraction
<1>8. UNCHANGED Pending
  BY <1>1, <1>4, <1>6, Abstraction DEF PendingIn
<1>9. UNCHANGED Opened
  BY <1>1, <1>4, <1>5, Abstraction DEF OpenedIn
<1>10. UNCHANGED Written /\ UNCHANGED Answers /\ UNCHANGED disturbed
  BY <1>1, SameMeaning
<1> QED
  BY <1>7, <1>8, <1>9, <1>10 DEF Promise!vars

\* A damaged cell spoils what is there, unless it is the reserved one.
LEMMA DamageImplements ==
    ASSUME VInv, VInv', NEW i \in DOMAIN file, Damage(i)
    PROVE  Promise!Damage \/ UNCHANGED Promise!vars
<1>1. PICK cell \in Damaged(i) \ {k.blob[i] : k \in {k \in made : i \in DOMAIN k.blob}} :
         file' = [file EXCEPT ![i] = cell]
  BY DEF Damage
<1>2. /\ file = disk /\ disk' = file'
      /\ UNCHANGED <<made, held, saving, out, ctx, answer, disturbed, whole>>
  BY DEF Damage
<1>3. /\ DOMAIN file = 1..Len(file) /\ DOMAIN file' = 1..Len(file')
      /\ Row(file, Len(file)) /\ Row(file', Len(file'))
      /\ Len(file) \in Nat /\ Len(file') \in Nat
  BY VInvFacts, RowIsSeq DEF FromMade, VInv, IInv, Origins, Row
<1>4. DOMAIN file' = DOMAIN file /\ Len(file') = Len(file)
  <2>1. DOMAIN file' = DOMAIN file
    BY <1>1
  <2> DEFINE m == Len(file')
             n == Len(file)
  <2>2. m \in Nat /\ n \in Nat /\ 1..m = 1..n
    BY <1>3, <2>1
  <2> HIDE DEF m, n
  <2>3. m = n
    BY <2>2
  <2> QED
    BY <2>1, <2>3 DEF m, n
<1>5. UNCHANGED <<Pending, disturbed, Written, Opened, Answers>>
  BY <1>2, SameMeaning
<1>6. CASE i = 9
  <2>1. ASSUME NEW k \in made
        PROVE  SameExcept(file', k.blob, Reserved) <=> SameExcept(file, k.blob, Reserved)
    BY <1>1, <1>4, <1>6 DEF SameExcept, Reserved
  <2>2. Whose(made, file') = Whose(made, file)
    BY <2>1 DEF Whose
  <2>3. MeaningIn(made, file') = MeaningIn(made, file)
    BY <2>2 DEF MeaningIn
  <2>4. UNCHANGED <<Content, Durable>>
    BY <1>2, <2>3, Abstraction
  <2> QED
    BY <1>5, <2>4 DEF Promise!vars
<1>7. CASE i # 9
  <2>1. ASSUME NEW k \in made PROVE ~SameExcept(file', k.blob, Reserved)
    <3> SUFFICES ASSUME SameExcept(file', k.blob, Reserved) PROVE FALSE
      OBVIOUS
    <3>1. DOMAIN k.blob = 1..Size(k) /\ Len(k.blob) = Size(k)
      BY VInvFacts, BlobParts DEF AllSound, Parts
    <3>2. i \in DOMAIN k.blob /\ file'[i] = k.blob[i]
      BY <1>3, <1>4, <1>7, <3>1 DEF SameExcept, Reserved
    <3>3. file'[i] = cell
      BY <1>1
    <3> QED
      BY <1>1, <3>2, <3>3
  <2>2. MeaningIn(made, file') = Promise!Unusable
    BY <2>1, MeansNothing
  <2>3. Content' = Promise!Unusable /\ Durable' = Promise!Unusable
    BY <1>2, <2>2, Abstraction
  <2>4. Promise!Damage
    BY <1>5, <2>3 DEF Promise!Damage
  <2> QED
    BY <2>4
<1> QED
  BY <1>6, <1>7

LEMMA FlushImplements == ASSUME VInv, Flush PROVE Promise!Flush
<1>1. /\ disk' \in {file, <<>>}
      /\ UNCHANGED <<made, held, file, saving, out, ctx, answer, disturbed, whole, faults>>
  BY DEF Flush
<1>2. UNCHANGED <<Content, Pending, disturbed, Written, Opened, Answers>>
  BY <1>1, SameMeaning
<1>3. Durable' \in {Content, Promise!Unusable}
  <2>1. CASE disk' = file
    BY <1>1, <2>1, Abstraction
  <2>2. CASE disk' = <<>>
    BY <1>1, <2>2, Abstraction, EmptyMeansNothing, VInvFacts
  <2> QED
    BY <1>1, <2>1, <2>2
<1> QED
  BY <1>2, <1>3 DEF Promise!Flush

LEMMA PowerLossImplements == ASSUME VInv, PowerLoss PROVE Promise!PowerLoss
<1>1. Created(made) /\ made' = made
  BY VInvFacts DEF PowerLoss
<1>2. Content' = Durable /\ UNCHANGED Durable
  BY <1>1, Abstraction DEF PowerLoss
<1>3. Pending' = Promise!Nobody
  BY <1>1, Abstraction, EmptyMeansNothing DEF PowerLoss, PendingIn, Promise!Nobody
<1>4. Written' = {} /\ disturbed' = FALSE
  BY Abstraction DEF PowerLoss, ItemsOf
<1>5. Opened' = [p \in Readers |-> Promise!Unusable]
  BY <1>1, Abstraction, AbsentMeansNothing DEF PowerLoss, OpenedIn
<1>6. Answers' = [p \in Readers |-> Promise!Refused("")]
  BY Abstraction DEF PowerLoss, GivenBy, NoAnswer, Raise, Promise!Refused, Promise!Given
<1> QED
  BY <1>2, <1>3, <1>4, <1>5, <1>6 DEF Promise!PowerLoss

LEMMA SaveOpenImplements ==
    ASSUME VInv, NEW p \in Savers, NEW k \in held, SaveOpen(p, k)
    PROVE  \E item \in Promise!Item : Promise!BeginSave(p, item)
<1>1. k \in made /\ Created(made) /\ Saves(made, out, saving) /\ p \notin saving
  BY VInvFacts DEF VInv, IInv, TypeOK, SaveOpen
<1>2. /\ UNCHANGED <<made, disk, ctx, answer>> /\ disturbed' = (saving # {})
      /\ file' = <<>> /\ whole' = {} /\ out' = [out EXCEPT ![p] = k.blob]
      /\ DOMAIN out = Savers
  BY DEF SaveOpen, VInv, IInv, Domains
<1>3. UNCHANGED <<Durable, Opened, Answers>>
  BY <1>2, SameMeaning
<1>4. Written' = {}
  BY <1>2, Abstraction DEF ItemsOf
<1>5. Content' = Promise!Unusable
  BY <1>1, <1>2, Abstraction, EmptyMeansNothing
<1>6. Pending[p] = Promise!Unusable /\ (disturbed' = (Pending # Promise!Nobody))
  BY <1>1, <1>2, Abstraction, PendingSaves
<1>7. Pending' = [Pending EXCEPT ![p] = ItemOf(k)]
  <2>1. MeaningIn(made, k.blob) = ItemOf(k)
    <3>1. Row(k.blob, Len(k.blob)) /\ SameExcept(k.blob, k.blob, Reserved)
      BY <1>1, FromItself DEF Created, FromMade, SameExcept
    <3> QED
      BY <1>1, <3>1, MeansKeystore
  <2>2. \A q \in Savers : MeaningIn(made, out'[q]) = IF q = p THEN ItemOf(k)
                                                     ELSE MeaningIn(made, out[q])
    BY <1>2, <2>1
  <2> QED
    BY <1>2, <2>2, Abstraction DEF PendingIn
<1>8. ItemOf(k) \in Promise!Item
  BY <1>1, ItemsAreUsable
<1>9. Promise!BeginSave(p, ItemOf(k))
  BY <1>3, <1>4, <1>5, <1>6, <1>7 DEF Promise!BeginSave
<1> QED
  BY <1>8, <1>9

LEMMA SaveWriteImplements ==
    ASSUME VInv, VInv', NEW p \in Savers, NEW n \in 0..Len(out[p]), SaveWrite(p, n)
    PROVE  Promise!CompleteSave(p) \/ Promise!AbandonSave(p)
<1>1. /\ Created(made) /\ Saves(made, out, saving) /\ p \in saving
      /\ Created(made') /\ Saves(made', out', saving')
  BY VInvFacts DEF SaveWrite, VInv, IInv, Saves, TypeOK
<1>2. PICK k \in made : out[p] = k.blob
  BY <1>1 DEF Saves
<1>3. /\ UNCHANGED <<made, disk, ctx, answer>>
      /\ disturbed' = (disturbed /\ saving # {p}) /\ saving' = saving \ {p}
      /\ out' = [out EXCEPT ![p] = <<>>] /\ DOMAIN out = Savers
  BY DEF SaveWrite, VInv, IInv, Domains
<1>4. UNCHANGED <<Durable, Opened, Answers>>
  BY <1>3, SameMeaning
<1>5. Row(file', Len(file'))
  BY DEF VInv, IInv, Origins, FromMade
<1>6. /\ whole' = IF n = Len(out[p]) THEN whole \cup {k} ELSE whole
      /\ \A l \in made : EndsLike(file', l) => l \in whole'
      /\ ~disturbed /\ n = Len(out[p]) => SameExcept(file', k.blob, Reserved)
      /\ ~disturbed /\ n # Len(out[p]) => \A l \in made : ~EndsLike(file', l)
  BY <1>2, WriteLeaves
<1>7. Pending[p] = ItemOf(k) /\ Pending[p] # Promise!Unusable
  <2>1. Row(k.blob, Len(k.blob)) /\ SameExcept(k.blob, k.blob, Reserved)
    BY <1>1, FromItself DEF Created, FromMade, SameExcept
  <2>2. MeaningIn(made, k.blob) = ItemOf(k)
    BY <1>1, <2>1, MeansKeystore
  <2> QED
    BY <1>1, <1>2, <2>2, Abstraction, ItemsAreUsable DEF PendingIn
<1>8. Pending' = [Pending EXCEPT ![p] = Promise!Unusable]
  <2>1. MeaningIn(made, <<>>) = Promise!Unusable
    BY <1>1, EmptyMeansNothing
  <2>2. \A q \in Savers : MeaningIn(made, out'[q]) = IF q = p THEN Promise!Unusable
                                                     ELSE MeaningIn(made, out[q])
    BY <1>3, <2>1
  <2> QED
    BY <1>3, <2>2, Abstraction DEF PendingIn
<1>9. disturbed' = (disturbed /\ Pending' # Promise!Nobody)
  <2>1. Pending' = Promise!Nobody <=> saving' = {}
    BY <1>1, Abstraction, PendingSaves
  <2> QED
    BY <1>1, <1>3, <2>1
<1>10. Promise!EndSave(p)
  BY <1>4, <1>7, <1>8, <1>9 DEF Promise!EndSave
<1>11. Content' \in Written' \cup {Promise!Unusable}
  <2>1. CASE \E l \in made : SameExcept(file', l.blob, Reserved)
    <3>1. PICK l \in made : SameExcept(file', l.blob, Reserved)
      BY <2>1
    <3>2. l \in whole'
      BY <1>1, <1>5, <1>6, <3>1, SameEnds DEF Created
    <3>3. Content' = ItemOf(l)
      BY <1>1, <1>3, <1>5, <3>1, Abstraction, MeansKeystore
    <3> QED
      BY <3>2, <3>3, Abstraction DEF ItemsOf
  <2>2. CASE ~\E l \in made : SameExcept(file', l.blob, Reserved)
    BY <1>3, <2>2, Abstraction, MeansNothing
  <2> QED
    BY <2>1, <2>2
<1>12. CASE n = Len(out[p])
  <2>1. Written' = Written \cup {Pending[p]}
    BY <1>6, <1>7, <1>12, Abstraction DEF ItemsOf
  <2>2. ~disturbed => Content' = Pending[p]
    BY <1>1, <1>3, <1>5, <1>6, <1>7, <1>12, Abstraction, MeansKeystore
  <2>3. Promise!CompleteSave(p)
    BY <1>10, <1>11, <2>1, <2>2 DEF Promise!CompleteSave
  <2> QED
    BY <2>3
<1>13. CASE n # Len(out[p])
  <2>1. UNCHANGED Written
    BY <1>6, <1>13, SameMeaning
  <2>2. ~disturbed => Content' = Promise!Unusable
    <3> SUFFICES ASSUME ~disturbed PROVE Content' = Promise!Unusable
      OBVIOUS
    <3>1. \A l \in made : ~SameExcept(file', l.blob, Reserved)
      BY <1>1, <1>5, <1>6, <1>13, SameEnds DEF Created
    <3> QED
      BY <1>3, <3>1, Abstraction, MeansNothing
  <2>3. Promise!AbandonSave(p)
    BY <1>10, <1>11, <2>1, <2>2 DEF Promise!AbandonSave
  <2> QED
    BY <2>3
<1> QED
  BY <1>12, <1>13

LEMMA OpenImplements ==
    ASSUME VInv, NEW p \in Readers, Open(p)
    PROVE  Promise!Open(p)
<1>1. /\ UNCHANGED <<made, file, disk, out, disturbed, whole>>
      /\ ctx' = [ctx EXCEPT ![p] = file] /\ DOMAIN ctx = Readers
      /\ answer' = [answer EXCEPT ![p] = NoAnswer] /\ DOMAIN answer = Readers
  BY DEF Open, VInv, IInv, Domains
<1>2. UNCHANGED <<Content, Durable, Pending, Written>>
  BY <1>1, SameMeaning
<1>3. Opened' = [Opened EXCEPT ![p] = Content]
  <2>1. \A q \in Readers : MeaningIn(made, ctx'[q]) = IF q = p THEN MeaningIn(made, file)
                                                      ELSE MeaningIn(made, ctx[q])
    BY <1>1
  <2> QED
    BY <1>1, <2>1, Abstraction DEF OpenedIn
<1>4. Answers' = [Answers EXCEPT ![p] = Promise!Refused("")]
  <2>1. GivenBy(NoAnswer) = Promise!Refused("")
    BY DEF GivenBy, NoAnswer, Raise, Promise!Refused, Promise!Given
  <2>2. \A q \in Readers : GivenBy(answer'[q]) = IF q = p THEN Promise!Refused("")
                                                 ELSE GivenBy(answer[q])
    BY <1>1, <2>1
  <2> QED
    BY <2>2, Abstraction
<1> QED
  BY <1>1, <1>2, <1>3, <1>4 DEF Promise!Open

LEMMA UnlockImplements ==
    ASSUME VInv, NEW p \in Readers, NEW pw \in Passwords \cup {""}, Unlock(p, pw)
    PROVE  Promise!Unlock(p, pw)
<1> DEFINE r == IF pw = "" THEN Raise("ValueError") ELSE Unpack(ctx[p], pw)
           a == [password |-> pw, result |-> r]
<1>1. /\ UNCHANGED <<made, file, disk, out, ctx, disturbed, whole>>
      /\ answer' = [answer EXCEPT ![p] = a] /\ DOMAIN answer = Readers
  BY DEF Unlock, VInv, IInv, Domains
<1>2. UNCHANGED <<Content, Durable, Pending, Written, Opened>>
  BY <1>1, SameMeaning
<1>8. r = IF pw = "" THEN Raise("ValueError") ELSE Unpack(ctx[p], pw)
  OBVIOUS
<1> HIDE DEF r
<1>3. (IF r.status = "ok" THEN r.seed ELSE <<>>)
        = IF Opened[p].password = pw THEN Opened[p].secret ELSE <<>>
  BY <1>8, UnlockGives
<1>4. a.result = r /\ a.password = pw
  OBVIOUS
<1> HIDE DEF a
<1>5. GivenBy(a) = IF Opened[p].password = pw THEN Promise!Given(pw, Opened[p].secret)
                                             ELSE Promise!Refused(pw)
  BY <1>3, <1>4 DEF GivenBy, Promise!Given, Promise!Refused
<1>6. \A q \in Readers : GivenBy(answer'[q]) = IF q = p THEN GivenBy(a) ELSE GivenBy(answer[q])
  BY <1>1
<1>7. Answers' = [Answers EXCEPT ![p] = GivenBy(a)]
  BY <1>6, Abstraction
<1> QED
  BY <1>1, <1>2, <1>5, <1>7 DEF Promise!Unlock

LEMMA StepImplements ==
    ASSUME VInv, VInv', [Next]_vars
    PROVE  [Promise!Next]_(Promise!vars)
<1>1. ASSUME NEW pw \in Passwords, NEW seed \in Seeds, NEW params \in ParamSets,
             NEW salt_len \in SaltLens, NEW has_passphrase \in Passphrases,
             Create(pw, seed, params, salt_len, has_passphrase)
      PROVE  [Promise!Next]_(Promise!vars)
  BY <1>1, CreateImplements
<1>2. ASSUME NEW i \in DOMAIN file, Damage(i) PROVE [Promise!Next]_(Promise!vars)
  BY <1>2, DamageImplements DEF Promise!Next
<1>3. CASE Flush
  BY <1>3, FlushImplements DEF Promise!Next
<1>4. CASE PowerLoss
  BY <1>4, PowerLossImplements DEF Promise!Next
<1>5. ASSUME NEW p \in Savers, NEW k \in held, SaveOpen(p, k)
      PROVE  [Promise!Next]_(Promise!vars)
  BY <1>5, SaveOpenImplements DEF Promise!Next
<1>6. ASSUME NEW p \in Savers, NEW n \in (Cuts \cap 0..Len(out[p])) \cup {Len(out[p])},
             SaveWrite(p, n)
      PROVE  [Promise!Next]_(Promise!vars)
  <2>1. Len(out[p]) \in Nat
    BY <1>6, VInvFacts, FromItself DEF SaveWrite, Saves, AllSound
  <2>2. n \in 0..Len(out[p])
    BY <2>1
  <2> QED
    BY <1>6, <2>2, SaveWriteImplements DEF Promise!Next
<1>7. ASSUME NEW p \in Readers, Open(p) PROVE [Promise!Next]_(Promise!vars)
  BY <1>7, OpenImplements DEF Promise!Next
<1>8. ASSUME NEW p \in Readers, NEW pw \in Passwords \cup {""}, Unlock(p, pw)
      PROVE  [Promise!Next]_(Promise!vars)
  BY <1>8, UnlockImplements DEF Promise!Next
<1>9. CASE UNCHANGED vars
  BY <1>9, SameMeaning DEF vars, Promise!vars
<1> QED
  BY <1>1, <1>2, <1>3, <1>4, <1>5, <1>6, <1>7, <1>8, <1>9 DEF Next

\* The keystore file implements Vault, whatever the lengths of the salts:
\* overlapping saves, writes cut short, damaged cells, power losses and a salt
\* that does not fit its slot are the only ways to lose an item, and none of
\* them leaves another.
THEOREM ImplementsVault == Spec => KeepsPromise
<1>1. Init => VInv /\ Promise!Init
  BY VInitially, InitImplements
<1>2. VInv /\ [Next]_vars => VInv'
  BY VInductive
<1>3. VInv /\ VInv' /\ [Next]_vars => [Promise!Next]_(Promise!vars)
  BY StepImplements
<1> QED
  BY <1>1, <1>2, <1>3, PTL DEF Spec, KeepsPromise, Promise!Spec
=============================================================================
