---------------------------- MODULE KeystoreFile ----------------------------
(***************************************************************************)
(* Keystore objects, the file they are saved to, and the processes that    *)
(* save, open and unlock it (keystore.py over envelope.py).                *)
(*                                                                         *)
(* save() is Path.write_bytes: the file is opened with O_TRUNC, then its   *)
(* bytes are written from offset 0; between the two, and part-way through  *)
(* the write (disk full, process killed), anything can happen.  Nothing in *)
(* the library locks the file, replaces it atomically or syncs it, so what *)
(* is on the disk lags behind what processes read until the system writes  *)
(* it back, and a power loss takes the file back to that.                  *)
(***************************************************************************)
EXTENDS Envelope, FiniteSets

CONSTANTS Savers,        \* processes or threads that save to one path
          Readers,       \* those that open it and unlock
          Passwords,     \* non-empty passwords
          Seeds,         \* entropies of mnemonics, as sequences of bytes
          ParamSets,     \* header fields an Argon2Params is constructed with
          SaltLens,      \* the salt_len those Argon2Params can have
          Passphrases,   \* values of has_passphrase
          Cuts,          \* bound: where a write can stop short
          MaxKeystores,  \* bound: keystores created
          MaxFaults      \* bound: cells damaged on the medium

ASSUME KeystoreAssumption ==
    /\ "" \notin Passwords /\ "nobody's" \notin Passwords
    /\ \A seed \in Seeds : seed \in Seq(0..255) /\ seed # <<>>
    /\ ParamSets \subseteq [time_cost : Nat, memory_cost : Nat, parallelism : Nat,
                              hash_len : Nat, version : Nat]
    /\ SaltLens \subseteq Nat \ {0}
    /\ Passphrases \subseteq BOOLEAN
    /\ Cuts \subseteq Nat
    /\ MaxKeystores \in Nat /\ MaxFaults \in Nat

VARIABLES made,      \* history: every Keystore created, with what it was made from
          held,      \* those some process still has
          file,      \* cells at the path
          disk,      \* those that would survive a power loss
          saving,    \* processes between the two steps of save()
          out,       \* the blob each process saves
          ctx,       \* KeystoreContext._blob of each process
          answer,    \* the last unlock() on that context
          disturbed, \* history: saves overlap
          whole,     \* history: Keystores written whole since the truncation
          faults     \* history: cells damaged so far

vars == <<made, held, file, disk, saving, out, ctx, answer, disturbed, whole, faults>>

NoFile   == <<"absent">>
NoAnswer == [password |-> "", result |-> Raise("none")]

Init ==
    /\ made = {} /\ held = {}
    /\ file = NoFile /\ disk = NoFile
    /\ saving = {}
    /\ out = [p \in Savers |-> <<>>]
    /\ ctx = [p \in Readers |-> NoFile]
    /\ answer = [p \in Readers |-> NoAnswer]
    /\ disturbed = FALSE /\ whole = {}
    /\ faults = 0

\* secrets.token_bytes / os.urandom: each draw is new.
Random(kind, id, n) == [i \in 1..n |-> <<kind, id, i>>]

\* Keystore.create(mnemonic, password, params, has_passphrase).  Only calls
\* that return are steps; the others raise before anything is kept.
Create(pw, seed, params, salt_len, has_passphrase) ==
    LET salt   == Random("salt", Cardinality(made), salt_len)
        nonce  == Random("nonce", Cardinality(made), NonceLen)
        flags  == IF has_passphrase THEN 1 ELSE 0
        packed == Pack(seed, pw, params, 1, flags, 0, salt, nonce)
        k      == [password |-> pw, seed |-> seed, params |-> params, flags |-> flags,
                   salt |-> salt, nonce |-> nonce, blob |-> packed.blob]
    IN  /\ Cardinality(made) < MaxKeystores
        /\ ValidParams(params)
        /\ packed.status = "ok"
        /\ made' = made \cup {k}
        /\ held' = held \cup {k}
        /\ UNCHANGED <<file, disk, saving, out, ctx, answer, disturbed, whole, faults>>

\* Faulty variant: the file is opened for update and not truncated.
SaveOpenInPlace(p, k) ==
    /\ p \notin saving
    /\ saving' = saving \cup {p}
    /\ disturbed' = (saving # {})
    /\ out' = [out EXCEPT ![p] = k.blob]
    /\ file' = IF file = NoFile THEN <<>> ELSE file
    /\ whole' = {}
    /\ UNCHANGED <<made, held, disk, ctx, answer, faults>>

\* save(): open(path, "wb") truncates whatever was there.
SaveOpen(p, k) ==
    /\ p \notin saving
    /\ saving' = saving \cup {p}
    /\ disturbed' = (saving # {})
    /\ out' = [out EXCEPT ![p] = k.blob]
    /\ file' = <<>>
    /\ whole' = {}
    /\ UNCHANGED <<made, held, disk, ctx, answer, faults>>

Overwrite(old, new) == new \o SubSeq(old, Len(new) + 1, Len(old))

\* What save() has written once n cells of out[p] are in the file.
WrittenWhole(p, n) ==
    whole \cup {k \in made : k.blob = out[p] /\ n = Len(out[p])}

\* Faulty variant: the file is left open after the write.
SaveWriteNoClose(p, n) ==
    /\ p \in saving
    /\ file' = Overwrite(file, SubSeq(out[p], 1, n))
    /\ out' = [out EXCEPT ![p] = <<>>]
    /\ whole' = WrittenWhole(p, n)
    /\ UNCHANGED <<made, held, disk, saving, ctx, answer, disturbed, faults>>

\* The first n cells reach the file, from offset 0; with all of them save()
\* returns, with fewer it raises OSError or the process dies.
SaveWrite(p, n) ==
    /\ p \in saving
    /\ file' = Overwrite(file, SubSeq(out[p], 1, n))
    /\ saving' = saving \ {p}
    /\ disturbed' = (disturbed /\ saving # {p})
    /\ out' = [out EXCEPT ![p] = <<>>]
    /\ whole' = WrittenWhole(p, n)
    /\ UNCHANGED <<made, held, disk, ctx, answer, faults>>

\* Keystore.open(path): a missing file raises FileNotFoundError.
Open(p) ==
    /\ file # NoFile
    /\ ctx' = [ctx EXCEPT ![p] = file]
    /\ answer' = [answer EXCEPT ![p] = NoAnswer]
    /\ UNCHANGED <<made, held, file, disk, saving, out, disturbed, whole, faults>>

\* KeystoreContext.unlock(password): SecretBytes refuses an empty password.
Unlock(p, pw) ==
    /\ ctx[p] # NoFile
    /\ answer' = [answer EXCEPT ![p] =
                    [password |-> pw,
                     result   |-> IF pw = "" THEN Raise("ValueError")
                                  ELSE Unpack(ctx[p], pw)]]
    /\ UNCHANGED <<made, held, file, disk, saving, out, ctx, disturbed, whole, faults>>

\* One cell of the file changes on the medium, to what no keystore has there:
\* a scalar of the header to another value, any other byte to one of its own.
Damaged(i) ==
    CASE i = 1            -> {"kst1"}
      [] i \in 2..3       -> {2}
      [] i \in OffKdf..8  -> {0, file[i] + 1}
      [] i = 9            -> {1}
      [] OTHER            -> {<<"damaged", i>>}

Damage(i) ==
    /\ faults < MaxFaults
    /\ i \in DOMAIN file
    /\ file # NoFile
    /\ file = disk
    /\ \E cell \in Damaged(i) \ {k.blob[i] : k \in {k \in made : i \in DOMAIN k.blob}} :
          file' = [file EXCEPT ![i] = cell]
    /\ disk' = file'
    /\ faults' = faults + 1
    /\ UNCHANGED <<made, held, saving, out, ctx, answer, disturbed, whole>>

\* The system writes the file back in its own time: a keystore fits a block,
\* but its new length can reach the disk before its bytes do.
Flush ==
    /\ file # NoFile
    /\ disk' \in {file, <<>>}
    /\ UNCHANGED <<made, held, file, saving, out, ctx, answer, disturbed, whole, faults>>

\* Every process is gone, with the Keystores it had not saved.
PowerLoss ==
    /\ held' = {}
    /\ file' = disk
    /\ saving' = {} /\ disturbed' = FALSE /\ whole' = {}
    /\ out' = [p \in Savers |-> <<>>]
    /\ ctx' = [p \in Readers |-> NoFile]
    /\ answer' = [p \in Readers |-> NoAnswer]
    /\ UNCHANGED <<made, disk, faults>>

Next ==
    \/ \E pw \in Passwords, seed \in Seeds, params \in ParamSets,
          salt_len \in SaltLens, has_passphrase \in Passphrases :
             Create(pw, seed, params, salt_len, has_passphrase)
    \/ \E i \in DOMAIN file : Damage(i)
    \/ Flush
    \/ PowerLoss
    \/ \E p \in Savers :
          \/ \E k \in held : SaveOpen(p, k)
          \/ \E n \in (Cuts \cap 0..Len(out[p])) \cup {Len(out[p])} : SaveWrite(p, n)
    \/ \E p \in Readers :
          \/ Open(p)
          \/ \E pw \in Passwords \cup {""} : Unlock(p, pw)

Spec == Init /\ [][Next]_vars

-----------------------------------------------------------------------------
(* Properties.                                                             *)

SameExcept(b, c, places) ==
    Len(b) = Len(c) /\ \A i \in DOMAIN b \ places : b[i] = c[i]

Reserved == {9}

TypeOK ==
    /\ \A k \in made : k.password \in Passwords /\ k.seed \in Seeds
    /\ Cardinality(made) <= MaxKeystores
    /\ held \subseteq made
    /\ saving \subseteq Savers
    /\ \A p \in Savers : out[p] # <<>> <=> p \in saving
    /\ \A p \in Savers : out[p] # <<>> => \E k \in made : out[p] = k.blob
    /\ disturbed => saving # {}
    /\ faults \in 0..MaxFaults

\* unlock() returns a seed only for a blob that some create() made, under the
\* password it was made with, and then it is that keystore's seed: saves cut
\* short, power losses and damaged cells never produce another one.
\* (Only the header's reserved bytes are outside what GCM and Argon2id bind.)
UnlockIsFaithful ==
    \A p \in Readers :
        answer[p].result.status = "ok" =>
            \E k \in made :
                /\ SameExcept(ctx[p], k.blob, Reserved)
                /\ answer[p].password = k.password
                /\ answer[p].result.seed = k.seed

\* A keystore whose salt fills the header's slot unlocks with its password to
\* its seed (tests/test_keystore.py, the round trip), and no other one ever
\* unlocks.
RoundTrip ==
    \A k \in made :
        LET r == Unpack(k.blob, k.password)
        IN  IF Len(k.salt) = SaltLen
              THEN r.status = "ok" /\ r.seed = k.seed /\ r.flags = k.flags
              ELSE r.status = "KeystoreDecryptionError"

\* The rows of SECURITY.md's table of failures the code meets: whatever the
\* number of damaged cells, unlocking with the right password raises the
\* exception of the first check that sees one.
DamageIsReported ==
    \A p \in Readers, k \in made :
        LET b      == ctx[p]
            status == answer[p].result.status
        IN  status # "none" /\ answer[p].password = k.password =>
            /\ Len(b) < Len(k.blob) /\ b = SubSeq(k.blob, 1, Len(b))
                  => status = "KeystoreDecryptionError"
            /\ SameExcept(b, k.blob, OffSalt..Len(b)) /\ (\A l \in made : b # l.blob)
                  => status = "KeystoreDecryptionError"
            /\ SameExcept(b, k.blob, DOMAIN b) /\ (b[1] # MAGIC \/ b[2] # VERSION)
                                              /\ Len(k.salt) >= SaltLen
                  => status = "KeystoreVersionError"

\* The file keeps the promise of Vault: a save nothing disturbed leaves its
\* keystore, what unlock() answers depends on that alone, and a power loss
\* brings back what was written back last, whole, or nothing.  (What a salt of
\* another length than the header's sealed is nobody's from the start.)
ItemOf(k) ==
    [password |-> IF Len(k.salt) = SaltLen THEN k.password ELSE "nobody's",
     secret   |-> k.seed]

Meaning(b) ==
    LET whose == {k \in made : SameExcept(b, k.blob, Reserved)}
    IN  IF whose = {} THEN [password |-> "nobody's"]
        ELSE ItemOf(CHOOSE k \in whose : TRUE)

Content == Meaning(file)
Durable == Meaning(disk)
Pending == [p \in Savers |-> Meaning(out[p])]
Written == {ItemOf(k) : k \in whole}
Opened  == [p \in Readers |-> Meaning(ctx[p])]
Answers == [p \in Readers |->
              [password |-> answer[p].password,
               secret   |-> IF answer[p].result.status = "ok"
                              THEN answer[p].result.seed ELSE <<>>]]

Promise == INSTANCE Vault WITH
    Secrets <- Seeds, content <- Content, durable <- Durable, pending <- Pending,
    written <- Written, opened <- Opened, answer <- Answers

KeepsPromise == Promise!Spec

\* The round-trip test, for every Keystore.create(): the keystore unlocks with
\* its password (tests/test_keystore.py:38).
EveryKeystoreUnlocks ==
    \A k \in made : Unpack(k.blob, k.password).status = "ok"

\* A row of SECURITY.md's table of failures (line 41): whoever unlocks, with
\* the right password, a blob whose KDF parameters alone were changed gets a
\* KeystoreDecryptionError.
TamperedParamsAreDecryptionErrors ==
    \A p \in Readers, k \in made :
        /\ answer[p].result.status # "none"
        /\ answer[p].password = k.password
        /\ SameExcept(ctx[p], k.blob, OffKdf..8)
        /\ ctx[p] # k.blob
        => answer[p].result.status = "KeystoreDecryptionError"
=============================================================================
