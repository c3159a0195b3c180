--------------------------- MODULE MCKeystoreFile ---------------------------
(* KeystoreFile with up to three savers, a reader and scaled-down lengths. *)
(* Seeds of two lengths make blobs of two lengths, so that overlapping     *)
(* saves can leave the tail of the longer one.                             *)
EXTENDS KeystoreFile, TLC

CONSTANTS saver1, saver2, saver3, reader1, hunter2, swordfish

OneSaver    == {saver1}
ThreeSavers == {saver1, saver2, saver3}
OneReader   == {reader1}

\* The header's fields are written, or all of a blob but its last cell.
LateCut == {HeaderLen + TagLen + 5}
TwoCuts == {OffSalt - 1} \cup LateCut
NoPassphrase  == {FALSE}
Passphrase    == {TRUE}

OnePassword  == {hunter2}
TwoPasswords == {hunter2, swordfish}

\* Any savers are alike, and in another run both passwords.
SaversAlike    == Permutations(ThreeSavers)
PasswordsAlike == Permutations(TwoPasswords)

TwoSeeds     == {<<7>>, <<7, 8>>}
OneSeed      == {<<7, 8>>}

Interactive == {[time_cost |-> 3, memory_cost |-> 19456, parallelism |-> 1,
                 hash_len |-> KeyLen, version |-> 19]}
SlotSalt  == {SaltLen}
AnySalt   == {SaltLen - 1, SaltLen, SaltLen + 1}
=============================================================================
