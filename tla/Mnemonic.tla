------------------------------ MODULE Mnemonic ------------------------------
(***************************************************************************)
(* BIP-39 mnemonics (mnemonic.py, entropy.py) and what becomes of one as   *)
(* it is generated, written down, typed in again, and stored in and        *)
(* unlocked from a keystore (keystore.py, which stores its entropy only).  *)
(*                                                                         *)
(* Entropy is a sequence of bits.  A word is its index in the wordlist,    *)
(* written as WordBits bits, and a word outside the list is <<>>.  Of the  *)
(* text between the words only one thing matters: whether it is one space, *)
(* as from_entropy writes it, or any other white space split() accepts.    *)
(***************************************************************************)
EXTENDS Integers, Sequences, FiniteSets, SequencesExt

CONSTANTS ByteBits,    \* 8
          WordBits,    \* 11: the wordlist has 2^WordBits words
          EntUnit,     \* 32: bits of entropy per bit of checksum
          Strengths,   \* entropy.STRENGTH_BITS
          WordCounts,  \* word counts from_phrase accepts
          RawBits,     \* arguments of generate_entropy outside generate()
          Draws(_),    \* what the random source returns for n bits
          NewWords,    \* words a slip of the pen can put for another one
          MaxSlips     \* bound: accepted phrases other than the one in hand

ASSUME MnemonicAssumption ==
    /\ {ByteBits, WordBits, EntUnit} \subseteq Nat \ {0}
    /\ 3 * WordBits = EntUnit + 1
    /\ Strengths \subseteq Nat \ {0} /\ RawBits \subseteq Nat /\ MaxSlips \in Nat
    /\ NewWords \subseteq [1..WordBits -> {0, 1}]
    /\ \A n \in Strengths \cup RawBits : Draws(n) \subseteq [1..n -> {0, 1}]
    /\ \A s \in Strengths : s % EntUnit = 0 /\ s % ByteBits = 0
    /\ WordCounts = {(s + (s \div EntUnit)) \div WordBits : s \in Strengths}

VARIABLES mn,     \* the Mnemonic in hand: its words and how they are spaced
          root,   \* what the unlocked Wallet's master key is made from
          origin, \* history: the entropy drawn, or typed in as a phrase
          slips   \* history: accepted slips

vars == <<mn, root, origin, slips>>

None == [words |-> <<>>, spacing |-> "single"]

\* Mnemonic.seed(passphrase): PBKDF2 of the phrase as it is spelled.
Bip39Seed(m, passphrase) == <<"pbkdf2", m.words, m.spacing, passphrase>>

NoRoot == <<"none">>

TypeOK ==
    /\ \A i \in DOMAIN mn.words : mn.words[i] \in [1..WordBits -> {0, 1}]
    /\ mn.spacing \in {"single", "other"}
    /\ origin \in Seq({0, 1})
    /\ slips \in 0..MaxSlips

Init == mn = None /\ root = NoRoot /\ origin = <<>> /\ slips = 0

-----------------------------------------------------------------------------
(* Conversions.                                                            *)

\* The first n bits of SHA-256: some fixed function of the entropy.
Sha256(bits, n) ==
    [i \in 1..n |->
        Cardinality({j \in DOMAIN bits : bits[j] = 1 /\ (i + j) % 3 # 0}) % 2]

\* _ENGLISH_WORDLIST[int(bits, 2)]: the words are distinct, so one is as good
\* as its index, and leading zeros make up the width.
ToWord(bits) == [i \in 1..(WordBits - Len(bits)) |-> 0] \o bits

\* all_bits[i:i + 11] for i in range(0, len(all_bits), 11); the last piece
\* is shorter when WordBits does not divide the length.
Words(bits) ==
    LET n == (Len(bits) + WordBits - 1) \div WordBits
    IN  [i \in 1..n |-> ToWord(SubSeq(bits, (i - 1) * WordBits + 1,
                                      IF i = n THEN Len(bits) ELSE i * WordBits))]

\* Faulty variants: bin() without zfill, and the digest's last bits.
FromEntropyUnpadded(ent) ==
    LET ones == {i \in DOMAIN ent : ent[i] = 1}
        bits == IF ones = {} THEN <<0>> ELSE SubSeq(ent, Min(ones), Len(ent))
    IN  Words(bits \o Sha256(ent, Len(ent) \div EntUnit))

FromEntropyLastBits(ent) ==
    LET n == Len(ent) \div EntUnit
    IN  Words(ent \o SubSeq(Sha256(ent, n + 4), 5, n + 4))

\* Mnemonic.from_entropy: any SecretBytes, of any length.
FromEntropy(ent) == Words(ent \o Sha256(ent, Len(ent) \div EntUnit))

PhraseBits(words) == FlattenSeq(words)

ChecksumBits(words) == (Len(words) * WordBits) \div (EntUnit + 1)

EntropyBits(words) ==
    SubSeq(PhraseBits(words), 1, Len(PhraseBits(words)) - ChecksumBits(words))

\* Mnemonic.entropy: int(ent_bits, 2).to_bytes(len(ent_bits) // 8) drops the
\* leading bits that do not fill a byte, and raises OverflowError if one is 1.
Overflows(words) ==
    \E i \in 1..(Len(EntropyBits(words)) % ByteBits) : EntropyBits(words)[i] = 1

Entropy(words) ==
    LET bits == EntropyBits(words)
    IN  SubSeq(bits, (Len(bits) % ByteBits) + 1, Len(bits))

\* Faulty variants: no checksum comparison, and unknown words ignored.
ValidPhraseUnchecked(words) ==
    Len(words) \in WordCounts /\ \A i \in DOMAIN words : words[i] # <<>>

ValidPhraseLenient(words) ==
    /\ Len(words) \in WordCounts
    /\ PhraseBits(words) =
         EntropyBits(words) \o Sha256(Entropy(words), ChecksumBits(words))

\* Mnemonic.from_phrase returns; otherwise it raises InvalidMnemonicError.
ValidPhrase(words) ==
    /\ Len(words) \in WordCounts
    /\ \A i \in DOMAIN words : words[i] # <<>>
    /\ PhraseBits(words) =
         EntropyBits(words) \o Sha256(Entropy(words), ChecksumBits(words))

-----------------------------------------------------------------------------
(* Operations.                                                             *)

\* Mnemonic.generate(strength)
Generate(ent) ==
    /\ Len(ent) \in Strengths
    /\ mn' = [words |-> FromEntropy(ent), spacing |-> "single"]
    /\ origin' = ent
    /\ root' = NoRoot
    /\ UNCHANGED slips

\* Mnemonic.from_entropy(generate_entropy(bits))
GenerateRaw(ent) ==
    /\ Len(ent) % ByteBits = 0
    /\ \E s \in Strengths : s <= Len(ent)
    /\ \E s \in Strengths : s >= Len(ent)
    /\ mn' = [words |-> FromEntropy(ent), spacing |-> "single"]
    /\ origin' = ent
    /\ root' = NoRoot
    /\ UNCHANGED slips

\* The phrase is typed in again, rightly or with one slip: a word replaced,
\* forgotten, repeated, or exchanged with the next.
Typed(words) ==
    {words}
    \cup {ReplaceAt(words, i, w) : i \in DOMAIN words, w \in NewWords \cup {<<>>}}
    \cup {RemoveAt(words, i) : i \in DOMAIN words}
    \cup {InsertAt(words, i, words[i]) : i \in DOMAIN words}
    \cup {ReplaceAt(ReplaceAt(words, i, words[i + 1]), i + 1, words[i])
            : i \in 1..(Len(words) - 1)}

\* Mnemonic.from_phrase(phrase) keeps the text as it was typed.
FromPhrase(words, spacing) ==
    /\ ValidPhrase(words)
    /\ mn' = [words |-> words, spacing |-> spacing]
    /\ root' = NoRoot
    /\ IF words = mn.words
         THEN UNCHANGED <<origin, slips>>
         ELSE slips < MaxSlips /\ slips' = slips + 1 /\ origin' = Entropy(words)

\* Keystore.create(mn, ...), save, open and unlock: the entropy is stored,
\* a mnemonic made from it again if its length is one of BIP-39's, and the
\* Wallet given the entropy as its seed.
StoreAndUnlock ==
    /\ mn # None
    /\ ~Overflows(mn.words)
    /\ mn' = IF Len(Entropy(mn.words)) \in Strengths
               THEN [words |-> FromEntropy(Entropy(mn.words)), spacing |-> "single"]
               ELSE None
    /\ root' = <<"entropy", Entropy(mn.words)>>
    /\ UNCHANGED <<origin, slips>>

Next ==
    \/ \E s \in Strengths : \E ent \in Draws(s) : Generate(ent)
    \/ \E b \in RawBits : \E ent \in Draws(b) : GenerateRaw(ent)
    \/ \E words \in Typed(mn.words), spacing \in {"single", "other"} :
          FromPhrase(words, spacing)
    \/ StoreAndUnlock

Spec == Init /\ [][Next]_vars

-----------------------------------------------------------------------------
(* Properties.                                                             *)

\* No sequence of writing down, typing in, storing and unlocking loses a
\* mnemonic of BIP-39's lengths or changes the entropy it stands for; and
\* whatever length was drawn, a wallet unlocked with a mnemonic grows from the
\* entropy of that mnemonic.
EntropyKept ==
    /\ Len(origin) \in Strengths =>
          mn # None /\ ~Overflows(mn.words) /\ Entropy(mn.words) = origin
    /\ mn # None /\ root # NoRoot => root = <<"entropy", Entropy(mn.words)>>

\* A phrase from_phrase accepts is the one from_entropy writes for its
\* entropy, so no two accepted phrases with different words give one wallet.
AcceptedIsCanonical ==
    ValidPhrase(mn.words) => mn.words = FromEntropy(Entropy(mn.words))

\* Every mnemonic of BIP-39's lengths, and every mnemonic a keystore gives
\* back, is one the library accepts when it is typed in.
Reimportable ==
    mn # None /\ (Len(origin) \in Strengths \/ root # NoRoot) => ValidPhrase(mn.words)

\* Unlocking gives back the phrase that was stored, and with it the same
\* Mnemonic.seed(), when it is one from_phrase accepts, spelled with single
\* spaces (tests/test_keystore.py:51).
PhraseSurvivesUnlock ==
    [][StoreAndUnlock /\ ValidPhrase(mn.words) /\ mn.spacing = "single" => mn' = mn]_vars

\* Mnemonic.entropy, by its docstring, reconstructs and returns the original
\* entropy (mnemonic.py:2151), and generate_entropy, by its module's, draws
\* none that a mnemonic could not be made of (entropy.py:3).
EntropyReconstructed ==
    mn # None => ~Overflows(mn.words) /\ Entropy(mn.words) = origin

\* The README's glossary: the BIP-39 seed of the mnemonic is what the BIP-32
\* master key of its wallet is made from (README.md:303).
WalletGrowsFromBip39Seed == root # NoRoot => root = Bip39Seed(mn, "")
=============================================================================
