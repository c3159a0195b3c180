---------------------------- MODULE MCDerivation ----------------------------
(* Derivation in a group of order 3, with 1 normal and 1 hardened index.   *)
EXTENDS Derivation

OneSeed == {"seed1"}

Path(parts)        == [prefix |-> "m/", parts |-> parts]
Part(digits, marks) == [digits |-> digits, marks |-> marks]

\* "m", "m/0h", "m/0'/0", an index too large, a component that is no number,
\* and a text without the "m/".
SomeTexts ==
    {[prefix |-> "m", parts |-> <<>>],
     [prefix |-> "0/", parts |-> <<>>],
     Path(<<Part(0, "h")>>),
     Path(<<Part(0, "'"), Part(0, "")>>),
     Path(<<Part(HARDENED_OFFSET, "")>>),
     Path(<<Part(0, ""), Part(-1, "")>>)}

SomeDirectPaths == {<< <<0, FALSE>>, <<0, TRUE>> >>, << <<HARDENED_OFFSET, TRUE>> >>}
=============================================================================
