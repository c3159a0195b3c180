SPECIFICATION Spec
CONSTANTS
    ByteBits = 4
    WordBits = 3
    EntUnit = 8
    Strengths = {8, 16}
    WordCounts = {3, 6}
    RawBits = {8, 12, 16}
    Draws <- SmallDraws
    NewWords <- SmallWords
    MaxSlips = 2
INVARIANTS
    TypeOK
    EntropyKept
    AcceptedIsCanonical
    Reimportable
PROPERTIES
    PhraseSurvivesUnlock
