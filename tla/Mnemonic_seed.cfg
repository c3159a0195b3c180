SPECIFICATION Spec
CONSTANTS
    ByteBits = 8
    WordBits = 11
    EntUnit = 32
    Strengths <- BIP39Strengths
    WordCounts <- BIP39WordCounts
    RawBits = {}
    Draws <- RealDraws
    NewWords <- RealWords
    MaxSlips = 0
INVARIANT WalletGrowsFromBip39Seed
