SPECIFICATION Spec
CONSTANTS
    Order = 3
    MaxScalar = 3
    HARDENED_OFFSET = 1
    ChainCodes = {1}
    Zeros = 0
    MaxDepth = 1
    Versions = {2}
    ByteBase = 4
    Symbols = 3
    Seeds <- OneSeed
    Texts <- SomeTexts
    DirectPaths <- SomeDirectPaths
    MaxKeys = 3
    MaxQueries = 3
INVARIANTS
    TypeOK
    SamePathSameKey
    HardenedStaysPrivate
    NoChildOfBadKey
    ChildIsUsable
    ParsedPathDerives
    ExportDecodes
