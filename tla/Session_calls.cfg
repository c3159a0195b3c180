SPECIFICATION Spec
CONSTANTS
    b1 = b1
    b2 = b2
    b3 = b3
    b4 = b4
    b5 = b5
    w1 = w1
    w2 = w2
    NoBuffer = NoBuffer
    Buffers <- FiveBuffers
    Wallets <- TwoWallets
SYMMETRY Interchangeable
INVARIANTS
    TypeOK
    NothingLeftBehind
    UnlockedSeedIsWhole
    ClosedSeedIsWiped
PROPERTIES
    CallsBorrow
