SPECIFICATION Spec
CONSTANTS
    saver1 = saver1
    saver2 = saver2
    saver3 = saver3
    reader1 = reader1
    hunter2 = hunter2
    swordfish = swordfish
    Savers <- ThreeSavers
    Readers <- OneReader
    Passwords <- OnePassword
    Seeds <- TwoSeeds
    ParamSets <- Interactive
    SaltLens <- SlotSalt
    Passphrases <- NoPassphrase
    Cuts <- TwoCuts
    MaxKeystores = 2
    MaxFaults = 0
    SaltLen = 2
    NonceLen = 1
    TagLen = 1
    KeyLen = 32
    MaxSeedLen = 255
    MaxMemory = 19456
SYMMETRY SaversAlike
INVARIANTS
    TypeOK
PROPERTY KeepsPromise
