SPECIFICATION Spec
CONSTANTS
    saver1 = saver1
    saver2 = saver2
    saver3 = saver3
    reader1 = reader1
    hunter2 = hunter2
    swordfish = swordfish
    Savers <- OneSaver
    Readers <- OneReader
    Passwords <- TwoPasswords
    Seeds <- OneSeed
    ParamSets <- Interactive
    SaltLens <- AnySalt
    Passphrases <- Passphrase
    Cuts <- LateCut
    MaxKeystores = 1
    MaxFaults = 2
    SaltLen = 2
    NonceLen = 1
    TagLen = 1
    KeyLen = 32
    MaxSeedLen = 255
    MaxMemory = 19456
SYMMETRY PasswordsAlike
INVARIANTS
    UnlockIsFaithful
    RoundTrip
    DamageIsReported
PROPERTY KeepsPromise
