SPECIFICATION Spec
CONSTANTS
    Base = 4
    OtherScheme = "rsa"
    Width = 2
    Components <- AllComponents
    Keys <- TwoKeys
    Messages <- TwoMessages
INVARIANTS
    TypeOK
    OwnSignatureVerifies
    VerifiedMeansSigned
