SPECIFICATION Spec
CONSTANTS
    Space = 8
    Blank = 9
    KeySize = 4
    None = None
    Texts <- MCTexts
    Identities <- MCIdentities
    Generated <- MCGenerated
INVARIANTS
    RightPasswordOpens
    
    KeyInv
PROPERTIES
    VerifiedIsEncrypted
