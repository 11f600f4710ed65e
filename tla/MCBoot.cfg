CONSTANTS
    Machines <- TwoAway
    MaxFaults = 1
SPECIFICATION FairSpec
INVARIANTS
    VerifiedMountsAreSigned
    NoSilentFallback
    RecoveryOnlyWhenOff
    RootAfterUnlock
    
    BootInv
PROPERTY BootEnds
CHECK_DEADLOCK FALSE
