CONSTANTS
    Machines <- OneAway
    MaxFaults = 1
SPECIFICATION Spec
INVARIANT DocRecoveryInInitrd
CHECK_DEADLOCK FALSE
