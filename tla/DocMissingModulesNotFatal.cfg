CONSTANTS
    Machines <- OneAway
    MaxFaults = 1
SPECIFICATION Spec
INVARIANT DocMissingModulesNotFatal
CHECK_DEADLOCK FALSE
