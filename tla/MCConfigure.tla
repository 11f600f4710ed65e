----------------------------- MODULE MCConfigure ------------------------------
(* Two slots with their entries and an entry of an older installation on    *)
(* partition 1; two commands.                                               *)
EXTENDS ConfigureUpgrade, TLC

CONSTANTS b0101, b0102, b1001, p1, p2, s1, s2

SlotOfDef == [i \in {b0101, b0102, b1001} |->
                 CASE i = b0101 -> 101 [] i = b0102 -> 102 [] OTHER -> 1]

(* The machine has been started from slot 101, slot 102 was saved in an     *)
(* earlier boot, and there is an old record.                                *)
MCInit ==
    /\ Init
    /\ profile = s1 /\ bootCurrent = b0101 /\ saved = 102
    /\ made = Earlier /\ {b0101, b1001} \subseteq entries

MCSpec == MCInit /\ [][Next]_vars

Symmetric == Permutations(Procs)
=============================================================================
