--------------------------- MODULE MCUpgradeCycle ---------------------------
(* Two slots; releases are installed in the first, which may be the running *)
(* one and may be the default one.                                          *)
EXTENDS UpgradeCycle, TLC

CONSTANTS s1, s2, i1, i2, v1, v2, v3

MCSlotOf == (i1 :> s1)
SameSlot == (i1 :> s1) @@ (i2 :> s1)   \* two installers on one slot

(* The second release has the kernel of the first one.                      *)
MCKernelOf == (v1 :> "6.12") @@ (v2 :> "6.12") @@ (v3 :> "6.18")

(* The first release is in the second slot, and in the first one or not.    *)
MCInit == CycleInit /\ done[s1] \in {v1, None} /\ done[s2] = v1

MCSpec == MCInit /\ [][CycleNext]_cycle /\ CycleFairness
=============================================================================
