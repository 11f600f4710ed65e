------------------------- MODULE BootSequence_proofs -------------------------
(***************************************************************************)
(* The safety invariants of BootSequence, proved for every set of machines  *)
(* and every number of failing system calls, and a rank that every step of  *)
(* the boot lowers.                                                         *)
(***************************************************************************)
EXTENDS BootSequence, WellFoundedInduction, TLAPS

(* A non-empty set of numbers has a least element.                          *)
LEMMA LeastNumber ==
    ASSUME NEW S \in SUBSET Nat, S # {}
    PROVE  \E i \in S : \A j \in S : ~(j < i)
<1>1. PICK i \in S : \A j \in S : <<j, i>> \notin OpToRel(<, Nat)
  BY NatLessThanWellFounded, WFMin, ZenonT(30)
<1>2. \A j \in S : ~(j < i)
  BY <1>1, ZenonT(30) DEF OpToRel
<1> QED
  BY <1>2

(* First returns an accepted candidate if there is one, and None otherwise. *)
LEMMA FirstAccepted ==
    ASSUME NEW paths, DOMAIN paths \subseteq Nat, NEW accepted
    PROVE  \/ /\ First(paths, accepted) = None
              /\ Range(paths) \cap accepted = {}
           \/ First(paths, accepted) \in Range(paths) \cap accepted
<1> DEFINE hits == {i \in DOMAIN paths : paths[i] \in accepted}
           Best(i) == /\ paths[i] \in accepted
                      /\ \A j \in DOMAIN paths : j < i => paths[j] \notin accepted
<1>1. CASE hits = {}
  BY <1>1 DEF First, Range
<1>2. CASE hits # {}
  <2>1. PICK i \in hits : \A j \in hits : ~(j < i)
    BY <1>2, LeastNumber, ZenonT(30)
  <2>2. i \in DOMAIN paths /\ Best(i)
    BY <2>1
  <2>3. /\ (CHOOSE k \in DOMAIN paths : Best(k)) \in DOMAIN paths
        /\ Best(CHOOSE k \in DOMAIN paths : Best(k))
    BY <2>2
  <2>4. First(paths, accepted) = paths[CHOOSE k \in DOMAIN paths : Best(k)]
    BY <2>2 DEF First
  <2> QED
    BY <2>3, <2>4 DEF Range
<1> QED
  BY <1>1, <1>2

(* The candidate paths, spelled out.                                        *)
LEMMA Candidates ==
    /\ DOMAIN RootPartitioned \subseteq Nat
    /\ DOMAIN ModulesPartitioned \subseteq Nat
    /\ DOMAIN ModulesDefault \subseteq Nat
    /\ DOMAIN InitOrder \subseteq Nat
    /\ Range(RootPartitioned) = {"initos/N/root", "img/N/root"}
    /\ Range(ModulesPartitioned) = {"initos/N/modules", "img/N/modules",
                                    "/img/N/modules", "/data/img/N/modules"}
    /\ Range(ModulesDefault) = {"img/modules", "/img/modules", "/data/img/modules"}
  BY DEF Range, RootPartitioned, ModulesPartitioned, ModulesDefault, InitOrder

(* The root image that mount_rootfs picks: signed if it can be mounted in   *)
(* verified mode, and not the default one if the slot has a copy.           *)
LEMMA RootImageChoice ==
    ASSUME TypeOK
    PROVE  /\ RootImage \in RootImages
           /\ verified /\ Mountable(RootImage) => machine.image[RootImage] = "signed"
           /\ verified /\ part # None /\ RootImage = RootDefault =>
                 \A p \in Range(RootPartitioned) : machine.image[p] = "absent"
<1> DEFINE hit == First(RootPartitioned, NotSkipped)
<1>1. \/ hit = None /\ Range(RootPartitioned) \cap NotSkipped = {}
      \/ hit \in Range(RootPartitioned) \cap NotSkipped
  BY FirstAccepted, Candidates
<1>2. RootImage = IF part # None /\ hit # None THEN hit ELSE RootDefault
  BY DEF RootImage
<1>3. RootImage \in RootImages
  BY <1>1, <1>2, Candidates DEF RootImages, RootDefault
<1>4. verified /\ Mountable(RootImage) => machine.image[RootImage] = "signed"
  BY DEF Mountable, Trusted
<1>5. ASSUME verified, part # None, RootImage = RootDefault, NEW p \in Range(RootPartitioned)
      PROVE  machine.image[p] = "absent"
  <2>1. p \notin NotSkipped
    BY <1>1, <1>2, <1>5, Candidates DEF RootDefault, None
  <2>2. p \in Images /\ machine.image[p] \in ImageStatus
    BY <1>5 DEF TypeOK, Machine, Images, RootImages
  <2> QED
    BY <2>1, <2>2, <1>5 DEF NotSkipped, CheckPartitioned, ImageStatus
<1> QED
  BY <1>3, <1>4, <1>5

(* The root directory that mount_rootfs picks.                              *)
LEMMA RootDirectoryChoice == ASSUME TypeOK PROVE RootDirectory \in {None} \cup RootDirs
<1> DEFINE paths == IF part # None THEN <<"c/roots/N", "roots/N", "c/roots">> ELSE <<"c/roots">>
           seen == {d \in machine.rootDirs : d = "roots/N" \/ c = "open"}
<1>1. DOMAIN paths \subseteq Nat
  OBVIOUS
<1>2. First(paths, seen) \in {None} \cup seen
  BY <1>1, FirstAccepted
<1> QED
  BY <1>2 DEF RootDirectory, TypeOK, Machine

(* The same for the modules image that mount_host_image picks.              *)
LEMMA ModulesImageChoice ==
    ASSUME TypeOK
    PROVE  /\ ModulesImage \in {None} \cup ModulesImages
           /\ verified /\ Mountable(ModulesImage) => machine.image[ModulesImage] = "signed"
           /\ verified /\ ModulesImage \in Range(ModulesDefault) =>
                 \A p \in Range(ModulesPartitioned) : machine.image[p] = "absent"
<1> DEFINE hit == First(ModulesPartitioned, NotSkipped)
<1>1. \/ hit = None /\ Range(ModulesPartitioned) \cap NotSkipped = {}
      \/ hit \in Range(ModulesPartitioned) \cap NotSkipped
  BY FirstAccepted, Candidates
<1>2. First(ModulesDefault, Existing) \in {None} \cup Range(ModulesDefault)
  BY FirstAccepted, Candidates
<1>3. ModulesImage = IF hit # None THEN hit ELSE First(ModulesDefault, Existing)
  BY DEF ModulesImage
<1>4. ModulesImage \in {None} \cup ModulesImages
  BY <1>1, <1>2, <1>3 DEF ModulesImages
<1>5. verified /\ Mountable(ModulesImage) => machine.image[ModulesImage] = "signed"
  BY DEF Mountable, Trusted
<1>6. ASSUME verified, ModulesImage \in Range(ModulesDefault),
             NEW p \in Range(ModulesPartitioned)
      PROVE  machine.image[p] = "absent"
  <2>1. p \notin NotSkipped
    BY <1>1, <1>3, <1>6, Candidates DEF None
  <2>2. p \in Images /\ machine.image[p] \in ImageStatus
    BY <1>6 DEF TypeOK, Machine, Images, ModulesImages
  <2> QED
    BY <2>1, <2>2, <1>6 DEF NotSkipped, CheckPartitioned, ImageStatus
<1> QED
  BY <1>4, <1>5, <1>6

USE MachinesAssumption, MaxFaultsAssumption

(* None is the name of no image.                                            *)
LEMMA NoneIsNoImage ==
    None \notin RootImages /\ None # RootDefault /\ None \notin Range(ModulesDefault)
  BY Candidates DEF None, RootImages, RootDefault

(* A root directory is not an image.                                        *)
LEMMA DirectoriesAreNoImages ==
    RootDirs \cap RootImages = {} /\ RootDefault \notin RootDirs /\ None \notin RootDirs
  BY Candidates DEF RootDirs, RootImages, RootDefault, None

(* The fields of a machine that enter other variables.                      *)
LEMMA MachineFields ==
    ASSUME machine \in Machine
    PROVE  /\ machine.bootPart \in {None, "N"}
           /\ machine.cdir \in {"absent", "locked", "open"}
           /\ machine.secureBoot \in {"on", "off", "unreadable"}
           /\ machine.libDirs \subseteq {"lib/firmware", "lib/modules"}
           /\ machine.cPaths \subseteq {"home", "home/root", "nix"}
           /\ machine.rootDirs \subseteq RootDirs
  BY DEF Machine

(* The initial state has the inductive invariant: nothing is mounted yet.   *)
LEMMA InitInv == Init => BootInv
<1> SUFFICES ASSUME Init PROVE BootInv
  OBVIOUS
<1>1. machine \in Machine
  BY DEF Init
<1>2. mounts \in Mounts
  BY DEF Init, Mounts
<1>3. TypeOK
  BY <1>1, <1>2, MachineFields DEF Init, TypeOK, Stages
<1> QED
  BY <1>3, NoneIsNoImage
     DEF Init, BootInv, verified, VerifiedMountsAreSigned, NoSilentFallback,
         RecoveryOnlyWhenOff, RootAfterUnlock

(* Every step of cmd_boot preserves it.                                     *)
LEMMA StepInv == BootInv /\ [Next]_vars => BootInv'
<1> SUFFICES ASSUME BootInv, [Next]_vars PROVE BootInv'
  OBVIOUS
<1> USE DEF BootInv, TypeOK, Stages, Final, Mounts, verified, VerifiedMountsAreSigned,
            NoSilentFallback, RecoveryOnlyWhenOff, RootAfterUnlock, Fail, Go
<1>1. CASE SystemCallFails
  BY <1>1 DEF SystemCallFails, Fallible, Chance
<1>2. CASE Detect
  <2>1. TypeOK'
    BY <1>2 DEF Detect
  <2>2. mounts'.root = None /\ mounts'.modules = None /\ mounts'.metadata = None
        /\ mounts'.firmware = None /\ unlockedBy' = "nothing" /\ mounts' = mounts
    BY <1>2 DEF Detect
  <2>3. VerifiedMountsAreSigned' /\ NoSilentFallback' /\ RootAfterUnlock'
    BY <2>2, NoneIsNoImage DEF None
  <2>4. /\ pc' \in {"device", "failed"} /\ machine' = machine
        /\ mode' = "dev" => machine.secureBoot = "off"
        /\ mode' = "verified" => machine.secureBoot = "on"
    BY <1>2, MachineFields DEF Detect
  <2> QED
    BY <2>1, <2>2, <2>3, <2>4
<1>3. CASE BootDevice
  BY <1>3, MachineFields, NoneIsNoImage DEF BootDevice
<1>4. CASE MountState
  BY <1>4 DEF MountState
<1>5. CASE Unlock
  BY <1>5 DEF Unlock
<1>6. CASE UnlockWithTpm
  BY <1>6 DEF UnlockWithTpm, Unsealable, Chance
<1>7. CASE ExtendPcr7
  BY <1>7 DEF ExtendPcr7, Chance
<1>8. CASE MountRoot
  <2>1. /\ pc = "root" /\ pc' \in {"bindz", "failed"} /\ error' \in {error, pc}
        /\ UNCHANGED <<machine, mode, part, c, pcr7, unlockedBy, attempt, init,
                       rootdir, faults>>
    BY <1>8 DEF MountRoot
  <2>2. CASE RootDirectory # None /\ mounts' = [mounts EXCEPT !.root = RootDirectory]
    <3>1. RootDirectory \in RootDirs
      BY <2>2, RootDirectoryChoice
    <3> QED
      BY <2>1, <2>2, <3>1, DirectoriesAreNoImages, NoneIsNoImage
  <2>3. CASE Mountable(RootImage) /\ mounts' = [mounts EXCEPT !.root = RootImage]
    <3>1. /\ RootImage \in RootImages
          /\ verified => machine.image[RootImage] = "signed"
          /\ verified /\ part # None /\ RootImage = RootDefault =>
                \A p \in Range(RootPartitioned) : machine.image[p] = "absent"
      BY <2>3, RootImageChoice
    <3> QED
      BY <2>1, <2>3, <3>1, NoneIsNoImage
  <2>4. CASE mounts' = mounts
    BY <2>1, <2>4, NoneIsNoImage
  <2> QED
    BY <1>8, <2>2, <2>3, <2>4 DEF MountRoot
<1>9. CASE BindState
  BY <1>9 DEF BindState
<1>10. CASE MountMnt
  BY <1>10 DEF MountMnt
<1>11. CASE Firmware
  <2>1. /\ pc = "firmware" /\ pc' \in {"modules", "failed"} /\ error' \in {error, pc}
        /\ faults' \in {faults, faults + 1} /\ faults' <= MaxFaults
        /\ UNCHANGED <<machine, mode, part, c, pcr7, unlockedBy, attempt, init, rootdir>>
    BY <1>11 DEF Firmware, Chance
  <2>2. \E m \in {None, FirmwareImage}, f \in {None, "composefs", "tree"} :
          /\ mounts' = [mounts EXCEPT !.metadata = m, !.firmware = f]
          /\ m # None => Mountable(FirmwareImage)
          /\ f = "tree" => ~verified
    BY <1>11, ZenonT(30) DEF Firmware, None
  <2>3. mounts' \in Mounts /\ mounts'.root = mounts.root /\ mounts'.modules = mounts.modules
    BY <2>2, ZenonT(30)
  <2>4. mounts'.metadata # None => Mountable(FirmwareImage)
    BY <2>2
  <2>5. mounts'.firmware = "tree" => ~verified
    BY <2>2
  <2>6. TypeOK'
    BY <2>1, <2>3
  <2>7. VerifiedMountsAreSigned'
    BY <2>1, <2>3, <2>4, <2>5 DEF Mountable, Trusted
  <2> QED
    BY <2>1, <2>3, <2>6, <2>7
<1>12. CASE Modules
  BY <1>12, ModulesImageChoice DEF Modules
<1>13. CASE BindHostImages
  BY <1>13, MachineFields DEF BindHostImages
<1>14. CASE BindEncrypted
  BY <1>14, MachineFields DEF BindEncrypted
<1>15. CASE MountSystem
  BY <1>15 DEF MountSystem
<1>16. CASE SelectInit
  <2>1. First(InitOrder, SeenByInitrd) \in {None} \cup Inits
    BY FirstAccepted, Candidates DEF Inits
  <2> QED
    BY <1>16, <2>1 DEF SelectInit
<1>17. CASE SwitchRoot
  BY <1>17 DEF SwitchRoot
<1>18. CASE ExecInit
  BY <1>18 DEF ExecInit
<1>19. CASE HandleError
  BY <1>19 DEF HandleError
<1>20. CASE Answer
  BY <1>20 DEF Answer, Password
<1>21. CASE UNCHANGED vars
  BY <1>21 DEF vars
<1> QED
  BY <1>1, <1>2, <1>3, <1>4, <1>5, <1>6, <1>7, <1>8, <1>9, <1>10, <1>11, <1>12, <1>13, <1>14, <1>15, <1>16, <1>17, <1>18, <1>19, <1>20, <1>21, ZenonT(30) DEF Next, Step

(* The inductive invariant holds in every reachable state.                  *)
THEOREM BootInvariant == Spec => []BootInv
  BY InitInv, StepInv, PTL DEF Spec

(* cmd_boot never mounts an image in verified mode that no certificate of   *)
(* the db has signed, whatever the files, the TPM and the failures are.     *)
THEOREM SignedMounts == Spec => []VerifiedMountsAreSigned
  BY BootInvariant, PTL DEF BootInv

(* check_partitioned_image never lets the default image stand in for a copy *)
(* of the slot that cannot be used.                                         *)
THEOREM SlotImageFirst == Spec => []NoSilentFallback
  BY BootInvariant, PTL DEF BootInv

(* The error path of cmd_boot reaches initos-initrd only if SecureBoot was  *)
(* read and is off.                                                         *)
THEOREM RecoveryInDevelopment == Spec => []RecoveryOnlyWhenOff
  BY BootInvariant, PTL DEF BootInv

(* mount_rootfs runs only after unlock_state_c has settled /z/c.            *)
THEOREM UnlockBeforeRoot == Spec => []RootAfterUnlock
  BY BootInvariant, PTL DEF BootInv

(* After unlock_c_with_tpm the secret cannot be unsealed again in this boot *)
(* when no system call failed by chance.                                    *)
THEOREM UnsealOnce == Spec => []LockedAfterUnseal
<1>1. BootInv => LockedAfterUnseal
  BY DEF BootInv, LockedAfterUnseal, Unsealable
<1> QED
  BY <1>1, BootInvariant, PTL

-----------------------------------------------------------------------------
(* The steps that cmd_boot has left at most.                                *)
Left ==
    CASE pc = "detect" -> 22
      [] pc = "device" -> 21
      [] pc = "data" -> 20
      [] pc = "unlock" -> 19
      [] pc = "tpm" -> 18
      [] pc = "password" -> 18 - attempt
      [] pc = "extend" -> 15
      [] pc = "root" -> 14
      [] pc = "bindz" -> 13
      [] pc = "mnt" -> 12
      [] pc = "firmware" -> 11
      [] pc = "modules" -> 10
      [] pc = "bindhost" -> 9
      [] pc = "bindc" -> 8
      [] pc = "sysfs" -> 7
      [] pc = "select" -> 6
      [] pc = "switch" -> 5
      [] pc = "exec" -> 4
      [] pc = "failed" -> 1
      [] OTHER -> 0

(* What comes later has not been mounted, and what is being opened is shut. *)
PendingInv ==
    /\ pc \in {"bindz", "mnt", "firmware"} =>
          mounts.metadata = None /\ mounts.firmware = None /\ mounts.modules = None
    /\ pc = "modules" => mounts.modules = None
    /\ pc \in {"tpm", "password"} => c = "locked"

(* What has been decided, mounted, opened or extended stays so.             *)
Kept ==
    /\ mounts.bound \subseteq mounts'.bound
    /\ mounts.root # None => mounts'.root = mounts.root
    /\ mounts.metadata # None => mounts'.metadata = mounts.metadata
    /\ mounts.firmware # None => mounts'.firmware = mounts.firmware
    /\ mounts.modules # None => mounts'.modules = mounts.modules
    /\ mode # "none" => mode' = mode
    /\ c' = c \/ (c = "locked" /\ c' = "open")
    /\ pcr7 = "extended" => pcr7' = "extended"

(* Every stage of cmd_boot, every prompt and every error leads forward: no  *)
(* stage is run twice, and nothing is taken back.  A boot has at most 22    *)
(* steps.                                                                   *)
Forward == Left = 22 /\ [][Left' \in 0..(Left - 1) /\ Kept]_vars

LEMMA ForwardStep ==
    ASSUME BootInv, PendingInv, Next PROVE PendingInv' /\ Left' \in 0..(Left - 1) /\ Kept
<1>0. /\ pc \in Stages \cup {"failed"} \cup Final /\ attempt \in 1..3
      /\ mounts \in Mounts
  BY DEF BootInv, TypeOK
<1>1. CASE SystemCallFails
  BY <1>1 DEF SystemCallFails, Fallible, Fail, PendingInv, Left, Kept
<1>2. CASE Detect \/ BootDevice
  BY <1>2 DEF Detect, BootDevice, Fail, Go, PendingInv, Left, Kept, BootInv
<1>3. CASE MountState \/ BindState
  BY <1>0, <1>3 DEF MountState, BindState, Go, PendingInv, Left, Kept, BootInv, Mounts
<1>4. CASE Unlock
  BY <1>0, <1>4 DEF Unlock, Fail, Go, PendingInv, Left, Kept
<1>5. CASE UnlockWithTpm
  BY <1>0, <1>5 DEF UnlockWithTpm, Go, PendingInv, Left, Kept
<1>6. CASE ExtendPcr7
  BY <1>6 DEF ExtendPcr7, Go, PendingInv, Left, Kept
<1>7. CASE Answer
  BY <1>0, <1>7 DEF Answer, Password, Fail, Go, PendingInv, Left, Kept
<1>8. CASE MountRoot
  BY <1>0, <1>8 DEF MountRoot, Fail, Go, PendingInv, Left, Kept, BootInv, Mounts
<1>9. CASE MountMnt
  BY <1>0, <1>9 DEF MountMnt, Fail, Go, PendingInv, Left, Kept, Mounts
<1>10. CASE Firmware
  <2>1. /\ pc = "firmware" /\ pc' \in {"modules", "failed"}
        /\ UNCHANGED <<mode, c, pcr7>>
    BY <1>10 DEF Firmware, Fail, Go
  <2>2. /\ mounts'.bound = mounts.bound /\ mounts'.root = mounts.root
        /\ mounts'.modules = mounts.modules
    BY <1>0, <1>10, ZenonT(30) DEF Firmware, Mounts
  <2> QED
    BY <2>1, <2>2 DEF PendingInv, Left, Kept
<1>11. CASE Modules
  BY <1>0, <1>11 DEF Modules, Fail, Go, PendingInv, Left, Kept, Mounts
<1>12. CASE BindHostImages
  BY <1>0, <1>12 DEF BindHostImages, Fail, Go, PendingInv, Left, Kept, Mounts
<1>13. CASE BindEncrypted \/ MountSystem
  BY <1>0, <1>13 DEF BindEncrypted, MountSystem, Go, PendingInv, Left, Kept, Mounts
<1>14. CASE SelectInit \/ SwitchRoot \/ ExecInit \/ HandleError
  BY <1>14 DEF SelectInit, SwitchRoot, ExecInit, HandleError, Fail, Go, PendingInv, Left, Kept
<1> QED
  BY <1>1, <1>2, <1>3, <1>4, <1>5, <1>6, <1>7, <1>8, <1>9, <1>10, <1>11, <1>12, <1>13, <1>14
     DEF Next, Step

(* cmd_boot is a straight line of stages, also across its errors and the    *)
(* prompts of unlock_c_with_password.  It is the safety of BootEnds.        *)
THEOREM BootGoesForward == Spec => Forward
<1>1. Init => PendingInv /\ Left = 22
  BY DEF Init, PendingInv, Left
<1>2. BootInv /\ PendingInv /\ [Next]_vars => PendingInv' /\ [Left' \in 0..(Left - 1) /\ Kept]_vars
  <2>1. ASSUME PendingInv, UNCHANGED vars PROVE PendingInv'
    BY <2>1 DEF PendingInv, vars
  <2> QED
    BY <2>1, ForwardStep
<1> QED
  BY <1>1, <1>2, BootInvariant, PTL DEF Spec, Forward
=============================================================================
