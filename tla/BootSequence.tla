---------------------------- MODULE BootSequence ----------------------------
(***************************************************************************)
(* The initrd boot sequence that PID 1 runs: cmd_boot of src/src/boot.rs,   *)
(* from the read of the EFI SecureBoot variable to the execve of init, with *)
(* every early return and the error path that follows it.                   *)
(*                                                                          *)
(* One action is one stage of cmd_boot.  What the stages read (the EFI      *)
(* variables, the files of the STATE filesystem, the TPM, the root file     *)
(* system) is fixed while PID 1 runs, and is a record of Machines.  A       *)
(* system call that can fail for another reason fails by SystemCallFails,   *)
(* at most MaxFaults times; the failures that the code survives are part of *)
(* the stage that survives them.                                            *)
(***************************************************************************)
EXTENDS Naturals, Sequences, Functions

CONSTANTS Machines,   \* the machines to boot, a set of records
          MaxFaults   \* bound on the system calls that fail by chance

VARIABLES pc,         \* the stage of cmd_boot that runs next
          machine,    \* what the stages read, chosen once
          mode,       \* verified_boot_mode: "none", "dev" or "verified"
          part,       \* boot_partition_id: None or "N"
          c,          \* the directory /z/c: "absent", "locked" or "open"
          pcr7,       \* PCR 7 since power-on: "boot" or "extended"
          unlockedBy, \* what opened /z/c: "nothing", "tpm" or "password"
          attempt,    \* the password attempt, 1..3
          mounts,     \* what is mounted below /sysroot
          init,       \* the init that select_init chose
          rootdir,    \* where "/" is: "initrd" or "sysroot"
          error,      \* the stage whose error ended boot_run
          faults      \* system calls that failed by chance so far

vars == <<pc, machine, mode, part, c, pcr7, unlockedBy, attempt, mounts,
          init, rootdir, error, faults>>

-----------------------------------------------------------------------------
(* Names.  N stands for the number of the boot partition (101, 102).        *)

None == "none"

RootDirs == {"c/roots/N", "roots/N", "c/roots"}
RootPartitioned == <<"initos/N/root", "img/N/root">>
RootDefault == "img/root"
FirmwareImage == "img/N/firmware"
ModulesPartitioned == <<"initos/N/modules", "img/N/modules",
                        "/img/N/modules", "/data/img/N/modules">>
ModulesDefault == <<"img/modules", "/img/modules", "/data/img/modules">>

RootImages == Range(RootPartitioned) \cup {RootDefault}
ModulesImages == Range(ModulesPartitioned) \cup Range(ModulesDefault)
Images == RootImages \cup {FirmwareImage} \cup ModulesImages

(* An image file is absent, has no .sig file beside it, has one that no     *)
(* certificate of the UEFI db verifies, or one that a certificate verifies. *)
ImageStatus == {"absent", "unsigned", "stale", "signed"}

(* The candidates of select_init, in the order of the code.                 *)
InitOrder == <<"INITOS_INIT", "c/initos/init", "nix", "sbin", "systemd", "initos">>
Inits == Range(InitOrder)

(* select_init looks at a path from the initrd, execve from the new root.   *)
(* A symbolic link may resolve in one of the two only.                      *)
InitStatus == {"absent", "file", "initrd-only", "newroot-only"}

Stages == {"detect", "device", "data", "unlock", "tpm", "extend", "password",
           "root", "bindz", "mnt", "firmware", "modules", "bindhost", "bindc",
           "sysfs", "select", "switch", "exec"}
Final == {"init", "recovery", "exited"}

Machine == [secureBoot : {"on", "off", "unreadable"},
            bootPart   : {None, "N"},
            image      : [Images -> ImageStatus],
            rootDirs   : SUBSET RootDirs,
            cdir       : {"absent", "locked", "open"},
            tpm        : BOOLEAN,
            sealed     : [{"dev", "verified"} -> {"none", "other", "key"}],
            objects    : {"none", "legacy", "shared"},
            devTree    : BOOLEAN,
            libDirs    : SUBSET {"lib/firmware", "lib/modules"},
            cPaths     : SUBSET {"home", "home/root", "nix"},
            inits      : [Inits -> InitStatus],
            fallback   : SUBSET {"initrd", "sysroot"}]

ASSUME MachinesAssumption == Machines \subseteq Machine
ASSUME MaxFaultsAssumption == MaxFaults \in Nat

Mounts == [root : {None} \cup RootDirs \cup RootImages,
           metadata : {None, FirmwareImage}, firmware : {None, "composefs", "tree"},
           modules : {None} \cup ModulesImages,
           bound : SUBSET {"/z", "z", "mnt", "lib/firmware", "lib/modules",
                           "home", "home/root", "nix", "system"}]

verified == mode = "verified"

-----------------------------------------------------------------------------
(* Which image, and whether it may be mounted.                              *)

(* mutation: an unsigned image of the slot is skipped in verified mode too *)
CheckPartitionedLenient(path) ==
    IF machine.image[path] \in {"stale", "signed"} THEN "use" ELSE "skip"

(* check_partitioned_image: use the image of the slot, skip it, or fail.    *)
CheckPartitioned(path) ==
    CASE machine.image[path] \in {"stale", "signed"} -> "use"
      [] machine.image[path] = "unsigned" /\ verified -> "error"
      [] OTHER -> "skip"

(* The first path of a sequence of candidates that is among the accepted.   *)
First(paths, accepted) ==
    IF \E i \in DOMAIN paths : paths[i] \in accepted
    THEN paths[CHOOSE i \in DOMAIN paths :
                  /\ paths[i] \in accepted
                  /\ \A j \in DOMAIN paths : j < i => paths[j] \notin accepted]
    ELSE None

NotSkipped == {p \in Images : CheckPartitioned(p) # "skip"}
Existing == {p \in Images : machine.image[p] # "absent"}

(* mount_rootfs: the directory that serves as root, or None.  The ones      *)
(* below c are visible only while /z/c is open.                             *)
RootDirectory ==
    First(IF part # None THEN <<"c/roots/N", "roots/N", "c/roots">> ELSE <<"c/roots">>,
          {d \in machine.rootDirs : d = "roots/N" \/ c = "open"})

(* mount_rootfs: the image that serves as root when no directory does.      *)
RootImage ==
    LET hit == First(RootPartitioned, NotSkipped) IN
    IF part # None /\ hit # None THEN hit ELSE RootDefault

(* find_host_image for modules-<kernel>.erofs.  mount_host_images has       *)
(* returned already when the boot partition is not known.                   *)
ModulesImage ==
    LET hit == First(ModulesPartitioned, NotSkipped) IN
    IF hit # None THEN hit ELSE First(ModulesDefault, Existing)

(* find_host_image and mount_rootfs return the error of check_partitioned_image. *)
Refused(path) == path \in Range(RootPartitioned) \cup Range(ModulesPartitioned)
                 /\ CheckPartitioned(path) = "error"

(* mutation: verify_image_trusted accepts a signature without checking it  *)
TrustedBySigFile(path) == verified => machine.image[path] \in {"stale", "signed"}

(* verify_image_trusted with no Ed25519 key, and verify_image_db.           *)
Trusted(path) == verified => machine.image[path] = "signed"

(* verify_image_trusted and mount_loop succeed, by chance apart.            *)
Mountable(path) == path \in Existing /\ ~Refused(path) /\ Trusted(path)

-----------------------------------------------------------------------------
Init ==
    /\ machine \in Machines
    /\ pc = "detect"
    /\ mode = "none"
    /\ part = None
    /\ c = machine.cdir
    /\ pcr7 = "boot"
    /\ unlockedBy = "nothing"
    /\ attempt = 1
    /\ mounts = [root |-> None, metadata |-> None,
                 firmware |-> None, modules |-> None, bound |-> {}]
    /\ init = None
    /\ rootdir = "initrd"
    /\ error = None
    /\ faults = 0

(* boot_run returns Err from the present stage.                             *)
Fail == pc' = "failed" /\ error' = pc
Go(stage) == pc' = stage /\ error' = error
Chance == faults < MaxFaults /\ faults' = faults + 1

(* The stages whose system calls return their error with "?".               *)
Fallible == {"data", "root", "bindz", "mnt", "modules", "bindhost", "bindc",
             "sysfs", "select", "switch", "exec"}

SystemCallFails ==
    /\ pc \in Fallible
    /\ Chance
    /\ Fail
    /\ UNCHANGED <<machine, mode, part, c, pcr7, unlockedBy, attempt, mounts,
                   init, rootdir>>

(* mutation: an unreadable variable selects development mode               *)
DetectLenient ==
    /\ pc = "detect"
    /\ mode' = IF machine.secureBoot = "on" THEN "verified" ELSE "dev"
    /\ Go("device")
    /\ UNCHANGED <<machine, part, c, pcr7, unlockedBy, attempt, mounts, init,
                   rootdir, faults>>

(* detect_verified_boot_strict: an unreadable variable ends boot_run while  *)
(* verified_boot_mode is still None.                                        *)
Detect ==
    /\ pc = "detect"
    /\ \/ /\ machine.secureBoot = "unreadable"
          /\ mode' = mode
          /\ Fail
       \/ /\ machine.secureBoot # "unreadable"
          /\ mode' = IF machine.secureBoot = "on" THEN "verified" ELSE "dev"
          /\ Go("device")
    /\ UNCHANGED <<machine, part, c, pcr7, unlockedBy, attempt, mounts, init,
                   rootdir, faults>>

(* extract_boot_device_info and find_boot_disk: their errors become None.   *)
BootDevice ==
    /\ pc = "device"
    /\ part' = machine.bootPart
    /\ Go("data")
    /\ UNCHANGED <<machine, mode, c, pcr7, unlockedBy, attempt, mounts, init,
                   rootdir, faults>>

(* find_data_device, and the mount of what it found at /z.                  *)
MountState ==
    /\ pc = "data"
    /\ mounts' = [mounts EXCEPT !.bound = @ \cup {"/z"}]
    /\ Go("unlock")
    /\ UNCHANGED <<machine, mode, part, c, pcr7, unlockedBy, attempt, init,
                   rootdir, faults>>

-----------------------------------------------------------------------------
(* unlock_state_c.                                                          *)

Unlock ==
    /\ pc = "unlock"
    /\ \/ c = "absent" /\ Go("root")
       \/ c = "open" /\ verified /\ Fail
       \/ c = "open" /\ ~verified /\ Go("root")
       \/ c = "locked" /\ machine.tpm /\ Go("tpm")
       \/ c = "locked" /\ ~machine.tpm /\ Go("password")
    /\ UNCHANGED <<machine, mode, part, c, pcr7, unlockedBy, attempt, mounts,
                   init, rootdir, faults>>

(* The secret sealed for this mode is the key of /z/c, and its PCR 7 policy *)
(* still holds.                                                             *)
Unsealable == machine.sealed[mode] = "key" /\ pcr7 = "boot"

(* mutation: a failed unseal is tried again instead of asking for a password *)
UnlockWithTpmForever ==
    /\ pc = "tpm"
    /\ \/ /\ Unsealable
          /\ c' = "open"
          /\ unlockedBy' = "tpm"
          /\ Go("extend")
       \/ ~Unsealable /\ Go("unlock") /\ UNCHANGED <<c, unlockedBy>>
    /\ UNCHANGED <<machine, mode, part, pcr7, attempt, mounts, init, rootdir, faults>>

(* unlock_c_with_tpm up to the check that /z/c is open: unseal_key reads    *)
(* the handle of the mode, and every error falls back to the password.      *)
UnlockWithTpm ==
    /\ pc = "tpm"
    /\ \/ /\ Unsealable
          /\ c' = "open"
          /\ unlockedBy' = "tpm"
          /\ faults' = faults
          /\ Go("extend")
       \/ /\ IF Unsealable THEN Chance ELSE faults' = faults
          /\ Go("password")
          /\ UNCHANGED <<c, unlockedBy>>
    /\ UNCHANGED <<machine, mode, part, pcr7, attempt, mounts, init, rootdir>>

(* mutation: boot goes on without the extend                               *)
ExtendForgotten ==
    /\ pc = "extend"
    /\ Go("root")
    /\ UNCHANGED <<machine, mode, part, c, pcr7, unlockedBy, attempt, mounts,
                   init, rootdir, faults>>

(* unlock_c_with_tpm: the extend of PCR 7 that ends it.  Not fatal.         *)
ExtendPcr7 ==
    /\ pc = "extend"
    /\ \/ pcr7' = "extended" /\ faults' = faults
       \/ pcr7' = pcr7 /\ Chance
    /\ Go("root")
    /\ UNCHANGED <<machine, mode, part, c, unlockedBy, attempt, mounts, init,
                   rootdir>>

(* mutation: an exhausted prompt loop lets the boot go on                  *)
PasswordLoopFallsThrough(answer) ==
    /\ pc = "password"
    /\ CASE answer = "unreadable" -> Fail /\ UNCHANGED <<c, unlockedBy, attempt>>
         [] answer = "right" -> /\ c' = "open"
                                /\ unlockedBy' = "password"
                                /\ attempt' = attempt
                                /\ Go("root")
         [] OTHER -> /\ IF attempt < 3 THEN attempt' = attempt + 1 /\ Go("password")
                                       ELSE attempt' = attempt /\ Go("root")
                     /\ UNCHANGED <<c, unlockedBy>>
    /\ UNCHANGED <<machine, mode, part, pcr7, mounts, init, rootdir, faults>>

(* unlock_c_with_password: one prompt.  The answer cannot be read, is       *)
(* empty, does not open /z/c, or opens it.                                  *)
Password(answer) ==
    /\ pc = "password"
    /\ CASE answer = "unreadable" -> Fail /\ UNCHANGED <<c, unlockedBy, attempt>>
         [] answer = "right" -> /\ c' = "open"
                                /\ unlockedBy' = "password"
                                /\ attempt' = attempt
                                /\ Go("root")
         [] OTHER -> /\ IF attempt < 3 THEN attempt' = attempt + 1 /\ Go("password")
                                       ELSE attempt' = attempt /\ Fail
                     /\ UNCHANGED <<c, unlockedBy>>
    /\ UNCHANGED <<machine, mode, part, pcr7, mounts, init, rootdir, faults>>

-----------------------------------------------------------------------------
(* mount_rootfs: a directory is bound as it is; an image is verified first. *)
MountRoot ==
    /\ pc = "root"
    /\ \/ /\ RootDirectory # None
          /\ mounts' = [mounts EXCEPT !.root = RootDirectory]
          /\ Go("bindz")
       \/ /\ RootDirectory = None /\ Mountable(RootImage)
          /\ mounts' = [mounts EXCEPT !.root = RootImage]
          /\ Go("bindz")
       \/ /\ RootDirectory = None /\ ~Mountable(RootImage)
          /\ mounts' = mounts
          /\ Fail
    /\ UNCHANGED <<machine, mode, part, c, pcr7, unlockedBy, attempt, init,
                   rootdir, faults>>

(* cmd_boot: the bind of /z below the new root.                             *)
BindState ==
    /\ pc = "bindz"
    /\ mounts' = [mounts EXCEPT !.bound = @ \cup {"z"}]
    /\ Go("mnt")
    /\ UNCHANGED <<machine, mode, part, c, pcr7, unlockedBy, attempt, init,
                   rootdir, faults>>

(* mount_host_images: the tmpfs at mnt, before the boot partition is asked. *)
MountMnt ==
    /\ pc = "mnt"
    /\ mounts' = [mounts EXCEPT !.bound = @ \cup {"mnt"}]
    /\ IF part # None THEN Go("firmware") ELSE Fail
    /\ UNCHANGED <<machine, mode, part, c, pcr7, unlockedBy, attempt, init,
                   rootdir, faults>>

(* mount_slot_composefs_firmware, and what mount_host_images does with its  *)
(* error: fatal in verified mode, the unpacked tree otherwise.  The overlay *)
(* mount can fail after the metadata image is mounted, and leaves it there. *)
Firmware ==
    /\ pc = "firmware"
    /\ \/ /\ Mountable(FirmwareImage) /\ machine.objects # "none"
          /\ mounts' = [mounts EXCEPT !.metadata = FirmwareImage, !.firmware = "composefs"]
          /\ faults' = faults
          /\ Go("modules")
       \/ \E metadata \in {None, FirmwareImage} :
             /\ metadata # None => Mountable(FirmwareImage) /\ machine.objects # "none"
             /\ IF Mountable(FirmwareImage) /\ machine.objects # "none"
                THEN Chance ELSE faults' = faults
             /\ LET tree == ~verified /\ machine.devTree IN
                /\ mounts' = [mounts EXCEPT !.metadata = metadata,
                                            !.firmware = IF tree THEN "tree" ELSE None]
                /\ IF tree THEN Go("modules") ELSE Fail
    /\ UNCHANGED <<machine, mode, part, c, pcr7, unlockedBy, attempt, init, rootdir>>

(* mount_host_image: an image that no candidate holds is skipped.           *)
Modules ==
    /\ pc = "modules"
    /\ LET img == ModulesImage IN
       \/ img = None /\ mounts' = mounts /\ Go("bindhost")
       \/ /\ img # None /\ Mountable(img)
          /\ mounts' = [mounts EXCEPT !.modules = img]
          /\ Go("bindhost")
       \/ img # None /\ ~Mountable(img) /\ mounts' = mounts /\ Fail
    /\ UNCHANGED <<machine, mode, part, c, pcr7, unlockedBy, attempt, init,
                   rootdir, faults>>

(* bind_host_image_mounts: only the target is looked at, so the bind fails  *)
(* when the modules image was skipped and the root has a lib/modules.       *)
BindHostImages ==
    /\ pc = "bindhost"
    /\ LET broken == "lib/modules" \in machine.libDirs /\ mounts.modules = None IN
       /\ mounts' = [mounts EXCEPT !.bound = @ \cup
             (machine.libDirs \ IF broken THEN {"lib/modules"} ELSE {})]
       /\ IF broken THEN Fail ELSE Go("bindc")
    /\ UNCHANGED <<machine, mode, part, c, pcr7, unlockedBy, attempt, init,
                   rootdir, faults>>

(* bind_encrypted_state_paths: a missing source or target is skipped, and   *)
(* the sources exist only while /z/c is open.                               *)
BindEncrypted ==
    /\ pc = "bindc"
    /\ mounts' = [mounts EXCEPT !.bound = @ \cup
                     (IF c = "open" THEN machine.cPaths ELSE {})]
    /\ Go("sysfs")
    /\ UNCHANGED <<machine, mode, part, c, pcr7, unlockedBy, attempt, init,
                   rootdir, faults>>

(* mount_system_filesystems: proc, sys, dev, run, tmp and the rest.         *)
MountSystem ==
    /\ pc = "sysfs"
    /\ mounts' = [mounts EXCEPT !.bound = @ \cup {"system"}]
    /\ Go("select")
    /\ UNCHANGED <<machine, mode, part, c, pcr7, unlockedBy, attempt, init,
                   rootdir, faults>>

-----------------------------------------------------------------------------
(* select_init asks is_file in the initrd; INITOS_INIT is taken unasked,    *)
(* and /z/c/initos/init is visible only while /z/c is open.                 *)
SeenByInitrd ==
    {i \in Inits :
        /\ i = "c/initos/init" => c = "open"
        /\ \/ machine.inits[i] \in {"file", "initrd-only"}
           \/ machine.inits[i] = "newroot-only" /\ i = "INITOS_INIT"}

SelectInit ==
    /\ pc = "select"
    /\ init' = First(InitOrder, SeenByInitrd)
    /\ IF init' = None THEN Fail ELSE Go("switch")
    /\ UNCHANGED <<machine, mode, part, c, pcr7, unlockedBy, attempt, mounts,
                   rootdir, faults>>

(* switch_root_with_args up to the chroot.                                  *)
SwitchRoot ==
    /\ pc = "switch"
    /\ rootdir' = "sysroot"
    /\ Go("exec")
    /\ UNCHANGED <<machine, mode, part, c, pcr7, unlockedBy, attempt, mounts,
                   init, faults>>

(* switch_root_with_args: the execve, which resolves in the new root.       *)
ExecInit ==
    /\ pc = "exec"
    /\ IF machine.inits[init] \in {"file", "newroot-only"} THEN Go("init") ELSE Fail
    /\ UNCHANGED <<machine, mode, part, c, pcr7, unlockedBy, attempt, mounts,
                   init, rootdir, faults>>

(* mutation: any mode but verified may run the recovery script             *)
HandleErrorLoose ==
    /\ pc = "failed"
    /\ pc' = IF mode # "verified" /\ rootdir \in machine.fallback
             THEN "recovery" ELSE "exited"
    /\ UNCHANGED <<machine, mode, part, c, pcr7, unlockedBy, attempt, mounts,
                   init, rootdir, error, faults>>

(* cmd_boot after boot_run returned Err: initos-initrd in development mode, *)
(* exit 1 when it cannot be executed; otherwise 10 seconds and exit 1.      *)
HandleError ==
    /\ pc = "failed"
    /\ pc' = IF mode = "dev" /\ rootdir \in machine.fallback
             THEN "recovery" ELSE "exited"
    /\ UNCHANGED <<machine, mode, part, c, pcr7, unlockedBy, attempt, mounts,
                   init, rootdir, error, faults>>

Step ==
    \/ SystemCallFails
    \/ Detect
    \/ BootDevice
    \/ MountState
    \/ Unlock
    \/ UnlockWithTpm
    \/ ExtendPcr7
    \/ MountRoot
    \/ BindState
    \/ MountMnt
    \/ Firmware
    \/ Modules
    \/ BindHostImages
    \/ BindEncrypted
    \/ MountSystem
    \/ SelectInit
    \/ SwitchRoot
    \/ ExecInit
    \/ HandleError

Answer == \E answer \in {"unreadable", "empty", "wrong", "right"} : Password(answer)

Next == Step \/ Answer

Spec == Init /\ [][Next]_vars

(* PID 1 keeps running; nobody promises that a password is ever typed.      *)
FairSpec == Spec /\ WF_vars(Step)

-----------------------------------------------------------------------------
(* The state of cmd_boot is well formed; there are three password attempts. *)
TypeOK ==
    /\ pc \in Stages \cup {"failed"} \cup Final
    /\ machine \in Machine
    /\ mode \in {"none", "dev", "verified"}
    /\ part \in {None, "N"}
    /\ c \in {"absent", "locked", "open"}
    /\ pcr7 \in {"boot", "extended"}
    /\ unlockedBy \in {"nothing", "tpm", "password"}
    /\ attempt \in 1..3
    /\ mounts \in Mounts
    /\ init \in {None} \cup Inits
    /\ rootdir \in {"initrd", "sysroot"}
    /\ error \in {None} \cup Stages
    /\ faults \in 0..MaxFaults

(* In verified mode every image that PID 1 has loop-mounted (root, firmware *)
(* metadata, modules) carries a signature that a db certificate verifies,   *)
(* whichever candidate path it came from and whatever failed on the way.    *)
VerifiedMountsAreSigned ==
    verified =>
        /\ mounts.root \in RootImages => machine.image[mounts.root] = "signed"
        /\ mounts.metadata # None => machine.image[FirmwareImage] = "signed"
        /\ mounts.modules # None => machine.image[mounts.modules] = "signed"
        /\ mounts.firmware # "tree"

(* In verified mode an image that is not the slot's own is mounted only     *)
(* when the slot has no copy of it at all: check_partitioned_image never    *)
(* lets an unusable copy be passed over in silence.                         *)
NoSilentFallback ==
    verified /\ part # None =>
        /\ mounts.root = RootDefault =>
              \A p \in Range(RootPartitioned) : machine.image[p] = "absent"
        /\ mounts.modules \in Range(ModulesDefault) =>
              \A p \in Range(ModulesPartitioned) : machine.image[p] = "absent"

(* The recovery script runs only when SecureBoot was read and is off, as    *)
(* the header of initos-initrd demands, at whichever stage the boot failed. *)
RecoveryOnlyWhenOff == pc = "recovery" => machine.secureBoot = "off"

(* Nothing is mounted as root while /z/c exists and is locked, and in       *)
(* verified mode an open /z/c was opened by this boot, from the TPM or a    *)
(* password, never found open.                                              *)
RootAfterUnlock ==
    mounts.root # None =>
        /\ c # "locked"
        /\ verified /\ c = "open" => unlockedBy # "nothing"

(* Once the TPM has released the key, PCR 7 is extended before anything     *)
(* else is mounted, unless the extend itself failed: the sealed secret is   *)
(* out of reach of everything that runs later in this boot.                 *)
LockedAfterUnseal ==
    unlockedBy = "tpm" /\ pc # "extend" /\ faults = 0 => ~Unsealable

(* The inductive invariant of the proofs: the properties above, and what is *)
(* true at the stages before the ones that they speak of.  The mode is read *)
(* before anything is mounted, and /z/c is dealt with before the root is.   *)
BootInv ==
    /\ TypeOK
    /\ pc = "detect" => mode = "none"
    /\ mode = "dev" => machine.secureBoot = "off"
    /\ mode = "verified" => machine.secureBoot = "on"
    /\ pc \in {"detect", "device", "data", "unlock", "tpm", "extend", "password", "root"} =>
          /\ mounts.root = None /\ mounts.modules = None
          /\ mounts.metadata = None /\ mounts.firmware = None
    /\ pc \in {"detect", "device", "data", "unlock", "tpm"} => unlockedBy = "nothing"
    /\ pc = "extend" => c = "open" /\ unlockedBy = "tpm"
    /\ pc = "root" => /\ c # "locked"
                      /\ verified /\ c = "open" => unlockedBy # "nothing"
    /\ unlockedBy = "tpm" /\ pc # "extend" /\ faults = 0 => pcr7 = "extended"
    /\ VerifiedMountsAreSigned
    /\ NoSilentFallback
    /\ RecoveryOnlyWhenOff
    /\ RootAfterUnlock

(* The boot ends, in init, in recovery or in exit, unless it waits at the   *)
(* password prompt for ever.                                                *)
BootEnds == <>(pc \in Final) \/ <>[](pc = "password")

-----------------------------------------------------------------------------
(* What the documentation says and the code does otherwise.                 *)

(* docs/boot_sequence.md: a missing modules image is not fatal by itself.   *)
DocMissingModulesNotFatal == error = "bindhost" => faults > 0

(* docs/boot_sequence.md: the fallback runs in the initrd environment.      *)
DocRecoveryInInitrd == pc = "recovery" => rootdir = "initrd"
=============================================================================
