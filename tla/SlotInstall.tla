----------------------------- MODULE SlotInstall -----------------------------
(***************************************************************************)
(* install_slot of src/sidecar/bin/initos-upgrade: the payload of a signed  *)
(* release is unpacked beside /z/img/SLOT, the old slot is moved to         *)
(* SLOT.previous, the new one takes its place, and its boot image is        *)
(* written to the boot partition of the slot.  The command can fail at any  *)
(* step and the machine can lose power at any step.                         *)
(*                                                                          *)
(* The file system and the partitions are modelled twice: mem is what the   *)
(* running system sees, disk is what it would see after a power loss.  A    *)
(* rename reaches the disk with a journal commit; the contents of a new     *)
(* directory reach it later, and until then the disk holds torn files.      *)
(***************************************************************************)
EXTENDS Naturals, FiniteSets

CONSTANTS Slots,       \* the A/B slots, 101 and 102
          Versions,    \* the releases that may be installed
          Installers,  \* running copies of initos-upgrade install
          SlotOf,      \* the SLOT argument of each
          Blocks,      \* the blocks of a boot partition, as dd writes them
          None,        \* nothing there
          Torn         \* there, with contents lost or partly deleted

ASSUME SlotOfAssumption == SlotOf \in [Installers -> Slots]
ASSUME BlocksAssumption == Blocks \in Nat \ {0}
ASSUME NamesAssumption == None \notin Versions /\ Torn \notin Versions /\ None # Torn

VARIABLES pc,      \* the step of each installer
          ver,     \* the release that it installs
          block,   \* the blocks that its dd has written
          image,   \* the boot image that its dd has opened
          mem,     \* the storage as the running system sees it
          disk,    \* the storage as a power loss would leave it
          dirty,   \* the directories whose files have not been written back
          done     \* the last release whose installation was complete

vars == <<pc, ver, block, image, mem, disk, dirty, done>>

Content == Versions \cup {None, Torn}
Storage == [slot : [Slots -> Content],           \* /z/img/SLOT
            prev : [Slots -> Content],           \* /z/img/SLOT.previous
            esp  : [Slots -> [1..Blocks -> Versions \cup {None}]]]

Steps == {"idle", "staged", "checked", "moved", "placed", "synced", "dd", "written", "removing"}

Whole(v) == [b \in 1..Blocks |-> v]

(* Each slot starts empty or with one release, completely installed.        *)
Init ==
    /\ pc = [i \in Installers |-> "idle"]
    /\ ver = [i \in Installers |-> None]
    /\ block = [i \in Installers |-> 0]
    /\ image = [i \in Installers |-> None]
    /\ done \in [Slots -> Versions \cup {None}]
    /\ mem = [slot |-> done, prev |-> [s \in Slots |-> None],
              esp |-> [s \in Slots |-> Whole(done[s])]]
    /\ disk = mem
    /\ dirty = {}

(* A journal commit: the names as they are, with the files that have been   *)
(* written back; a directory of unwritten is torn.                          *)
Commit(unwritten) ==
    [disk EXCEPT
        !.slot = [s \in Slots |-> IF <<"slot", s>> \in unwritten THEN Torn ELSE mem.slot[s]],
        !.prev = [s \in Slots |-> IF <<"prev", s>> \in unwritten THEN Torn ELSE mem.prev[s]]]

(* sync(1): files, names and block devices.                                 *)
Sync == /\ dirty' = {}
        /\ disk' = [Commit({}) EXCEPT !.esp = mem.esp]

-----------------------------------------------------------------------------
(* install_slot up to the check for missing objects: the archive matches    *)
(* SHA256SUMS, is complete and signed, and is unpacked in a fresh directory. *)
Unpack(i, v) ==
    /\ pc[i] = "idle"
    /\ pc' = [pc EXCEPT ![i] = "staged"]
    /\ ver' = [ver EXCEPT ![i] = v]
    /\ block' = [block EXCEPT ![i] = 0]
    /\ UNCHANGED <<image, mem, disk, dirty, done>>

(* mutation: a leftover backup does not stop the installation              *)
CheckNothing(i) ==
    /\ pc[i] = "staged"
    /\ pc' = [pc EXCEPT ![i] = "checked"]
    /\ UNCHANGED <<ver, block, image, mem, disk, dirty, done>>

(* "previous interrupted upgrade backup exists" ends the command.           *)
CheckPrevious(i) ==
    /\ pc[i] = "staged"
    /\ pc' = [pc EXCEPT ![i] = IF mem.prev[SlotOf[i]] = None THEN "checked" ELSE "idle"]
    /\ UNCHANGED <<ver, block, image, mem, disk, dirty, done>>

(* mutation: the old slot is deleted instead of moved                      *)
DeleteOld(i) ==
    LET s == SlotOf[i] IN
    /\ pc[i] = "checked"
    /\ pc' = [pc EXCEPT ![i] = "moved"]
    /\ mem' = [mem EXCEPT !.slot[s] = None]
    /\ dirty' = dirty \ {<<"slot", s>>}
    /\ UNCHANGED <<ver, block, image, disk, done>>

(* mv -T SLOT SLOT.previous, if SLOT exists.  The move fails on a backup    *)
(* that is there by now.                                                    *)
MoveAside(i) ==
    LET s == SlotOf[i] IN
    /\ pc[i] = "checked"
    /\ \/ /\ mem.slot[s] = None
          /\ pc' = [pc EXCEPT ![i] = "moved"]
          /\ UNCHANGED <<mem, dirty>>
       \/ /\ mem.slot[s] # None /\ mem.prev[s] = None
          /\ pc' = [pc EXCEPT ![i] = "moved"]
          /\ mem' = [slot |-> [mem.slot EXCEPT ![s] = None],
                     prev |-> [mem.prev EXCEPT ![s] = mem.slot[s]],
                     esp  |-> mem.esp]
          /\ dirty' = (dirty \ {<<"slot", s>>})
                         \cup {d \in {<<"prev", s>>} : <<"slot", s>> \in dirty}
       \/ /\ mem.slot[s] # None /\ mem.prev[s] # None
          /\ pc' = [pc EXCEPT ![i] = "idle"]
          /\ UNCHANGED <<mem, dirty>>
    /\ UNCHANGED <<ver, block, image, disk, done>>

(* mv -T of the unpacked directory to SLOT; it fails if SLOT exists.        *)
Place(i) ==
    LET s == SlotOf[i] IN
    /\ pc[i] = "moved"
    /\ \/ /\ mem.slot[s] = None
          /\ pc' = [pc EXCEPT ![i] = "placed"]
          /\ mem' = [mem EXCEPT !.slot[s] = ver[i]]
          /\ dirty' = dirty \cup {<<"slot", s>>}
       \/ /\ mem.slot[s] # None
          /\ pc' = [pc EXCEPT ![i] = "idle"]
          /\ UNCHANGED <<mem, dirty>>
    /\ UNCHANGED <<ver, block, image, disk, done>>

(* mutation: dd starts without the sync before it                          *)
NoSyncBeforeDd(i) ==
    /\ pc[i] = "placed"
    /\ pc' = [pc EXCEPT ![i] = "synced"]
    /\ UNCHANGED <<ver, block, image, mem, disk, dirty, done>>

SyncSlot(i) ==
    /\ pc[i] = "placed"
    /\ pc' = [pc EXCEPT ![i] = "synced"]
    /\ Sync
    /\ UNCHANGED <<ver, block, image, mem, done>>

(* dd opens the boot image in SLOT and writes one block after another; the  *)
(* last one is followed by the fsync of conv=fsync.                         *)
OpenImage(i) ==
    LET s == SlotOf[i] IN
    /\ pc[i] = "synced"
    /\ mem.slot[s] \in Versions
    /\ pc' = [pc EXCEPT ![i] = "dd"]
    /\ image' = [image EXCEPT ![i] = mem.slot[s]]
    /\ UNCHANGED <<ver, block, mem, disk, dirty, done>>

WriteBlock(i) ==
    LET s == SlotOf[i] b == block[i] + 1 IN
    /\ pc[i] = "dd"
    /\ block' = [block EXCEPT ![i] = b]
    /\ mem' = [mem EXCEPT !.esp[s][b] = image[i]]
    /\ \/ b < Blocks /\ UNCHANGED <<pc, disk>>
       \/ /\ b = Blocks
          /\ pc' = [pc EXCEPT ![i] = "written"]
          /\ disk' = [disk EXCEPT !.esp[s] = mem'.esp[s]]
    /\ UNCHANGED <<ver, image, dirty, done>>

(* The second sync.  From here on the new release is the installed one, and *)
(* rm -rf SLOT.previous has begun.                                          *)
SyncBoot(i) ==
    LET s == SlotOf[i] IN
    /\ pc[i] = "written"
    /\ pc' = [pc EXCEPT ![i] = "removing"]
    /\ done' = [done EXCEPT ![s] = ver[i]]
    /\ Sync
    /\ UNCHANGED <<ver, block, image, mem>>

(* rm -rf SLOT.previous: files first, then the directory.                   *)
RemoveFiles(i) ==
    LET s == SlotOf[i] IN
    /\ pc[i] = "removing"
    /\ mem.prev[s] \notin {None, Torn}
    /\ mem' = [mem EXCEPT !.prev[s] = Torn]
    /\ UNCHANGED <<pc, ver, block, image, disk, dirty, done>>

RemoveDirectory(i) ==
    LET s == SlotOf[i] IN
    /\ pc[i] = "removing"
    /\ mem.prev[s] \in {None, Torn}
    /\ pc' = [pc EXCEPT ![i] = "idle"]
    /\ mem' = [mem EXCEPT !.prev[s] = None]
    /\ dirty' = dirty \ {<<"prev", s>>}
    /\ UNCHANGED <<ver, block, image, disk, done>>

(* A command fails or is interrupted: set -e, and the EXIT trap removes the *)
(* unpacked directory.                                                      *)
Abort(i) ==
    /\ pc[i] # "idle"
    /\ pc' = [pc EXCEPT ![i] = "idle"]
    /\ UNCHANGED <<ver, block, image, mem, disk, dirty, done>>

-----------------------------------------------------------------------------
(* The kernel, in the background: a journal commit, with or without the     *)
(* write-back of the files; one block of a partition.                       *)
Background ==
    /\ \E unwritten \in SUBSET dirty :
          /\ dirty' = unwritten
          /\ disk' = Commit(unwritten)
    /\ UNCHANGED <<pc, ver, block, image, mem, done>>

BackgroundBlock ==
    /\ \E s \in Slots, b \in 1..Blocks : disk' = [disk EXCEPT !.esp[s][b] = mem.esp[s][b]]
    /\ UNCHANGED <<pc, ver, block, image, mem, dirty, done>>

PowerLoss ==
    /\ mem' = disk
    /\ dirty' = {}
    /\ pc' = [i \in Installers |-> "idle"]
    /\ UNCHANGED <<ver, block, image, disk, done>>

Install(i) ==
    \/ \E v \in Versions : Unpack(i, v)
    \/ CheckPrevious(i) \/ MoveAside(i) \/ Place(i) \/ SyncSlot(i)
    \/ OpenImage(i) \/ WriteBlock(i) \/ SyncBoot(i) \/ RemoveFiles(i) \/ RemoveDirectory(i)
    \/ Abort(i)

Next == (\E i \in Installers : Install(i)) \/ Background \/ BackgroundBlock \/ PowerLoss

Spec == Init /\ [][Next]_vars

-----------------------------------------------------------------------------
(* The state of the installers and of the storage is well formed.           *)
TypeOK ==
    /\ pc \in [Installers -> Steps]
    /\ ver \in [Installers -> Versions \cup {None}]
    /\ block \in [Installers -> 0..Blocks]
    /\ image \in [Installers -> Versions \cup {None}]
    /\ mem \in Storage
    /\ disk \in Storage
    /\ dirty \subseteq {"slot", "prev"} \X Slots
    /\ done \in [Slots -> Versions \cup {None}]

(* Whatever the installer is doing, and wherever the power fails, the disk  *)
(* still holds every file of the last release whose installation was        *)
(* complete, in SLOT or in SLOT.previous (install_slot keeps the backup     *)
(* until the new slot has been synced and its boot image written).          *)
Recoverable ==
    \A s \in Slots : done[s] # None => done[s] \in {disk.slot[s], disk.prev[s]}

(* An interrupted upgrade leaves a trace: if a power loss would leave no    *)
(* SLOT.previous, it would leave the slot and its boot partition with the   *)
(* release installed last, neither of them half replaced.  install_slot     *)
(* refuses to run only on that trace, and syncs it before it starts dd.     *)
InterruptionIsVisible ==
    \A s \in Slots :
        done[s] # None /\ disk.prev[s] = None =>
            disk.slot[s] = done[s] /\ disk.esp[s] = Whole(done[s])

(* The release that the disk holds whole for a slot: the backup if there is *)
(* one, and SLOT otherwise.                                                 *)
Held(s) ==
    CASE disk.prev[s] \in Versions -> disk.prev[s]
      [] disk.prev[s] \notin Versions /\ disk.slot[s] \in Versions -> disk.slot[s]
      [] OTHER -> None

(* The steps of install_slot amount to one atomic replacement of the        *)
(* release that a slot holds, across power losses.                          *)
Abstract == INSTANCE AtomicSlots WITH current <- [s \in Slots |-> Held(s)]
AtomicReplacement == Abstract!Spec

-----------------------------------------------------------------------------
Writing == {"synced", "dd", "written"}
Replacing == {"moved", "placed"} \cup Writing

Clean(name, s) == <<name, s>> \notin dirty

(* The backup that protects a slot, installer by installer: from the move   *)
(* to the end of dd, the release installed last is in SLOT.previous.        *)
InstallerInv(i) ==
    LET s == SlotOf[i] IN
    /\ pc[i] # "idle" => ver[i] \in Versions
    /\ pc[i] \in {"staged", "checked", "moved", "placed", "synced"} => block[i] = 0
    /\ pc[i] = "checked" => mem.prev[s] = None
    /\ pc[i] = "moved" => mem.slot[s] = None
    /\ pc[i] \in Replacing \ {"moved"} => mem.slot[s] = ver[i]
    /\ pc[i] \in Replacing /\ done[s] # None => mem.prev[s] = done[s] /\ Clean("prev", s)
    /\ pc[i] \in Writing =>
          /\ Clean("slot", s) /\ Clean("prev", s)
          /\ disk.slot[s] = mem.slot[s] /\ disk.prev[s] = mem.prev[s]
    /\ pc[i] \in {"dd", "written"} => image[i] = ver[i]
    /\ pc[i] = "dd" => block[i] < Blocks /\ \A b \in 1..block[i] : mem.esp[s][b] = ver[i]
    /\ pc[i] = "written" => mem.esp[s] = Whole(ver[i]) /\ disk.esp[s] = Whole(ver[i])
    /\ pc[i] = "removing" =>
          /\ done[s] # None /\ mem.slot[s] = done[s] /\ disk.slot[s] = done[s]
          /\ Clean("slot", s)
          /\ mem.esp[s] = Whole(done[s]) /\ disk.esp[s] = Whole(done[s])

(* And slot by slot: without a backup, slot and partition are untouched.    *)
StorageInv(s) ==
    /\ mem.prev[s] = None => Clean("prev", s)
    /\ done[s] # None =>
        /\ \/ mem.slot[s] = done[s] /\ Clean("slot", s)
           \/ mem.prev[s] = done[s] /\ Clean("prev", s)
        /\ done[s] \in {disk.slot[s], disk.prev[s]}
        /\ mem.prev[s] = None =>
              /\ mem.slot[s] = done[s] /\ Clean("slot", s)
              /\ mem.esp[s] = Whole(done[s]) /\ disk.esp[s] = Whole(done[s])
        /\ disk.prev[s] = None =>
              /\ disk.slot[s] = done[s]
              /\ mem.esp[s] = Whole(done[s]) /\ disk.esp[s] = Whole(done[s])

(* The inductive invariant behind Recoverable and InterruptionIsVisible,    *)
(* for installers that work on different slots.                             *)
SlotInv ==
    /\ TypeOK
    /\ \A i \in Installers : InstallerInv(i)
    /\ \A s \in Slots : StorageInv(s)

-----------------------------------------------------------------------------
(* docs/usage-nix.md: the command "preserves the prior slot as              *)
(* /z/img/102.previous until the boot image write succeeds".  Once an       *)
(* installer that found a release in place is writing, the backup is there. *)
DocBackupUntilWritten ==
    \A i \in Installers :
        pc[i] \in {"placed", "synced", "dd"} /\ done[SlotOf[i]] # None
            => mem.prev[SlotOf[i]] # None
=============================================================================
