------------------------------ MODULE DataDevice ------------------------------
(***************************************************************************)
(* How cmd_boot finds the data device (src/src/boot.rs, src/src/mount.rs):  *)
(* the load option of the firmware is read, and the boot disk that it names *)
(* is looked up once; then find_data_device searches the boot disk, then    *)
(* every disk, then falls back to partition 1 of the boot disk, all against *)
(* one deadline, while the kernel is still discovering devices.             *)
(*                                                                          *)
(* Time is in ticks of 500 ms.  A scan sees the devices that are there when *)
(* it ends, and may be slow; a partition that is there can be read.         *)
(***************************************************************************)
EXTENDS Integers, FiniteSets, BootEntry

CONSTANTS Partitions,
          DiskOf, Number,  \* the disk and the number of each partition
          Boot,            \* the partition that the firmware has started
          Entries,         \* load options that the firmware may have used
          Deadline,        \* 20 s
          Attempts,        \* of one global search for a label "USB...": 10
          MaxSlow,         \* scans are slow only before this time
          Direct

ASSUME DeviceAssumption ==
    /\ Deadline \in Nat /\ MaxSlow \in Nat /\ Attempts \in Nat \ {0}
    /\ Boot \in Partitions /\ Direct \notin Partitions /\ None \notin Partitions
    /\ Number \in [Partitions -> Nat \ {0}]

(* A device path is a sequence of nodes; what an entry has of a hard drive  *)
(* node describes the boot partition.                                       *)
ASSUME EntriesAssumption ==
    \A e \in Entries :
        /\ e.nodes \in Seq({e.nodes[k] : k \in DOMAIN e.nodes})
        /\ \A k \in DOMAIN e.nodes :
              /\ e.nodes[k].len \in Nat
              /\ e.nodes[k].hd = "yes" => e.nodes[k].number = Number[Boot] /\ e.nodes[k].guid = Boot

ScanPeriod == 1            \* 500 ms
SearchPeriod == 2          \* 1 s

VARIABLES kind,       \* INITOS_DATA: a "label", a label "usb" or a "path"
          entry,      \* the load option, until it has been read
          info,       \* what it tells of the boot partition
          labelled,   \* partitions that have the label
          ext4,       \* partitions with an ext4 superblock
          now, appeared, pc, wake, attempt, disk, result

vars == <<kind, entry, info, labelled, ext4, now, appeared, pc, wake, attempt, disk, result>>
machine == <<kind, entry, info, labelled, ext4>>

Sleeping == pc \in {"scanSleep", "retrySleep", "searchSleep"}
Done == pc \in {"found", "failed", "panicked"}
Present == {d \in Partitions : appeared[d] # None}

Init ==
    /\ kind \in {"label", "usb", "path"}
    /\ entry \in Entries /\ info = NoInfo
    /\ labelled \in SUBSET (Partitions \ {Boot})
    /\ ext4 \in SUBSET {d \in Partitions : Number[d] = 1}
    /\ now = 0
    /\ appeared \in [Partitions -> {0, None}]
    /\ pc = "entry"
    /\ wake = 0
    /\ attempt = 1
    /\ disk = None
    /\ result = None

-----------------------------------------------------------------------------
(* The kernel.                                                              *)

Appear(d) ==
    /\ ~ Done /\ pc # "entry" /\ appeared[d] = None
    /\ appeared' = [appeared EXCEPT ![d] = now]
    /\ UNCHANGED <<machine, now, pc, wake, attempt, disk, result>>

Tick ==
    /\ ~ Done /\ pc # "entry"
    /\ IF Sleeping THEN now < wake ELSE now < MaxSlow
    /\ now' = now + 1
    /\ UNCHANGED <<machine, appeared, pc, wake, attempt, disk, result>>

-----------------------------------------------------------------------------
(* PID 1.                                                                   *)

Go(step) == pc' = step /\ UNCHANGED <<machine, now, appeared, wake, attempt, disk, result>>

Sleep(step, time) ==
    /\ pc' = step
    /\ wake' = now + time
    /\ UNCHANGED <<machine, now, appeared, disk, result>>

Return(d) ==
    /\ pc' = "found"
    /\ result' = d
    /\ UNCHANGED <<machine, now, appeared, wake, attempt, disk>>

(* extract_boot_device_info.  No device is looked at yet.                   *)
ReadEntry ==
    LET drive == HardDrive(entry, 0) IN
    /\ pc = "entry"
    /\ \/ drive = {} /\ info' = NoInfo /\ pc' = "boot"
       \/ \E k \in drive : /\ ~ Panics(entry, k)
                           /\ info' = DeviceInfo(entry, k) /\ pc' = "boot"
       \/ \E k \in drive : Panics(entry, k) /\ info' = NoInfo /\ pc' = "panicked"
    /\ entry' = None
    /\ UNCHANGED <<kind, labelled, ext4, now, appeared, wake, attempt, disk, result>>

(* mutation: the partition GUID is not compared                            *)
SameNumber == {d \in Present : info.known = "yes" /\ Number[d] = info.number}

(* find_boot_disk: the partition with the number and the GUID, or, without  *)
(* a GUID, the only one that has the number so far.                         *)
BootPartitions ==
    LET sameNumber == {d \in Present : info.known = "yes" /\ Number[d] = info.number} IN
    IF info.guid # None THEN sameNumber \cap {info.guid}
    ELSE IF Cardinality(sameNumber) = 1 THEN sameNumber ELSE {}

(* Done once; a read error counts as not found.                             *)
FindBootDisk ==
    /\ pc = "boot"
    /\ disk' \in {DiskOf[d] : d \in BootPartitions} \cup {None}
    /\ pc' = IF disk' = None THEN "search" ELSE "scan"
    /\ UNCHANGED <<machine, now, appeared, wake, attempt, result>>

(* find_partition_on_disk_by_label, in the order of the partition numbers.  *)
OnBootDisk == {d \in Present \cap labelled : DiskOf[d] = disk /\ kind # "path"}

(* mutation: the boot disk is scanned only once                            *)
ScanOnce ==
    /\ pc = "scan"
    /\ IF OnBootDisk # {}
       THEN \E d \in OnBootDisk : Return(d)
       ELSE Go("search")

ScanBootDisk ==
    /\ pc = "scan"
    /\ IF now >= Deadline THEN Go("search")
       ELSE \/ \E d \in OnBootDisk : /\ \A e \in OnBootDisk : Number[d] <= Number[e]
                                     /\ Return(d)
            \/ OnBootDisk = {} /\ Sleep("scanSleep", ScanPeriod) /\ UNCHANGED attempt

(* find_partition_by_label: a path as it is; else the first partition that  *)
(* sysfs happens to list, with retries for "USB...".  Then strategy 3 if    *)
(* the deadline has passed.                                                 *)
GlobalSearch ==
    LET found == IF kind = "path" THEN {Direct} ELSE Present \cap labelled
        max == IF kind = "usb" THEN Attempts ELSE 1 IN
    /\ pc = "search"
    /\ \/ \E d \in found : Return(d)
       \/ /\ found = {} /\ attempt < max
          /\ Sleep("retrySleep", SearchPeriod)
          /\ attempt' = attempt + 1
       \/ /\ found = {} /\ attempt = max /\ now < Deadline
          /\ Sleep("searchSleep", SearchPeriod)
          /\ attempt' = 1
       \/ found = {} /\ attempt = max /\ now >= Deadline /\ Go("fallback")

(* mutation: the deadline is not looked at again after the sleep           *)
WakeNoDeadline ==
    /\ Sleeping /\ now = wake
    /\ Go(IF pc = "scanSleep" THEN "scan" ELSE IF pc = "searchSleep" THEN "fallback" ELSE "search")

(* mutation: a new deadline for each strategy, so the loop starts over     *)
WakeRestarts ==
    /\ Sleeping /\ now = wake
    /\ now' = 0 /\ pc' = IF pc = "scanSleep" THEN "scan" ELSE "search"
    /\ UNCHANGED <<machine, appeared, wake, attempt, disk, result>>

(* thread::sleep returns; strategy 2 looks at the deadline before it        *)
(* searches again.                                                          *)
Wake ==
    /\ Sleeping /\ now = wake
    /\ Go(CASE pc = "scanSleep" -> "scan"
            [] pc = "searchSleep" /\ now >= Deadline -> "fallback"
            [] OTHER -> "search")

(* Strategy 3: partition 1 of the boot disk, if it can be read and is ext4. *)
Fallback ==
    LET first == {d \in Present : Number[d] = 1 /\ DiskOf[d] = disk} IN
    /\ pc = "fallback"
    /\ \/ \E d \in first \cap ext4 : Return(d)
       \/ first \cap ext4 = {} /\ Go("failed")

Step == ReadEntry \/ FindBootDisk \/ ScanBootDisk \/ GlobalSearch \/ Wake \/ Fallback

Next == Step \/ Tick \/ \E d \in Partitions : Appear(d)

Spec == Init /\ [][Next]_vars

(* The process runs, and time passes.                                       *)
FairSpec == Spec /\ WF_vars(Step) /\ WF_vars(Tick /\ Sleeping)

-----------------------------------------------------------------------------
(* The search and the clock are in well-formed states.                      *)
TypeOK ==
    /\ kind \in {"label", "usb", "path"}
    /\ pc = "entry" => entry \in Entries
    /\ info.number \in {Number[Boot], 0} /\ info.guid \in {Boot, None}
    /\ labelled \subseteq Partitions /\ ext4 \subseteq Partitions
    /\ now \in Nat /\ wake \in Nat /\ attempt \in 1..Attempts
    /\ appeared \in [Partitions -> Nat \cup {None}]
    /\ pc \in {"entry", "boot", "scan", "scanSleep", "search", "retrySleep", "searchSleep",
               "fallback", "found", "failed", "panicked"}
    /\ disk \in {DiskOf[d] : d \in Partitions} \cup {None}
    /\ result \in Partitions \cup {Direct, None}

(* When the boot disk is known, another data device than the labelled one   *)
(* on the boot disk is taken only after the whole 20 s: a second disk with  *)
(* the same label never wins by being found first.                          *)
PrefersBootDisk ==
    result \in Partitions /\ disk # None /\ now < Deadline =>
        result \in labelled /\ DiskOf[result] = disk

(* A load option that follows UEFI leads both readers to the boot partition *)
(* whatever other nodes its device path has, and never to a panic.          *)
ReadsBootPartition ==
    [][pc = "entry" /\ WellFormed(entry) =>
          LET complete == \E k \in DOMAIN entry.nodes :
                             entry.nodes[k].hd = "yes" /\ entry.nodes[k].format = 2
                             /\ entry.nodes[k].sigtype = 2 IN
          /\ pc' = "boot" /\ PartitionId(entry) = {Number[Boot]}
          /\ info' = [known |-> "yes", number |-> Number[Boot],
                      guid |-> IF complete THEN Boot ELSE None]]_vars

(* The disk that is taken for the boot disk is the boot disk, although      *)
(* devices are still appearing when it is looked up; only an entry without  *)
(* a GUID can lead to another disk, by the number of its partition.         *)
RightDisk ==
    disk # None =>
        \/ disk = DiskOf[Boot]
        \/ /\ info.guid = None
           /\ \E d \in Partitions : Number[d] = Number[Boot] /\ DiskOf[d] = disk

(* No labelled partition appeared in time for the last search.              *)
NoneInTime ==
    \A d \in labelled \cap Present :
        appeared[d] >= Deadline - (IF disk = None THEN SearchPeriod ELSE 0)

(* find_data_device does not miss a device that appeared in time: it gives  *)
(* up, or takes the unlabelled partition 1, only if no labelled partition   *)
(* appeared before the deadline, or, when the boot disk is unknown, before  *)
(* the last sleep of 1 s.                                                   *)
InTimeIsFound ==
    pc = "failed" \/ (result \in Partitions /\ result \notin labelled) => NoneInTime

(* Inductive: with a boot disk the global search comes after the deadline;  *)
(* during the sleep of strategy 2 no labelled partition is older than the   *)
(* search before it, and at strategy 3 none was in time.                    *)
DeviceInv ==
    /\ TypeOK
    /\ result # None => pc = "found"
    /\ pc \in {"entry", "boot"} => disk = None
    /\ \A d \in Present : appeared[d] <= now
    /\ disk # None /\ pc \in {"search", "retrySleep"} => now >= Deadline
    /\ pc = "searchSleep" =>
          /\ disk = None /\ now >= wake - SearchPeriod
          /\ \A d \in labelled \cap Present : appeared[d] >= wake - SearchPeriod
    /\ pc \in {"fallback", "failed"} => now >= Deadline /\ NoneInTime
    /\ PrefersBootDisk
    /\ InTimeIsFound
    /\ RightDisk

(* The search ends, whatever appears and however slow it is.                *)
SearchEnds == <>Done
=============================================================================
