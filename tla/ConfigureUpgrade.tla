--------------------------- MODULE ConfigureUpgrade ---------------------------
(***************************************************************************)
(* initos-upgrade configure (src/sidecar/bin/initos-upgrade): any number of *)
(* commands record an upgrade under /z/c/initos, activate a NixOS system    *)
(* and set BootNext to the entry of the alternate slot, while efi2 of       *)
(* setup-initos-host may rewrite the boot entries, commands may be killed   *)
(* and the machine may restart.                                             *)
(*                                                                          *)
(* A file is on the disk once it is written; the directory of a record has  *)
(* the time of the last file created in it.                                 *)
(***************************************************************************)
EXTENDS Integers, Sequences

CONSTANTS Procs, Systems,
          Ids, SlotOf,       \* boot entries and the partition of each
          Primary101, Primary102,
          Keep,              \* 10 records
          Earlier,           \* old records that there may be at the start
          MaxRecords,        \* bound on the records
          MaxRestarts,       \* bound on the restarts
          None

ASSUME EntriesAssumption ==
    /\ {Primary101, Primary102} \subseteq Ids /\ None \notin Ids
    /\ SlotOf[Primary101] = 101 /\ SlotOf[Primary102] = 102
    /\ \A i, j \in Ids : SlotOf[i] \in {101, 102} /\ SlotOf[i] = SlotOf[j] => i = j

ASSUME BoundsAssumption == {Earlier, Keep, MaxRecords, MaxRestarts} \subseteq Nat

Slots == {101, 102}
Other(slot) == IF slot = 101 THEN 102 ELSE 101

VARIABLES profile, active,    \* the system profile and the activated system
          entries, bootNext,  \* Boot#### and BootNext
          machine,            \* "up" or "firmware"
          bootCurrent, slot,  \* BootCurrent and the slot that is running
          saved,              \* /z/c/initos/current-slot
          made, byTime,       \* how many records, and those that are left by time
          old,                \* records that are older than 21 days
          latest,             \* the record that latest-upgrade links to
          command,            \* the state of each command
          efi,                \* how far efi2 is, which is run once
          restarts

firmware == <<entries, bootNext, machine, bootCurrent, slot, restarts>>
systems == <<profile, active>>
files == <<saved, made, byTime, old, latest>>
vars == <<firmware, systems, files, command, efi>>

Idle == [pc |-> "idle", record |-> None, system |-> None, alternate |-> "no",
         reboot |-> "no", next |-> None, prune |-> {}, alone |-> "yes"]
Busy(p) == command[p].pc # "idle"

Init ==
    /\ profile \in Systems /\ active = profile
    /\ entries \in SUBSET Ids
    /\ bootCurrent \in entries
    /\ slot = SlotOf[bootCurrent] /\ slot \in Slots
    /\ bootNext = None /\ machine = "up"
    /\ saved \in Slots \cup {None}
    /\ made \in {0, Earlier} /\ byTime = [k \in 1..made |-> k] /\ old = 1..made
    /\ latest = IF made = 0 THEN None ELSE
         [record |-> made, system |-> profile, boot |-> None, alternate |-> "no",
          status |-> "complete", sure |-> "yes"]
    /\ command = [p \in Procs |-> Idle]
    /\ efi = "start" /\ restarts = 0

-----------------------------------------------------------------------------
(* The steps of a command.                                                  *)

At(p, step) == command[p].pc = step

Goto(p, step) == command' = [command EXCEPT ![p].pc = step]

Record(p) == command[p].record

System(p) == command[p].system

(* Of the contents of the records only those of the latest are kept, and    *)
(* whether the command has ended by itself and with no other beside it.     *)
SetStatus(p, status, ended) ==
    latest' = IF latest # None /\ latest.record = Record(p)
              THEN [latest EXCEPT !.status = status,
                        !.sure = IF ended = "yes" THEN command[p].alone ELSE "no"]
              ELSE latest

(* The other records, in the same order.                                    *)
Without(records, r) ==
    LET at == CHOOSE k \in DOMAIN records : records[k] = r IN
    IF \E k \in DOMAIN records : records[k] = r
    THEN SubSeq(records, 1, at - 1) \o SubSeq(records, at + 1, Len(records))
    ELSE records

(* Creating a file in the directory of r makes it the newest.               *)
Touched(r) == Append(Without(byTime, r), r)

(* After the checks of the arguments: the record, without a status yet.     *)
MakeRecord(p) ==
    /\ machine = "up" /\ At(p, "idle") /\ made < MaxRecords
    /\ made' = made + 1
    /\ byTime' = Append(byTime, made')
    /\ \E system \in Systems, alternate, reboot \in {"no", "yes"} :
         /\ reboot = "yes" => alternate = "yes"
         /\ command' = [q \in Procs |->
                IF q = p
                THEN [pc |-> "link", record |-> made', system |-> system,
                      alternate |-> alternate, reboot |-> reboot, next |-> None, prune |-> {},
                      alone |-> IF \E o \in Procs : Busy(o) THEN "no" ELSE "yes"]
                ELSE IF Busy(q) THEN [command[q] EXCEPT !.alone = "no"] ELSE command[q]]
    /\ UNCHANGED <<firmware, systems, saved, old, latest, efi>>

(* status, ln -sfn latest-upgrade, and from here the EXIT trap.             *)
LinkLatest(p) ==
    /\ At(p, "link")
    /\ latest' = [record |-> Record(p), system |-> System(p), boot |-> restarts,
                  alternate |-> command[p].alternate, status |-> "running", sure |-> "no"]
    /\ Goto(p, "snapshot")
    /\ UNCHANGED <<firmware, systems, saved, made, byTime, old, efi>>

(* mutation: the saved slot is preferred                                   *)
SavedSlotFirst(listed) ==
    IF saved # None THEN saved ELSE IF bootCurrent \in listed THEN SlotOf[bootCurrent] ELSE None

(* The running slot: the partition of BootCurrent if it is listed, else the *)
(* slot that an earlier command has saved.                                  *)
CurrentSlot(listed) ==
    IF bootCurrent \in listed THEN SlotOf[bootCurrent] ELSE saved

(* The only entry of the alternate slot, if there is one; every other case  *)
(* is an error of the step that sets BootNext.                              *)
AlternateEntry(listed, current) ==
    LET found == {i \in listed : current \in Slots /\ SlotOf[i] = Other(current)} IN
    IF \E i \in found : found = {i} THEN CHOOSE i \in found : TRUE ELSE None

(* efibootmgr > efibootmgr.before || true: the entries, or none.  What the  *)
(* command does with them later is decided by this snapshot.                *)
Snapshot(p) ==
    /\ At(p, "snapshot")
    /\ \E listed \in {entries, {}} :
         LET current == CurrentSlot(listed) IN
         /\ command' = [command EXCEPT ![p].pc = "profile",
                ![p].next = IF command[p].alternate = "yes"
                            THEN AlternateEntry(listed, current) ELSE None]
         /\ saved' = IF current # None THEN current ELSE saved
    /\ byTime' = Touched(Record(p))
    /\ UNCHANGED <<firmware, systems, made, old, latest, efi>>

(* A command that fails or dies may have done its work.                     *)
MayHaveHappened(p) ==
    /\ profile' \in {profile} \cup IF At(p, "profile") THEN {System(p)} ELSE {}
    /\ active' \in {active} \cup IF At(p, "switch") THEN {System(p)} ELSE {}
    /\ UNCHANGED <<firmware, saved, made, byTime, old, efi>>

(* nix-env --profile ... --set                                              *)
SetProfile(p) ==
    /\ At(p, "profile")
    /\ profile' = System(p)
    /\ Goto(p, "switch")
    /\ UNCHANGED <<firmware, active, files, efi>>

AfterSwitch(p) == IF command[p].alternate = "yes" THEN "next" ELSE "list"

(* mutation: a failing activation is not noticed                           *)
SwitchUnchecked(p) ==
    /\ At(p, "switch")
    /\ active' \in {active, System(p)}
    /\ Goto(p, AfterSwitch(p))
    /\ UNCHANGED <<firmware, profile, files, efi>>

(* switch-to-configuration switch                                           *)
Switch(p) ==
    /\ At(p, "switch")
    /\ active' = System(p)
    /\ Goto(p, AfterSwitch(p))
    /\ UNCHANGED <<firmware, profile, files, efi>>

(* efibootmgr --bootnext                                                    *)
SetBootNext(p) ==
    /\ At(p, "next") /\ command[p].next # None
    /\ bootNext' = command[p].next
    /\ Goto(p, "after")
    /\ UNCHANGED <<entries, machine, bootCurrent, slot, restarts>>
    /\ UNCHANGED <<systems, files, efi>>

(* efibootmgr.after, next-slot, next-boot-entry.                            *)
NoteNext(p) ==
    /\ At(p, "after")
    /\ byTime' = Touched(Record(p))
    /\ Goto(p, "list")
    /\ UNCHANGED <<firmware, systems, saved, made, old, latest, efi>>

(* find | sort -zrn: all but the Keep newest records.                       *)
ListRecords(p) ==
    /\ At(p, "list")
    /\ command' = [command EXCEPT ![p].pc = "prune",
           ![p].prune = {r \in 1..made : \E k \in 1..(Len(byTime) - Keep) : byTime[k] = r}]
    /\ UNCHANGED <<firmware, systems, files, efi>>

(* mutation: the age is not looked at                                      *)
PruneAnyAge(p) ==
    /\ At(p, "prune")
    /\ \E r \in command[p].prune :
         /\ byTime' = Without(byTime, r)
         /\ command' = [command EXCEPT ![p].prune = @ \ {r}]
    /\ UNCHANGED <<firmware, systems, saved, made, old, latest, efi>>

(* rm -rf of a listed record, if it is old (and still there).               *)
PruneRecord(p) ==
    /\ At(p, "prune")
    /\ \E r \in command[p].prune :
         /\ byTime' = IF r \in old THEN Without(byTime, r) ELSE byTime
         /\ command' = [command EXCEPT ![p].prune = @ \ {r}]
    /\ UNCHANGED <<firmware, systems, saved, made, old, latest, efi>>

(* The status "rebooting" and sync.                                         *)
NoteReboot(p) ==
    /\ At(p, "prune") /\ command[p].prune = {} /\ command[p].reboot = "yes"
    /\ SetStatus(p, "rebooting", "yes")
    /\ Goto(p, "reboot")
    /\ UNCHANGED <<firmware, systems, saved, made, byTime, old, efi>>

(* systemctl reboot, which returns at once.                                 *)
Reboot(p) ==
    /\ At(p, "reboot")
    /\ machine' = "stopping"
    /\ Goto(p, "exit")
    /\ UNCHANGED <<entries, bootNext, bootCurrent, slot, restarts>>
    /\ UNCHANGED <<systems, files, efi>>

End(p) == command' = [command EXCEPT ![p] = Idle]

(* The EXIT trap after the last command, which overwrites "rebooting".      *)
Exit(p) ==
    /\ \/ At(p, "exit")
       \/ At(p, "prune") /\ command[p].prune = {} /\ command[p].reboot = "no"
    /\ SetStatus(p, "complete", "yes")
    /\ End(p)
    /\ UNCHANGED <<firmware, systems, saved, made, byTime, old, efi>>

(* The EXIT trap after a command that has failed (set -e) or exit 1.        *)
Fail(p) ==
    /\ At(p, "profile") \/ At(p, "switch") \/ At(p, "next") \/ At(p, "after")
       \/ At(p, "reboot")
    /\ SetStatus(p, "failed", "yes")
    /\ End(p)
    /\ MayHaveHappened(p)

(* SIGTERM, SIGHUP or SIGPIPE: bash runs the EXIT trap, and $? is still the *)
(* 0 of the command before.                                                 *)
Signal(p) ==
    /\ Busy(p) /\ ~ At(p, "link")
    /\ SetStatus(p, "complete", "no")
    /\ End(p)
    /\ MayHaveHappened(p)

(* SIGKILL, or a signal before the trap is set.                             *)
Kill(p) ==
    /\ Busy(p)
    /\ End(p)
    /\ MayHaveHappened(p)
    /\ UNCHANGED latest

-----------------------------------------------------------------------------
(* efi2 of setup-initos-host: -B 0101, -B 0102, -c 0101, -c 0102.  The      *)
(* order of the entries, which it also sets, is not kept: see Boot.         *)
Efi2 ==
    /\ machine = "up"
    /\ \/ efi = "start" /\ efi' = "one" /\ entries' = entries \ {Primary101}
       \/ efi = "one" /\ efi' = "none" /\ entries' = entries \ {Primary102}
       \/ efi = "none" /\ efi' = "new" /\ entries' = entries \cup {Primary101}
       \/ efi = "new" /\ efi' = "done" /\ entries' = entries \cup {Primary102}
    /\ UNCHANGED <<bootNext, machine, bootCurrent, slot, restarts>>
    /\ UNCHANGED <<systems, files, command>>

(* 21 days pass for the oldest record; no command takes that long.          *)
Age ==
    /\ \A p \in Procs : ~ Busy(p)
    /\ \E k \in DOMAIN byTime :
         /\ byTime[k] \notin old /\ \A j \in 1..(k - 1) : byTime[j] \in old
         /\ old' = old \cup {byTime[k]}
    /\ UNCHANGED <<firmware, systems, saved, made, byTime, latest, command, efi>>

(* A reboot that was asked for, or a loss of power.                         *)
Restart ==
    /\ machine = "stopping" \/ (machine = "up" /\ restarts < MaxRestarts)
    /\ machine' = "firmware" /\ restarts' = restarts + 1
    /\ command' = [p \in Procs |-> Idle] /\ efi' = IF efi = "start" THEN efi ELSE "done"
    /\ UNCHANGED <<entries, bootNext, bootCurrent, slot>>
    /\ UNCHANGED <<systems, files>>

(* The boot manager has cleared BootNext, and NixOS starts the profile.     *)
StartSlot ==
    /\ machine = "firmware" /\ machine' = "up"
    /\ bootNext' = None /\ active' = profile
    /\ UNCHANGED <<entries, restarts, profile, files, command, efi>>

(* BootNext, or an entry of BootOrder if that one does not start; UpgradeCycle*)
(* has the boot manager and the loader in detail.                           *)
Boot ==
    /\ bootCurrent' \in entries
    /\ slot' = SlotOf[bootCurrent']
    /\ StartSlot

(* A slot that is started by hand, or found by the firmware, has no         *)
(* Boot#### entry.                                                          *)
BootUnlisted ==
    /\ bootCurrent' = None
    /\ slot' \in Slots
    /\ StartSlot

Command(p) ==
    \/ MakeRecord(p) \/ LinkLatest(p) \/ Snapshot(p) \/ SetProfile(p) \/ Switch(p)
    \/ SetBootNext(p) \/ NoteNext(p) \/ ListRecords(p) \/ PruneRecord(p)
    \/ NoteReboot(p) \/ Reboot(p) \/ Exit(p) \/ Fail(p) \/ Signal(p) \/ Kill(p)

Next == (\E p \in Procs : Command(p)) \/ Efi2 \/ Age \/ Restart \/ Boot \/ BootUnlisted

Spec == Init /\ [][Next]_vars

-----------------------------------------------------------------------------
(* If the machine was started by a boot entry, BootNext never names the     *)
(* slot that is running: when the entry is missing from the snapshot and    *)
(* configure falls back to a stale current-slot, the entry that it would    *)
(* choose is the missing one.                                               *)
AlternateSlot ==
    bootCurrent # None /\ bootNext # None => SlotOf[bootNext] # slot

(* When no command is running, the status "complete" of latest-upgrade, if  *)
(* the command was not interrupted and no other ran beside it, tells what   *)
(* the machine has: its system is the profile and is activated, and until   *)
(* the restart BootNext is set if that was asked for.                       *)
LatestIsTrue ==
    /\ latest # None /\ latest.status = "complete" /\ latest.sure = "yes"
    /\ \A p \in Procs : ~ Busy(p)
    =>
    /\ profile = latest.system /\ active = profile
    /\ latest.alternate = "yes" /\ latest.boot = restarts => bootNext # None

(* Pruning, also by several commands at once, leaves the Keep newest        *)
(* records and those of the last 21 days, and latest-upgrade is no dangling *)
(* link.                                                                    *)
RecordsRetained ==
    LET left == {byTime[k] : k \in DOMAIN byTime} IN
    /\ 1..made \ left \subseteq old
    /\ Len(byTime) < made => Len(byTime) >= Keep
    /\ latest # None => latest.record \in left

(* docs/usage-nix.md: BootNext is set to the single boot entry for the      *)
(* alternate InitOS partition.  Violated: with no BootCurrent, the saved    *)
(* current-slot may be that of an earlier boot.                             *)
DocAlternateSlot == bootNext # None => SlotOf[bootNext] # slot
=============================================================================
