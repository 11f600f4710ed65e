---------------------------- MODULE UpgradeCycle ----------------------------
(***************************************************************************)
(* The machine around install_slot: it runs from one slot while a release   *)
(* is installed in that slot or in the other one, configure sets BootNext,  *)
(* and after a reboot or a loss of power the firmware, the EFI loader and   *)
(* PID 1 make what they can of the slots as the disk holds them.            *)
(***************************************************************************)
EXTENDS SlotInstall, Sequences, Functions

CONSTANT KernelOf      \* the kernel release of each InitOS release

ASSUME KernelAssumption == DOMAIN KernelOf = Versions
ASSUME SlotsAssumption == Cardinality(Slots) \in Nat

VARIABLES machine,     \* who is in control of the machine
          verified,    \* Secure Boot: "yes" or "no"
          order,       \* the slots of the entries of BootOrder
          bootNext,    \* the slot that BootNext names
          left,        \* the entries that the boot manager has not yet tried
          slot,        \* the slot that was started
          running,     \* the release of the kernel that was started
          root         \* the release of /z/img/SLOT that PID 1 has mounted

boot == <<machine, verified, order, bootNext, left, slot, running, root>>
cycle == <<vars, boot>>

CycleInit ==
    /\ Init
    /\ verified \in {"yes", "no"}
    /\ order \in Bijection(1..Cardinality(Slots), Slots)
    /\ slot \in Slots /\ done[slot] # None
    /\ machine = "up" /\ bootNext = None /\ left = <<>>
    /\ running = done[slot] /\ root = done[slot]

Up == machine = "up"

-----------------------------------------------------------------------------
(* The running system.                                                      *)
Work ==
    /\ Up
    /\ (\E i \in Installers : Install(i)) \/ Background \/ BackgroundBlock
    /\ UNCHANGED boot

(* configure --reboot-alternate: BootNext for the slot that is not running. *)
AlternateNext ==
    /\ Up
    /\ bootNext' \in Slots \ {slot}
    /\ UNCHANGED <<vars, machine, verified, order, left, slot, running, root>>

(* What a restart forgets.                                                  *)
Restart(how) ==
    /\ machine' = how
    /\ left' = <<>> /\ running' = None /\ root' = None
    /\ UNCHANGED <<verified, order, bootNext, slot>>

(* systemctl reboot: the commands are killed, and the file systems synced.  *)
Reboot ==
    /\ Up
    /\ Restart("off")
    /\ pc' = [i \in Installers |-> "idle"]
    /\ Sync
    /\ UNCHANGED <<ver, block, image, mem, done>>

Unplug == PowerLoss /\ Restart("off")

-----------------------------------------------------------------------------
(* mutation: the loader's slot stays the one to be started                 *)
KeepBootNext ==
    /\ machine \in {"off", "reset"}
    /\ machine' = "firmware"
    /\ left' = IF bootNext = None THEN order ELSE <<bootNext>> \o order
    /\ UNCHANGED <<vars, verified, order, bootNext, slot, running, root>>

(* The boot manager starts over: BootNext once, then BootOrder.             *)
PowerOn ==
    /\ machine \in {"off", "reset"}
    /\ machine' = "firmware"
    /\ left' = IF bootNext = None THEN order ELSE <<bootNext>> \o order
    /\ bootNext' = None
    /\ UNCHANGED <<vars, verified, order, slot, running, root>>

(* An entry whose file cannot be loaded is skipped: an empty partition, and *)
(* perhaps one that is partly written.                                      *)
SkipEntry ==
    /\ machine = "firmware" /\ left # <<>>
    /\ \A v \in Versions : mem.esp[Head(left)] # Whole(v)
    /\ left' = Tail(left)
    /\ UNCHANGED <<vars, machine, verified, order, bootNext, slot, running, root>>

StartEntry ==
    /\ machine = "firmware" /\ left # <<>>
    /\ mem.esp[Head(left)] # Whole(None)
    /\ machine' = "loader" /\ slot' = Head(left) /\ left' = <<>>
    /\ UNCHANGED <<vars, verified, order, bootNext, running, root>>

(* The loader starts the kernel of its partition.                           *)
LoaderStarts ==
    /\ machine = "loader"
    /\ machine' = "kernel"
    /\ running' \in {mem.esp[slot][b] : b \in 1..Blocks} \ {None}
    /\ UNCHANGED <<vars, verified, order, bootNext, left, slot, root>>

(* A partition that is partly written may lack a file or a valid signature: *)
(* fail_and_reboot, and the boot manager starts over.                       *)
LoaderResets ==
    /\ machine = "loader"
    /\ \A v \in Versions : mem.esp[slot] # Whole(v)
    /\ machine' = "reset"
    /\ UNCHANGED <<vars, verified, order, bootNext, left, slot, running, root>>

(* mutation: PID 1 does not need the modules of its kernel                 *)
AnyModules == mem.slot[slot] # None

(* PID 1 needs the root image of its slot and modules-KERNEL.erofs.  A      *)
(* directory that was torn may still have both.                             *)
HasImages ==
    \/ mem.slot[slot] \in Versions /\ KernelOf[mem.slot[slot]] = KernelOf[running]
    \/ mem.slot[slot] = Torn

Pid1Starts ==
    /\ machine = "kernel"
    /\ HasImages
    /\ machine' = "up" /\ root' = mem.slot[slot]
    /\ UNCHANGED <<vars, verified, order, bootNext, left, slot, running>>

(* cmd_boot returns an error: PID 1 exits and panic=5 restarts the machine, *)
(* or, without Secure Boot, the recovery shell is started.                  *)
Pid1Fails ==
    /\ machine = "kernel"
    /\ ~ HasImages \/ mem.slot[slot] = Torn
    /\ IF verified = "yes" THEN Restart("off")
       ELSE machine' = "recovery" /\ UNCHANGED <<verified, order, bootNext, left, slot, running, root>>
    /\ UNCHANGED vars

CycleNext ==
    \/ Work \/ AlternateNext \/ Reboot \/ Unplug
    \/ PowerOn \/ SkipEntry \/ StartEntry
    \/ LoaderStarts \/ LoaderResets \/ Pid1Starts \/ Pid1Fails

Starting == PowerOn \/ SkipEntry \/ StartEntry \/ LoaderStarts \/ LoaderResets
               \/ Pid1Starts \/ Pid1Fails

CycleSpec == CycleInit /\ [][CycleNext]_cycle

(* What starts a machine that has power does not stop by itself; nothing is *)
(* assumed of commands, of an operator or of the power.                     *)
CycleFairness == WF_cycle(Starting)

-----------------------------------------------------------------------------
(* A machine that runs the kernel of one release on the files of another    *)
(* one has SLOT.previous: only an interrupted installation can lead there,  *)
(* and the next install_slot says so.  The modules, which are looked up by  *)
(* kernel release, keep such a machine from coming up at all unless both    *)
(* releases have the same kernel.                                           *)
MixtureIsVisible ==
    Up /\ root # running =>
        /\ mem.prev[slot] # None
        /\ root \in Versions => KernelOf[root] = KernelOf[running]

(* If nothing is installed in the default slot and the power stays on, then *)
(* the machine always comes up again (or, without Secure Boot, reaches the  *)
(* recovery shell), in whatever state an interrupted installation has left  *)
(* the slot that BootNext names.                                            *)
ComesBack ==
    /\ done[Head(order)] # None /\ \A i \in Installers : SlotOf[i] # Head(order)
    /\ <>[][~ Unplug]_cycle
    => []<>(Up \/ (machine = "recovery" /\ verified = "no"))
=============================================================================
