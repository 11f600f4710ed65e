----------------------- MODULE ConfigureUpgrade_proofs -----------------------
(***************************************************************************)
(* AlternateSlot, LatestIsTrue and RecordsRetained, for any number of       *)
(* commands, systems, records and boot entries.                             *)
(***************************************************************************)
EXTENDS ConfigureUpgrade, TLAPS

YesNo == {"yes", "no"}
Steps == {"idle", "link", "snapshot", "profile", "switch", "next", "after", "list", "prune",
          "reboot", "exit"}
Commands == [pc : Steps, record : Nat \cup {None}, system : Systems \cup {None},
             alternate : YesNo, reboot : YesNo, next : Ids \cup {None}, prune : SUBSET Nat,
             alone : YesNo]
Upgrades == [record : Nat, system : Systems \cup {None}, boot : Nat \cup {None},
             alternate : YesNo, status : {"running", "rebooting", "complete", "failed"},
             sure : YesNo]

(* The commands, and what a restart leaves of them.                         *)
CommandsOK ==
    /\ command \in [Procs -> Commands]
    /\ made \in Nat /\ restarts \in Nat
    /\ entries \subseteq Ids
    /\ \A p \in Procs : Busy(p) \/ command[p].next = None
    /\ machine = "firmware" => \A p \in Procs : ~ Busy(p)

-----------------------------------------------------------------------------
(* What the parts of the actions do to the commands.                        *)

LEMMA GotoEffect ==
    ASSUME command \in [Procs -> Commands], NEW p \in Procs, NEW step \in Steps, Goto(p, step)
    PROVE  /\ command' \in [Procs -> Commands]
           /\ \A q \in Procs \ {p} : command'[q] = command[q]
           /\ command'[p].pc = step /\ command'[p].next = command[p].next
           /\ command'[p].record = command[p].record /\ command'[p].system = command[p].system
           /\ command'[p].alternate = command[p].alternate
           /\ command'[p].alone = command[p].alone /\ command'[p].prune = command[p].prune
BY DEF Goto, Commands

LEMMA EndEffect ==
    ASSUME command \in [Procs -> Commands], NEW p \in Procs, End(p)
    PROVE  /\ command' \in [Procs -> Commands]
           /\ \A q \in Procs \ {p} : command'[q] = command[q]
           /\ command'[p].pc = "idle" /\ command'[p].next = None /\ command'[p].prune = {}
BY DEF End, Idle, Commands, Steps, YesNo

(* An alternate entry is an entry of the other slot.                        *)
LEMMA AlternateFound ==
    ASSUME NEW listed, NEW current, AlternateEntry(listed, current) # None
    PROVE  /\ AlternateEntry(listed, current) \in listed /\ current \in Slots
           /\ SlotOf[AlternateEntry(listed, current)] = Other(current)
<1> DEFINE found == {i \in listed : current \in Slots /\ SlotOf[i] = Other(current)}
<1>1. found # {} /\ AlternateEntry(listed, current) = CHOOSE i \in found : TRUE
  BY DEF AlternateEntry
<1> QED
  BY <1>1

(* Each command keeps to its own record; a new one notes who else is there. *)
LEMMA CommandEffect ==
    ASSUME CommandsOK, NEW p \in Procs, Command(p)
    PROVE  /\ command' \in [Procs -> Commands]
           /\ \A q \in Procs \ {p} : Busy(q) = Busy(q)' /\ command'[q].next = command[q].next
           /\ UNCHANGED <<entries, bootCurrent, slot, restarts>>
           /\ made' \in Nat
           /\ machine' = "firmware" => machine = "firmware"
           /\ command'[p].next \in {command[p].next, None}
                 \/ \E listed \in {entries, {}} :
                        command'[p].next = AlternateEntry(listed, CurrentSlot(listed))
           /\ command'[p].pc = "idle" => command'[p].next = None
           /\ command[p].pc = "idle" => machine = "up"
           /\ bootNext' \in {bootNext, command[p].next}
<1>0. command \in [Procs -> Commands] /\ made \in Nat
  BY DEF CommandsOK
<1>1. CASE MakeRecord(p)
  <2>1. /\ command' \in [Procs -> Commands]
        /\ \A q \in Procs \ {p} : command'[q].pc = command[q].pc /\ command'[q].next = command[q].next
        /\ command'[p].next = None /\ command'[p].pc = "link"
    <3> DEFINE lone == IF \E o \in Procs : Busy(o) THEN "no" ELSE "yes"
    <3>0. lone \in YesNo /\ {"no", "yes"} = YesNo
      BY DEF YesNo
    <3>1. PICK system \in Systems, alternate \in {"no", "yes"}, reboot \in {"no", "yes"} :
              command' = [q \in Procs |->
                IF q = p
                THEN [pc |-> "link", record |-> made', system |-> system,
                      alternate |-> alternate, reboot |-> reboot, next |-> None, prune |-> {},
                      alone |-> lone]
                ELSE IF Busy(q) THEN [command[q] EXCEPT !.alone = "no"] ELSE command[q]]
      BY <1>1, ZenonT(60) DEF MakeRecord
    <3> HIDE DEF lone
    <3>2. command'[p] \in Commands /\ command'[p].next = None /\ command'[p].pc = "link"
      BY <1>0, <1>1, <3>0, <3>1 DEF Commands, Steps, MakeRecord
    <3>3. ASSUME NEW q \in Procs \ {p}
          PROVE  /\ command'[q] \in Commands
                 /\ command'[q].pc = command[q].pc /\ command'[q].next = command[q].next
      BY <1>0, <3>1 DEF Commands, YesNo
    <3> QED
      BY <3>1, <3>2, <3>3
  <2> QED
    BY <1>0, <1>1, <2>1 DEF MakeRecord, Busy, At, firmware
<1>2. CASE Snapshot(p)
  <2>1. PICK listed \in {entries, {}} :
          command' = [command EXCEPT ![p].pc = "profile",
                ![p].next = IF command[p].alternate = "yes"
                            THEN AlternateEntry(listed, CurrentSlot(listed)) ELSE None]
    BY <1>2, ZenonT(30) DEF Snapshot
  <2>2. AlternateEntry(listed, CurrentSlot(listed)) \in Ids \cup {None}
    BY AlternateFound DEF CommandsOK
  <2>3. /\ command' \in [Procs -> Commands]
        /\ \A q \in Procs \ {p} : command'[q] = command[q]
        /\ command'[p].pc = "profile"
        /\ command'[p].next \in {AlternateEntry(listed, CurrentSlot(listed)), None}
    <3> DEFINE n == IF command[p].alternate = "yes"
                    THEN AlternateEntry(listed, CurrentSlot(listed)) ELSE None
    <3>1. n \in Ids \cup {None} /\ n \in {AlternateEntry(listed, CurrentSlot(listed)), None}
      BY <2>2
    <3>2. command' = [command EXCEPT ![p].pc = "profile", ![p].next = n]
      BY <2>1
    <3> HIDE DEF n
    <3>3. command'[p] = [[command[p] EXCEPT !.pc = "profile"] EXCEPT !.next = n]
          /\ \A q \in Procs \ {p} : command'[q] = command[q]
      BY <1>0, <3>2 DEF Commands
    <3>4. command'[p] \in Commands /\ command'[p].pc = "profile" /\ command'[p].next = n
      BY <1>0, <3>1, <3>3, ZenonT(60) DEF Commands, Steps
    <3> QED
      BY <1>0, <3>1, <3>2, <3>3, <3>4
  <2> QED
    BY <1>0, <1>2, <2>3, ZenonT(30) DEF Snapshot, Busy, At, firmware
<1>3. CASE ListRecords(p) \/ PruneRecord(p)
  <2>1. /\ command' \in [Procs -> Commands]
        /\ \A q \in Procs \ {p} : command'[q] = command[q]
        /\ command'[p].pc = "prune" /\ command'[p].next = command[p].next
    BY <1>0, <1>3 DEF ListRecords, PruneRecord, Commands, Steps, At
  <2> QED
    BY <1>0, <1>3, <2>1 DEF ListRecords, PruneRecord, Busy, At, firmware, files
<1>4. CASE \/ LinkLatest(p) \/ SetProfile(p) \/ Switch(p) \/ SetBootNext(p) \/ NoteNext(p)
           \/ NoteReboot(p) \/ Reboot(p)
  <2>1. PICK step \in Steps \ {"idle"} : Goto(p, step)
    BY <1>4 DEF LinkLatest, SetProfile, Switch, AfterSwitch, SetBootNext, NoteNext,
       NoteReboot, Reboot, Steps
  <2>2. /\ UNCHANGED <<entries, bootCurrent, slot, restarts, made>> /\ ~ At(p, "idle")
        /\ machine' \in {machine, "stopping"} /\ bootNext' \in {bootNext, command[p].next}
    BY <1>4 DEF LinkLatest, SetProfile, Switch, SetBootNext, NoteNext, NoteReboot, Reboot, At,
       firmware, files
  <2> QED
    BY <1>0, <2>1, <2>2, GotoEffect DEF Busy, At
<1>5. CASE Exit(p) \/ Fail(p) \/ Signal(p) \/ Kill(p)
  <2>1. End(p) /\ UNCHANGED firmware /\ made' = made /\ ~ At(p, "idle")
    BY <1>5 DEF Exit, Fail, Signal, Kill, MayHaveHappened, Busy, At
  <2> QED
    BY <1>0, <2>1, EndEffect DEF Busy, At, firmware
<1> QED
  BY <1>1, <1>2, <1>3, <1>4, <1>5 DEF Command

LEMMA NextCommandsOK == ASSUME CommandsOK, [Next]_vars PROVE CommandsOK'
<1>1. CASE \E p \in Procs : Command(p)
  <2>1. PICK p \in Procs : Command(p)
    BY <1>1
  <2> QED
    BY <2>1, CommandEffect DEF CommandsOK, Busy
<1>2. CASE Restart
  <2>1. /\ command' = [p \in Procs |-> Idle] /\ Idle \in Commands /\ Idle.next = None
        /\ Idle.pc = "idle"
    BY <1>2 DEF Restart, Idle, Commands, Steps, YesNo
  <2> QED
    BY <1>2, <2>1 DEF Restart, CommandsOK, Busy, files
<1>3. CASE Efi2 \/ Age \/ Boot \/ BootUnlisted \/ UNCHANGED vars
  <2>1. UNCHANGED <<command, made, restarts>> /\ machine' \in {machine, "up"} /\ entries' \subseteq Ids
    BY <1>3, EntriesAssumption DEF Efi2, Age, Boot, BootUnlisted, StartSlot, vars, files, firmware,
       CommandsOK
  <2> QED
    BY <2>1 DEF CommandsOK, Busy
<1> QED
  BY <1>1, <1>2, <1>3 DEF Next

-----------------------------------------------------------------------------
(* Inductive: the entry that a command has taken from its snapshot is not   *)
(* that of the running slot, whatever has happened to the entries since.    *)
EntryInv ==
    /\ CommandsOK
    /\ AlternateSlot
    /\ bootCurrent # None => bootCurrent \in Ids /\ slot = SlotOf[bootCurrent]
    /\ bootCurrent # None => \A p \in Procs :
          command[p].next # None => SlotOf[command[p].next] # slot

LEMMA NextEntryInv == ASSUME EntryInv, [Next]_vars PROVE EntryInv'
<1>0. CommandsOK /\ CommandsOK'
  BY NextCommandsOK DEF EntryInv
<1>1. CASE \E p \in Procs : Command(p)
  <2>1. PICK p \in Procs : Command(p)
    BY <1>1
  <2>2. ASSUME bootCurrent # None, NEW listed \in {entries, {}},
               AlternateEntry(listed, CurrentSlot(listed)) # None
        PROVE  SlotOf[AlternateEntry(listed, CurrentSlot(listed))] # slot
    <3> DEFINE current == CurrentSlot(listed)
               entry == AlternateEntry(listed, current)
    <3>1. entry \in listed /\ current \in Slots /\ SlotOf[entry] = Other(current) /\ entry \in Ids
      BY <1>0, <2>2, AlternateFound DEF CommandsOK
    <3>2. slot = SlotOf[bootCurrent] /\ bootCurrent \in Ids
      BY <2>2 DEF EntryInv
    <3>3. CASE bootCurrent \in listed
      BY <3>1, <3>2, <3>3 DEF CurrentSlot, Slots, Other
    <3>4. CASE bootCurrent \notin listed
      BY <3>1, <3>2, <3>4, EntriesAssumption DEF Slots, Other
    <3> QED
      BY <3>3, <3>4
  <2> QED
    BY <1>0, <2>1, <2>2, CommandEffect DEF EntryInv, AlternateSlot
<1>2. CASE Restart
  <2>1. /\ command' = [p \in Procs |-> Idle] /\ Idle.next = None
        /\ UNCHANGED <<bootNext, bootCurrent, slot>>
    BY <1>2 DEF Restart, Idle
  <2> QED
    BY <1>0, <2>1 DEF EntryInv, AlternateSlot
<1>3. CASE Boot \/ BootUnlisted
  <2>1. /\ command' = command /\ bootNext' = None /\ \A p \in Procs : command[p].next = None
    BY <1>0, <1>3 DEF Boot, BootUnlisted, StartSlot, CommandsOK
  <2>2. bootCurrent' # None => bootCurrent' \in Ids /\ slot' = SlotOf[bootCurrent']
    BY <1>0, <1>3 DEF Boot, BootUnlisted, CommandsOK
  <2> QED
    BY <1>0, <2>1, <2>2 DEF EntryInv, AlternateSlot
<1>4. CASE Efi2 \/ Age \/ UNCHANGED vars
  <2>1. UNCHANGED <<command, bootNext, bootCurrent, slot>>
    BY <1>4 DEF Efi2, Age, vars, firmware
  <2> QED
    BY <1>0, <2>1 DEF EntryInv, AlternateSlot
<1> QED
  BY <1>1, <1>2, <1>3, <1>4 DEF Next

(* BootNext never names the slot that is running if the machine was started *)
(* by an entry: one entry per slot makes a stale current-slot harmless.     *)
THEOREM NextIsAlternate == Spec => []AlternateSlot
<1>1. Init => EntryInv
  <2> SUFFICES ASSUME Init PROVE EntryInv
    OBVIOUS
  <2>1. Idle \in Commands /\ Idle.next = None /\ Idle.pc = "idle"
    BY DEF Idle, Commands, Steps, YesNo
  <2> QED
    BY <2>1, BoundsAssumption DEF Init, EntryInv, CommandsOK, AlternateSlot, Busy
<1>2. EntryInv /\ [Next]_vars => EntryInv'
  BY NextEntryInv
<1>3. EntryInv => AlternateSlot
  BY DEF EntryInv
<1> QED
  BY <1>1, <1>2, <1>3, PTL DEF Spec

-----------------------------------------------------------------------------
Switched == {"next", "after", "list", "prune", "reboot", "exit"}

(* The records have numbers of their own, and latest-upgrade tells of the   *)
(* command that has linked its record last.                                 *)
RecordsInv ==
    /\ CommandsOK
    /\ latest \in Upgrades \cup {None}
    /\ latest # None => latest.record <= made
    /\ \A p \in Procs : Busy(p) => Record(p) \in Nat /\ Record(p) <= made
    /\ \A p, q \in Procs : Busy(p) /\ Busy(q) /\ p # q => Record(p) # Record(q)
    /\ latest # None => \A p \in Procs : Busy(p) /\ latest.record = Record(p) =>
          /\ ~ At(p, "link")
          /\ latest.system = System(p) /\ latest.alternate = command[p].alternate
          /\ latest.boot = restarts

(* A command that is alone has done what its steps say.                     *)
SoleInv ==
    /\ \A p, q \in Procs : Busy(p) /\ Busy(q) /\ p # q => command[p].alone = "no"
    /\ \A p \in Procs : Busy(p) /\ command[p].alone = "yes" =>
          /\ command[p].pc \in Switched \cup {"switch"} => profile = System(p)
          /\ command[p].pc \in Switched => active = System(p)
          /\ command[p].pc \in Switched \ {"next"} /\ command[p].alternate = "yes" => bootNext # None

(* What "complete" says is true until another command has linked its record. *)
ToldInv ==
    /\ latest # None /\ latest.alternate = "yes" =>
          /\ latest.boot \in Nat /\ latest.boot <= restarts
          /\ machine = "firmware" => latest.boot < restarts
    /\ latest # None /\ latest.status = "complete" /\ latest.sure = "yes" =>
          /\ profile = latest.system /\ active = profile
          /\ latest.alternate = "yes" /\ latest.boot = restarts => bootNext # None
          /\ \A p \in Procs : Busy(p) => At(p, "link")

TruthInv == RecordsInv /\ SoleInv /\ ToldInv

LEMMA SetStatusEffect ==
    ASSUME RecordsInv, NEW p \in Procs, NEW status \in {"rebooting", "complete", "failed"},
           NEW ended, SetStatus(p, status, ended), latest' # None
    PROVE  /\ latest' \in Upgrades /\ latest # None
           /\ latest'.record = latest.record /\ latest'.system = latest.system
           /\ latest'.alternate = latest.alternate /\ latest'.boot = latest.boot
           /\ \/ latest' = latest
              \/ /\ latest.record = Record(p) /\ latest'.status = status
                 /\ latest'.sure = "yes" => ended = "yes" /\ command[p].alone = "yes"
<1>1. latest # None /\ latest \in Upgrades /\ command[p].alone \in YesNo
  BY DEF SetStatus, RecordsInv, CommandsOK, Commands
<1>2. CASE latest.record # Record(p)
  BY <1>1, <1>2 DEF SetStatus
<1>3. CASE latest.record = Record(p)
  <2> DEFINE sure == IF ended = "yes" THEN command[p].alone ELSE "no"
  <2>1. sure \in YesNo /\ (sure = "yes" => ended = "yes" /\ command[p].alone = "yes")
    BY <1>1 DEF YesNo
  <2>2. latest' = [[latest EXCEPT !.status = status] EXCEPT !.sure = sure]
    BY <1>1, <1>3 DEF SetStatus
  <2> HIDE DEF sure
  <2> QED
    BY <1>1, <1>3, <2>1, <2>2, ZenonT(30) DEF Upgrades
<1> QED
  BY <1>2, <1>3

(* A new command: others lose their claim to be alone.                      *)
LEMMA MakeRecordStep ==
    ASSUME TruthInv, CommandsOK', NEW p \in Procs, MakeRecord(p)
    PROVE  TruthInv'
<1>1. /\ command \in [Procs -> Commands] /\ made \in Nat /\ made' = made + 1 /\ ~ Busy(p)
      /\ machine = "up"
      /\ UNCHANGED <<latest, profile, active, bootNext, restarts, machine>>
  BY DEF TruthInv, RecordsInv, CommandsOK, MakeRecord, At, Busy, firmware, systems
<1>2. /\ command'[p].pc = "link" /\ command'[p].record = made'
      /\ command'[p].alone = IF \E o \in Procs : Busy(o) THEN "no" ELSE "yes"
  BY <1>1 DEF MakeRecord
<1>3. ASSUME NEW q \in Procs \ {p}
      PROVE  /\ command'[q].pc = command[q].pc /\ command'[q].record = command[q].record
             /\ command'[q].system = command[q].system
             /\ command'[q].alternate = command[q].alternate
             /\ command[q].pc # "idle" => command'[q].alone = "no"
  <2>1. command'[q] = IF Busy(q) THEN [command[q] EXCEPT !.alone = "no"] ELSE command[q]
    BY DEF MakeRecord
  <2>2. command[q] \in Commands
    BY <1>1
  <2> QED
    BY <2>1, <2>2 DEF Commands, Busy
<1>4. RecordsInv'
  <2>1. \A q \in Procs : Busy(q) => Record(q) \in Nat /\ Record(q) <= made
    BY DEF TruthInv, RecordsInv
  <2>2. latest # None => latest.record \in Nat /\ latest.record <= made
    BY DEF TruthInv, RecordsInv, Upgrades
  <2>3. \A q \in Procs : Busy(q)' => Record(q)' \in Nat /\ Record(q)' <= made'
    BY <1>1, <1>2, <1>3, <2>1 DEF Busy, Record
  <2>4. \A q, r \in Procs : Busy(q)' /\ Busy(r)' /\ q # r => Record(q)' # Record(r)'
    BY <1>1, <1>2, <1>3, <2>1 DEF TruthInv, RecordsInv, Busy, Record
  <2>5. latest' # None => \A q \in Procs : Busy(q)' /\ latest'.record = Record(q)' =>
          /\ ~ At(q, "link")'
          /\ latest'.system = System(q)' /\ latest'.alternate = command'[q].alternate
          /\ latest'.boot = restarts'
    <3> SUFFICES ASSUME latest # None, NEW q \in Procs, Busy(q)', latest.record = Record(q)'
                 PROVE  /\ ~ At(q, "link")' /\ latest.system = System(q)'
                        /\ latest.alternate = command'[q].alternate /\ latest.boot = restarts
      BY <1>1
    <3>1. q # p
      BY <1>1, <1>2, <2>2 DEF Record
    <3> QED
      BY <1>3, <3>1 DEF TruthInv, RecordsInv, Busy, Record, System, At
  <2> QED
    BY <1>1, <2>2, <2>3, <2>4, <2>5 DEF TruthInv, RecordsInv
<1>5. SoleInv'
  <2>1. \A q, r \in Procs : Busy(q)' /\ Busy(r)' /\ q # r => command'[q].alone = "no"
    BY <1>2, <1>3 DEF Busy
  <2>2. ASSUME NEW q \in Procs, Busy(q)', command'[q].alone = "yes" PROVE command'[q].pc = "link"
    BY <1>2, <1>3, <2>2 DEF Busy
  <2> QED
    BY <2>1, <2>2 DEF SoleInv, Switched
<1>6. ToldInv'
  BY <1>1, <1>2, <1>3 DEF TruthInv, ToldInv, Busy, At
<1> QED
  BY <1>4, <1>5, <1>6 DEF TruthInv

(* The other steps of a command that runs on.                               *)
LEMMA GoOnStep ==
    ASSUME TruthInv, CommandsOK', NEW p \in Procs, NEW step \in Steps \ {"idle", "link"},
           Busy(p), command' \in [Procs -> Commands],
           \A q \in Procs \ {p} : command'[q] = command[q],
           command'[p].pc = step, command'[p].record = command[p].record,
           command'[p].system = command[p].system,
           command'[p].alternate = command[p].alternate, command'[p].alone = command[p].alone,
           ~ At(p, "link"), UNCHANGED <<made, restarts>>, machine' \in {machine, "stopping"},
           latest' # None =>
              /\ latest' \in Upgrades /\ latest # None
              /\ latest'.record = latest.record /\ latest'.system = latest.system
              /\ latest'.alternate = latest.alternate /\ latest'.boot = latest.boot
              /\ latest' = latest \/ latest'.status # "complete",
           command[p].alone = "yes" =>
              /\ step \in Switched \cup {"switch"} => profile' = System(p)
              /\ step \in Switched => active' = System(p)
              /\ step \in Switched \ {"next"} /\ command[p].alternate = "yes" => bootNext' # None
    PROVE  TruthInv'
<1>0. \A q \in Procs : /\ Busy(q)' => Busy(q) /\ Record(q)' = Record(q) /\ System(q)' = System(q)
                       /\ command'[q].alternate = command[q].alternate
                       /\ At(q, "link")' => At(q, "link")
  BY DEF Busy, Record, System, At
<1>1. RecordsInv'
  <2>1. latest' \in Upgrades \cup {None}
    OBVIOUS
  <2>2. latest' # None => latest'.record <= made'
    BY DEF TruthInv, RecordsInv
  <2>3. latest' # None => \A q \in Procs : Busy(q)' /\ latest'.record = Record(q)' =>
          /\ ~ At(q, "link")'
          /\ latest'.system = System(q)' /\ latest'.alternate = command'[q].alternate
          /\ latest'.boot = restarts'
    BY <1>0 DEF TruthInv, RecordsInv
  <2> QED
    BY <1>0, <2>1, <2>2, <2>3, SMTT(30) DEF TruthInv, RecordsInv
<1>2. SoleInv'
  BY DEF TruthInv, SoleInv, Busy, System
<1>3. ToldInv'
  <2>1. latest' = None \/ ~ (latest'.status = "complete" /\ latest'.sure = "yes")
    BY DEF TruthInv, ToldInv
  <2>2. latest' # None /\ latest'.alternate = "yes" =>
          /\ latest'.boot \in Nat /\ latest'.boot <= restarts'
          /\ machine' = "firmware" => latest'.boot < restarts'
    BY DEF TruthInv, ToldInv
  <2> QED
    BY <2>1, <2>2 DEF ToldInv
<1> QED
  BY <1>1, <1>2, <1>3 DEF TruthInv

(* A command ends, at any of its steps.                                     *)
LEMMA EndStep ==
    ASSUME TruthInv, CommandsOK', NEW p \in Procs, Exit(p) \/ Fail(p) \/ Signal(p) \/ Kill(p)
    PROVE  TruthInv'
<1>0. TruthInv /\ RecordsInv /\ command \in [Procs -> Commands] /\ command[p].pc \in Steps
  BY DEF TruthInv, RecordsInv, CommandsOK, Commands
<1>1. /\ End(p) /\ Busy(p) /\ UNCHANGED <<firmware, made>>
      /\ At(p, "profile") \/ profile' = profile
      /\ At(p, "switch") \/ active' = active
  BY DEF Exit, Fail, Signal, Kill, MayHaveHappened, Busy, At, systems
<1>2. latest' # None =>
        /\ latest' \in Upgrades /\ latest # None
        /\ latest'.record = latest.record /\ latest'.system = latest.system
        /\ latest'.alternate = latest.alternate /\ latest'.boot = latest.boot
        /\ \/ latest' = latest
           \/ ~ (latest'.status = "complete" /\ latest'.sure = "yes")
           \/ /\ latest.record = Record(p) /\ command[p].alone = "yes"
              /\ At(p, "exit") \/ At(p, "prune")
              /\ UNCHANGED <<profile, active>>
  <2>1. CASE Exit(p)
    BY <1>0, <2>1, SetStatusEffect DEF Exit, systems
  <2>2. CASE Fail(p)
    BY <1>0, <2>2, SetStatusEffect DEF Fail
  <2>3. CASE Signal(p)
    BY <1>0, <2>3, SetStatusEffect DEF Signal
  <2>4. CASE Kill(p)
    BY <1>0, <2>4 DEF Kill, RecordsInv
  <2> QED
    BY <2>1, <2>2, <2>3, <2>4
<1>3. \A q \in Procs : Busy(q)' =>
         q # p /\ Busy(q) /\ command'[q] = command[q]
  BY <1>0, <1>1, EndEffect DEF Busy
<1>4. UNCHANGED <<restarts, machine, bootNext>>
  BY <1>1 DEF firmware
<1>5. RecordsInv'
  <2>1. latest' \in Upgrades \cup {None} /\ (latest' # None => latest'.record <= made')
    BY <1>0, <1>1, <1>2 DEF RecordsInv
  <2>2. latest' # None => \A q \in Procs : Busy(q)' /\ latest'.record = Record(q)' =>
          /\ ~ At(q, "link")'
          /\ latest'.system = System(q)' /\ latest'.alternate = command'[q].alternate
          /\ latest'.boot = restarts'
    BY <1>0, <1>2, <1>3, <1>4 DEF RecordsInv, Record, System, At
  <2> QED
    BY <1>0, <1>1, <1>3, <2>1, <2>2, SMTT(90) DEF RecordsInv, Record
<1>6. SoleInv'
  <2>1. \A q \in Procs : Busy(q)' => command'[q].alone = "no"
    BY <1>1, <1>3 DEF TruthInv, SoleInv
  <2> QED
    BY <2>1 DEF SoleInv
<1>7. ToldInv'
  <2>1. latest' # None /\ latest'.alternate = "yes" =>
          /\ latest'.boot \in Nat /\ latest'.boot <= restarts'
          /\ machine' = "firmware" => latest'.boot < restarts'
    BY <1>2, <1>4 DEF TruthInv, ToldInv
  <2>2. ASSUME latest' # None, latest'.status = "complete", latest'.sure = "yes"
        PROVE  /\ profile' = latest'.system /\ active' = profile'
               /\ latest'.alternate = "yes" /\ latest'.boot = restarts' => bootNext' # None
               /\ \A q \in Procs : Busy(q)' => At(q, "link")'
    <3>1. CASE latest' = latest
      <4>1. At(p, "link") /\ UNCHANGED <<profile, active>>
        BY <1>1, <2>2, <3>1 DEF TruthInv, ToldInv, At
      <4> QED
        BY <1>3, <1>4, <2>2, <3>1, <4>1 DEF TruthInv, ToldInv, At
    <3>2. CASE /\ latest.record = Record(p) /\ command[p].alone = "yes"
               /\ At(p, "exit") \/ At(p, "prune")
               /\ UNCHANGED <<profile, active>>
      <4>1. profile = System(p) /\ active = System(p) /\ latest.system = System(p)
            /\ (command[p].alternate = "yes" => bootNext # None)
            /\ latest.alternate = command[p].alternate
        BY <1>1, <1>2, <2>2, <3>2 DEF TruthInv, SoleInv, RecordsInv, At, Switched
      <4>2. \A q \in Procs : ~ Busy(q)'
        BY <1>1, <1>3, <3>2 DEF TruthInv, SoleInv
      <4> QED
        BY <1>2, <1>4, <2>2, <3>2, <4>1, <4>2
    <3> QED
      BY <1>2, <2>2, <3>1, <3>2
  <2> QED
    BY <2>1, <2>2 DEF ToldInv
<1> QED
  BY <1>5, <1>6, <1>7 DEF TruthInv

(* latest-upgrade now tells of this command, which has not ended.           *)
LEMMA LinkLatestStep ==
    ASSUME TruthInv, CommandsOK', NEW p \in Procs, LinkLatest(p)
    PROVE  TruthInv'
<1>0. command \in [Procs -> Commands] /\ "snapshot" \in Steps /\ Goto(p, "snapshot") /\ Busy(p)
      /\ command[p] \in Commands /\ Record(p) \in Nat /\ restarts \in Nat
  BY DEF TruthInv, RecordsInv, CommandsOK, Steps, LinkLatest, Busy, At
<1>1. /\ UNCHANGED <<profile, active, bootNext, restarts, machine, made>>
      /\ latest' = [record |-> Record(p), system |-> System(p), boot |-> restarts,
                  alternate |-> command[p].alternate, status |-> "running", sure |-> "no"]
  BY DEF LinkLatest, firmware, systems
<1>2. latest' \in Upgrades
  BY <1>0, <1>1 DEF Upgrades, YesNo, Commands, System
<1>3. machine # "firmware"
  BY <1>0 DEF TruthInv, RecordsInv, CommandsOK
<1>4. \A q \in Procs : /\ Busy(q)' => Busy(q)
                       /\ Record(q)' = Record(q) /\ System(q)' = System(q)
                       /\ command'[q].alternate = command[q].alternate
                       /\ command'[q].alone = command[q].alone
                       /\ q # p => command'[q].pc = command[q].pc
  BY <1>0, GotoEffect DEF Busy, Record, System
<1>5. command'[p].pc = "snapshot"
  BY <1>0, GotoEffect
<1>6. RecordsInv'
  BY <1>0, <1>1, <1>2, <1>4, <1>5, SMTT(90) DEF TruthInv, RecordsInv, At
<1>7. SoleInv'
  BY <1>1, <1>4, <1>5 DEF TruthInv, SoleInv, Switched
<1>8. ToldInv'
  BY <1>0, <1>1, <1>3 DEF ToldInv
<1> QED
  BY <1>6, <1>7, <1>8 DEF TruthInv

LEMMA CommandTruth ==
    ASSUME TruthInv, CommandsOK', NEW p \in Procs, Command(p)
    PROVE  TruthInv'
<1>0. /\ command \in [Procs -> Commands] /\ latest \in Upgrades \cup {None} /\ RecordsInv
      /\ CommandsOK /\ made \in Nat
  BY DEF TruthInv, RecordsInv, CommandsOK
<1>1. CASE MakeRecord(p)
  BY <1>1, MakeRecordStep
<1>2. CASE LinkLatest(p)
  BY <1>2, LinkLatestStep
<1>3. CASE Exit(p) \/ Fail(p) \/ Signal(p) \/ Kill(p)
  BY <1>3, EndStep
<1>4. command[p].alone = "yes" /\ Busy(p) =>
         /\ command[p].pc \in Switched \cup {"switch"} => profile = System(p)
         /\ command[p].pc \in Switched => active = System(p)
         /\ command[p].pc \in Switched \ {"next"} /\ command[p].alternate = "yes" => bootNext # None
  BY DEF TruthInv, SoleInv
<1>5. CASE Snapshot(p)
  <2>1. PICK n : command' = [command EXCEPT ![p].pc = "profile", ![p].next = n]
    BY <1>5, ZenonT(30) DEF Snapshot
  <2>2. /\ command' \in [Procs -> Commands]
        /\ \A q \in Procs \ {p} : command'[q] = command[q]
        /\ command'[p].pc = "profile" /\ command'[p].record = command[p].record
        /\ command'[p].system = command[p].system
        /\ command'[p].alternate = command[p].alternate
        /\ command'[p].alone = command[p].alone
    BY <1>0, <2>1 DEF CommandsOK, Commands
  <2>3. /\ Busy(p) /\ ~ At(p, "link") /\ UNCHANGED <<made, restarts, machine, latest>>
        /\ "profile" \in Steps \ {"idle", "link"} /\ "profile" \notin Switched \cup {"switch"}
    BY <1>5 DEF Snapshot, Busy, At, firmware, Steps, Switched
  <2> QED
    BY <1>0, <2>2, <2>3, GoOnStep
<1>6. CASE ListRecords(p) \/ PruneRecord(p)
  <2>1. /\ command' \in [Procs -> Commands]
        /\ \A q \in Procs \ {p} : command'[q] = command[q]
        /\ command'[p].pc = "prune" /\ command'[p].record = command[p].record
        /\ command'[p].system = command[p].system
        /\ command'[p].alternate = command[p].alternate
        /\ command'[p].alone = command[p].alone
    BY <1>0, <1>6 DEF ListRecords, PruneRecord, Commands, Steps, At
  <2>2. /\ Busy(p) /\ ~ At(p, "link") /\ UNCHANGED <<made, restarts, machine, latest>>
        /\ UNCHANGED <<profile, active, bootNext>> /\ command[p].pc \in Switched \ {"next"}
        /\ "prune" \in Steps \ {"idle", "link"} /\ "prune" \in Switched \ {"next"}
    BY <1>6 DEF ListRecords, PruneRecord, Busy, At, firmware, files, systems, Steps, Switched
  <2> QED
    BY <1>0, <1>4, <2>1, <2>2, GoOnStep
<1>7. ASSUME NEW step \in Steps \ {"idle", "link"}, Goto(p, step), Busy(p), ~ At(p, "link"),
             UNCHANGED <<made, restarts>>, machine' \in {machine, "stopping"},
             latest' # None =>
                /\ latest' \in Upgrades /\ latest # None
                /\ latest'.record = latest.record /\ latest'.system = latest.system
                /\ latest'.alternate = latest.alternate /\ latest'.boot = latest.boot
                /\ latest' = latest \/ latest'.status # "complete",
             command[p].alone = "yes" =>
                /\ step \in Switched \cup {"switch"} => profile' = System(p)
                /\ step \in Switched => active' = System(p)
                /\ step \in Switched \ {"next"} /\ command[p].alternate = "yes" => bootNext' # None
      PROVE  TruthInv'
  BY <1>0, <1>7, GotoEffect, GoOnStep
<1>8. CASE SetProfile(p)
  <2>1. /\ Goto(p, "switch") /\ Busy(p) /\ ~ At(p, "link") /\ profile' = System(p)
        /\ UNCHANGED <<made, restarts, machine, latest>>
        /\ "switch" \in Steps \ {"idle", "link"} /\ "switch" \notin Switched
    BY <1>8 DEF SetProfile, Busy, At, firmware, files, Steps, Switched
  <2> QED
    BY <1>0, <1>7, <2>1
<1>9. CASE Switch(p)
  <2>1. /\ Goto(p, AfterSwitch(p)) /\ Busy(p) /\ ~ At(p, "link") /\ active' = System(p)
        /\ command[p].pc \in Switched \cup {"switch"}
        /\ UNCHANGED <<made, restarts, machine, latest, profile>>
    BY <1>9 DEF Switch, Busy, At, firmware, files, Steps, Switched
  <2>2. /\ AfterSwitch(p) \in {"next", "list"} /\ {"next", "list"} \subseteq Steps \ {"idle", "link"}
        /\ AfterSwitch(p) \in Switched \ {"next"} => command[p].alternate # "yes"
    BY DEF AfterSwitch, Steps, Switched
  <2> QED
    BY <1>0, <1>4, <1>7, <2>1, <2>2
<1>10. CASE SetBootNext(p) \/ NoteNext(p) \/ Reboot(p)
  <2>1. PICK step \in {"after", "list", "exit"} :
        /\ Goto(p, step) /\ Busy(p) /\ ~ At(p, "link") /\ command[p].pc \in Switched
        /\ UNCHANGED <<made, restarts, latest, profile, active>>
        /\ machine' \in {machine, "stopping"}
        /\ bootNext' # None \/ (bootNext' = bootNext /\ command[p].pc # "next")
    BY <1>10 DEF SetBootNext, NoteNext, Reboot, Busy, At, firmware, files, systems, Switched
  <2>2. step \in Steps \ {"idle", "link"}
    BY DEF Steps
  <2> QED
    BY <1>0, <1>4, <1>7, <2>1, <2>2
<1>11. CASE NoteReboot(p)
  <2>1. /\ Goto(p, "reboot") /\ Busy(p) /\ ~ At(p, "link") /\ command[p].pc \in Switched \ {"next"}
        /\ UNCHANGED <<made, restarts, machine, profile, active, bootNext>>
        /\ "reboot" \in Steps \ {"idle", "link"} /\ SetStatus(p, "rebooting", "yes")
    BY <1>11 DEF NoteReboot, Busy, At, firmware, systems, Steps, Switched
  <2>2. latest' # None =>
          /\ latest' \in Upgrades /\ latest # None
          /\ latest'.record = latest.record /\ latest'.system = latest.system
          /\ latest'.alternate = latest.alternate /\ latest'.boot = latest.boot
          /\ latest' = latest \/ latest'.status # "complete"
    BY <1>0, <2>1, SetStatusEffect
  <2> QED
    BY <1>4, <1>7, <2>1, <2>2
<1> QED
  BY <1>1, <1>2, <1>3, <1>5, <1>6, <1>8, <1>9, <1>10, <1>11 DEF Command

LEMMA TruthInvariant == Spec => []TruthInv
<1>1. Init => TruthInv
  <2> SUFFICES ASSUME Init PROVE TruthInv
    OBVIOUS
  <2>1. Idle \in Commands /\ Idle.next = None /\ Idle.pc = "idle"
    BY DEF Idle, Commands, Steps, YesNo
  <2>2. \A p \in Procs : ~ Busy(p)
    BY <2>1, ZenonT(30) DEF Init, Busy
  <2>3. CommandsOK
    BY <2>1, BoundsAssumption DEF Init, CommandsOK, Busy
  <2>4. latest # None =>
          /\ made \in Nat
          /\ latest = [record |-> made, system |-> profile, boot |-> None, alternate |-> "no",
                       status |-> "complete", sure |-> "yes"]
    BY <2>3 DEF Init, CommandsOK
  <2>5. latest # None => latest \in Upgrades
    BY <2>4 DEF Init, Upgrades, YesNo
  <2> QED
    BY <2>2, <2>3, <2>4, <2>5 DEF Init, TruthInv, RecordsInv, SoleInv, ToldInv
<1>2. TruthInv /\ [Next]_vars => TruthInv'
  <2> SUFFICES ASSUME TruthInv, [Next]_vars PROVE TruthInv'
    OBVIOUS
  <2>0. CommandsOK /\ CommandsOK'
    BY NextCommandsOK DEF TruthInv, RecordsInv
  <2>1. CASE \E p \in Procs : Command(p)
    BY <2>0, <2>1, CommandTruth
  <2>2. CASE Restart
    <3>1. /\ UNCHANGED <<latest, made, profile, active, bootNext>> /\ restarts' = restarts + 1
          /\ restarts \in Nat /\ \A p \in Procs : ~ Busy(p)'
      BY <2>0, <2>2 DEF Restart, files, systems, CommandsOK, Busy, Idle
    <3>2. RecordsInv'
      BY <2>0, <3>1 DEF TruthInv, RecordsInv
    <3>3. SoleInv'
      BY <3>1 DEF SoleInv
    <3>4. latest # None /\ latest.alternate = "yes" =>
             latest.boot \in Nat /\ latest.boot < restarts' /\ latest.boot # restarts'
      BY <3>1 DEF TruthInv, ToldInv
    <3>5. ToldInv'
      BY <3>1, <3>4 DEF TruthInv, ToldInv
    <3> QED
      BY <3>2, <3>3, <3>5 DEF TruthInv
  <2>3. CASE Boot \/ BootUnlisted
    <3>1. /\ UNCHANGED <<latest, made, profile, restarts, command>> /\ active' = profile
          /\ machine = "firmware" /\ machine' = "up" /\ \A p \in Procs : ~ Busy(p) /\ ~ Busy(p)'
      BY <2>0, <2>3 DEF Boot, BootUnlisted, StartSlot, files, CommandsOK, Busy
    <3>2. latest' # None /\ latest'.alternate = "yes" =>
             latest'.boot \in Nat /\ restarts \in Nat /\ latest'.boot < restarts
      BY <2>0, <3>1 DEF TruthInv, ToldInv, CommandsOK
    <3>3. RecordsInv'
      BY <2>0, <3>1 DEF TruthInv, RecordsInv
    <3>4. SoleInv'
      BY <3>1 DEF SoleInv
    <3>5. ToldInv'
      BY <3>1, <3>2 DEF TruthInv, ToldInv
    <3> QED
      BY <3>3, <3>4, <3>5 DEF TruthInv
  <2>4. CASE Efi2 \/ Age \/ UNCHANGED vars
    <3>1. UNCHANGED <<latest, made, profile, active, restarts, command, machine, bootNext>>
      BY <2>4 DEF Efi2, Age, vars, files, firmware, systems
    <3> QED
      <4>1. RecordsInv'
        BY <2>0, <3>1 DEF TruthInv, RecordsInv, Busy, Record, System, At
      <4>2. SoleInv'
        BY <3>1 DEF TruthInv, SoleInv, Busy, System
      <4>3. ToldInv'
        BY <3>1 DEF TruthInv, ToldInv, Busy, At
      <4> QED
        BY <4>1, <4>2, <4>3 DEF TruthInv
  <2> QED
    BY <2>1, <2>2, <2>3, <2>4 DEF Next
<1> QED
  BY <1>1, <1>2, PTL DEF Spec

(* The status "complete" of a command that was neither interrupted nor      *)
(* overtaken tells the truth, until the next command and across restarts.   *)
THEOREM CompleteIsTrue == Spec => []LatestIsTrue
<1>1. TruthInv => LatestIsTrue
  BY DEF TruthInv, ToldInv, LatestIsTrue
<1> QED
  BY <1>1, TruthInvariant, PTL

-----------------------------------------------------------------------------
(* What keeps RecordsRetained.  Records grow old in the order of their      *)
(* times, and only while no command runs; a record that a running command   *)
(* writes to is not old.  So the old records come first and do not change   *)
(* places, and one that was beyond the Keep newest when it was listed still *)
(* is, whatever other commands have written and pruned since.               *)
Holds(s, r) == \E k \in DOMAIN s : s[k] = r

ListInv(s, n, o) ==
    /\ s \in Seq(1..n)
    /\ \A j, k \in DOMAIN s : s[j] = s[k] => j = k
    /\ \A j, k \in DOMAIN s : j < k /\ s[k] \in o => s[j] \in o
    /\ \A r \in (1..n) \ o : Holds(s, r)

Beyond(s, o, P) == \A k \in DOMAIN s : s[k] \in P \cap o => k <= Len(s) - Keep

RetainInv ==
    /\ ListInv(byTime, made, old)
    /\ old \subseteq 1..made
    /\ Len(byTime) < made => Len(byTime) >= Keep
    /\ latest # None => latest.record \in 1..made /\ Holds(byTime, latest.record)
    /\ \A p \in Procs :
          /\ Busy(p) => Record(p) \in (1..made) \ old
          /\ ~ Busy(p) => command[p].prune = {}
          /\ command[p].pc \notin {"idle", "link"} /\ latest # None => latest.record \notin old
          /\ Beyond(byTime, old, command[p].prune)

(* Without closes the gap.                                                  *)
LEMMA WithoutAt ==
    ASSUME NEW S, NEW s \in Seq(S), NEW k \in 1..Len(s), \A j \in 1..Len(s) : s[j] = s[k] => j = k
    PROVE  /\ Without(s, s[k]) \in Seq(S)
           /\ Len(Without(s, s[k])) = Len(s) - 1
           /\ \A i \in 1..(Len(s) - 1) : Without(s, s[k])[i] = IF i < k THEN s[i] ELSE s[i + 1]
<1>1. DOMAIN s = 1..Len(s) /\ k \in DOMAIN s
  OBVIOUS
<1>2. (CHOOSE j \in DOMAIN s : s[j] = s[k]) = k
  BY <1>1
<1> DEFINE a == SubSeq(s, 1, k - 1)
           b == SubSeq(s, k + 1, Len(s))
           t == Without(s, s[k])
<1>3. t = a \o b
  BY <1>1, <1>2, ZenonT(30) DEF Without
<1>4. a \in Seq(S) /\ Len(a) = k - 1 /\ \A i \in 1..(k - 1) : a[i] = s[i]
  OBVIOUS
<1>5. b \in Seq(S) /\ Len(b) = Len(s) - k /\ \A i \in 1..(Len(s) - k) : b[i] = s[k + i]
  OBVIOUS
<1> HIDE DEF a, b, t
<1>6. t \in Seq(S) /\ Len(t) = Len(s) - 1
  <2>1. a \in Seq(S) /\ b \in Seq(S) /\ Len(a) + Len(b) = Len(s) - 1
    BY <1>4, <1>5
  <2>2. a \o b \in Seq(S) /\ Len(a \o b) = Len(a) + Len(b)
    BY <2>1
  <2> QED
    BY <1>3, <2>1, <2>2
<1>7. ASSUME NEW i \in 1..(Len(s) - 1)
      PROVE  t[i] = IF i < k THEN s[i] ELSE s[i + 1]
  <2>1. CASE i < k
    BY <1>3, <1>4, <1>5, <2>1
  <2>2. CASE i >= k
    <3>1. i - Len(a) \in 1..(Len(s) - k) /\ t[i] = b[i - Len(a)]
      BY <1>3, <1>4, <1>5, <2>2
    <3> QED
      BY <1>3, <1>4, <1>5, <2>2, <3>1
  <2> QED
    BY <2>1, <2>2
<1> QED
  BY <1>6, <1>7 DEF t

(* A new record.                                                            *)
LEMMA AppendRecord ==
    ASSUME NEW s, NEW n \in Nat, NEW o \in SUBSET (1..n), ListInv(s, n, o)
    PROVE  /\ ListInv(Append(s, n + 1), n + 1, o) /\ Len(Append(s, n + 1)) = Len(s) + 1
           /\ \A r : Holds(s, r) => Holds(Append(s, n + 1), r)
           /\ \A P : Beyond(s, o, P) => Beyond(Append(s, n + 1), o, P)
<1> DEFINE t == Append(s, n + 1)
<1>1. s \in Seq(1..n) /\ s \in Seq(1..(n + 1)) /\ Len(s) \in Nat /\ DOMAIN s = 1..Len(s)
  BY DEF ListInv
<1>2. /\ t \in Seq(1..(n + 1)) /\ Len(t) = Len(s) + 1 /\ DOMAIN t = 1..(Len(s) + 1)
      /\ t[Len(s) + 1] = n + 1 /\ \A k \in DOMAIN s : t[k] = s[k] /\ k \in DOMAIN t
      /\ \A k \in DOMAIN t : k \in DOMAIN s \/ k = Len(s) + 1
  BY <1>1
<1> HIDE DEF t
<1>3. \A k \in DOMAIN s : s[k] \in 1..n /\ s[k] # n + 1
  BY <1>1
<1>4. n + 1 \notin o
  OBVIOUS
<1>5. \A r : Holds(s, r) => Holds(t, r)
  BY <1>2 DEF Holds
<1>6. ListInv(t, n + 1, o)
  <2>1. \A j, k \in DOMAIN t : t[j] = t[k] => j = k
    BY <1>2, <1>3 DEF ListInv
  <2>2. ASSUME NEW j \in DOMAIN t, NEW k \in DOMAIN t, j < k, t[k] \in o PROVE t[j] \in o
    <3>1. k \in DOMAIN s
      BY <1>2, <1>4, <2>2
    <3>2. j \in DOMAIN s
      BY <1>1, <1>2, <2>2, <3>1
    <3> QED
      BY <1>2, <2>2, <3>1, <3>2 DEF ListInv
  <2>3. \A r \in (1..(n + 1)) \ o : Holds(t, r)
    <3> SUFFICES ASSUME NEW r \in (1..(n + 1)) \ o PROVE Holds(t, r)
      OBVIOUS
    <3>1. CASE r = n + 1
      BY <1>1, <1>2, <3>1 DEF Holds
    <3>2. CASE r \in 1..n
      BY <1>5, <3>2 DEF ListInv
    <3> QED
      BY <3>1, <3>2
  <2> QED
    BY <1>2, <2>1, <2>2, <2>3 DEF ListInv
<1>7. ASSUME NEW P, Beyond(s, o, P) PROVE Beyond(t, o, P)
  BY <1>1, <1>2, <1>4, <1>7, BoundsAssumption, SMTT(30) DEF Beyond
<1> QED
  BY <1>2, <1>5, <1>6, <1>7 DEF t

(* A record is taken out, and those after it move up.                       *)
LEMMA WithoutRecord ==
    ASSUME NEW s, NEW n \in Nat, NEW o, ListInv(s, n, o), NEW m \in DOMAIN s
    PROVE  LET t == Without(s, s[m]) IN
           /\ t \in Seq(1..n) /\ Len(t) = Len(s) - 1
           /\ \A j, k \in DOMAIN t : t[j] = t[k] => j = k
           /\ \A j, k \in DOMAIN t : j < k /\ t[k] \in o => t[j] \in o
           /\ \A r : Holds(t, r) <=> Holds(s, r) /\ r # s[m]
           /\ \A k \in DOMAIN t : t[k] = IF k < m THEN s[k] ELSE s[k + 1]
<1> DEFINE t == Without(s, s[m])
<1>1. s \in Seq(1..n) /\ Len(s) \in Nat /\ DOMAIN s = 1..Len(s) /\ m \in 1..Len(s)
      /\ \A j \in 1..Len(s) : s[j] = s[m] => j = m
  BY DEF ListInv
<1>2. /\ t \in Seq(1..n) /\ Len(t) = Len(s) - 1
      /\ \A i \in 1..(Len(s) - 1) : t[i] = IF i < m THEN s[i] ELSE s[i + 1]
  BY <1>1, WithoutAt, ZenonT(30)
<1> HIDE DEF t
<1>3. DOMAIN t = 1..(Len(s) - 1)
  BY <1>1, <1>2, SMTT(30)
<1> DEFINE From(k) == IF k < m THEN k ELSE k + 1
<1>4. ASSUME NEW k \in DOMAIN t
      PROVE  From(k) \in DOMAIN s /\ t[k] = s[From(k)] /\ From(k) # m
  <2>1. k \in Nat /\ k >= 1 /\ k < Len(s) /\ m \in Nat
    BY <1>1, <1>3
  <2>2. CASE k < m
    <3>1. From(k) = k /\ t[k] = s[k]
      BY <1>2, <1>3, <2>1, <2>2
    <3> QED
      BY <1>1, <2>1, <2>2, <3>1
  <2>3. CASE k >= m
    <3>1. From(k) = k + 1 /\ t[k] = s[k + 1]
      BY <1>2, <1>3, <2>1, <2>3
    <3> QED
      BY <1>1, <2>1, <2>3, <3>1
  <2> QED
    BY <2>1, <2>2, <2>3
<1>5. \A j, k \in DOMAIN t : (j < k => From(j) < From(k)) /\ (From(j) = From(k) => j = k)
  BY <1>1, <1>3
<1>6. \A i \in DOMAIN s \ {m} : \E k \in DOMAIN t : From(k) = i
  <2> SUFFICES ASSUME NEW i \in DOMAIN s \ {m} PROVE \E k \in DOMAIN t : From(k) = i
    OBVIOUS
  <2>1. CASE i < m
    <3>1. i \in DOMAIN t /\ From(i) = i
      BY <1>1, <1>3, <2>1
    <3> QED
      BY <3>1
  <2>2. CASE i > m
    <3>1. i - 1 \in DOMAIN t /\ From(i - 1) = i
      BY <1>1, <1>3, <2>2
    <3> QED
      BY <3>1
  <2> QED
    BY <1>1, <2>1, <2>2
<1> HIDE DEF From
<1>7. \A j, k \in DOMAIN t : t[j] = t[k] => j = k
  BY <1>4, <1>5 DEF ListInv
<1>8. \A j, k \in DOMAIN t : j < k /\ t[k] \in o => t[j] \in o
  BY <1>4, <1>5 DEF ListInv
<1>9. \A r : Holds(t, r) <=> Holds(s, r) /\ r # s[m]
  BY <1>1, <1>4, <1>6 DEF Holds
<1> QED
  BY <1>2, <1>3, <1>7, <1>8, <1>9 DEF t

(* A file is created in a record that is not old: it becomes the newest.    *)
LEMMA TouchRecord ==
    ASSUME NEW s, NEW n \in Nat, NEW o, ListInv(s, n, o), NEW r \in (1..n) \ o
    PROVE  LET t == Append(Without(s, r), r) IN
           /\ ListInv(t, n, o) /\ Len(t) = Len(s)
           /\ \A x : Holds(s, x) => Holds(t, x)
           /\ \A P : Beyond(s, o, P) => Beyond(t, o, P)
<1>1. PICK m \in DOMAIN s : s[m] = r
  BY DEF ListInv, Holds
<1> DEFINE u == Without(s, r)
           t == Append(u, r)
<1>2. /\ u \in Seq(1..n) /\ Len(u) = Len(s) - 1
      /\ \A j, k \in DOMAIN u : u[j] = u[k] => j = k
      /\ \A j, k \in DOMAIN u : j < k /\ u[k] \in o => u[j] \in o
      /\ \A x : Holds(u, x) <=> Holds(s, x) /\ x # r
      /\ \A k \in DOMAIN u : u[k] = IF k < m THEN s[k] ELSE s[k + 1]
  BY <1>1, WithoutRecord
<1>3. s \in Seq(1..n) /\ Len(s) \in Nat /\ DOMAIN s = 1..Len(s) /\ m \in 1..Len(s)
  BY DEF ListInv
<1> HIDE DEF u
<1>4. /\ t \in Seq(1..n) /\ Len(t) = Len(s) /\ DOMAIN t = 1..Len(s) /\ t[Len(s)] = r
      /\ \A k \in DOMAIN u : t[k] = u[k] /\ k \in DOMAIN t /\ k < Len(s)
      /\ \A k \in DOMAIN t : k \in DOMAIN u \/ k = Len(s)
  <2>1. Len(u) \in Nat /\ DOMAIN u = 1..Len(u) /\ Len(u) + 1 = Len(s)
    BY <1>2, <1>3
  <2>2. /\ t \in Seq(1..n) /\ Len(t) = Len(u) + 1 /\ t[Len(u) + 1] = r
        /\ \A k \in 1..Len(u) : t[k] = u[k]
    BY <1>2, <2>1
  <2> HIDE DEF t
  <2> QED
    BY <2>1, <2>2
<1> HIDE DEF t
<1>5. ASSUME NEW x, Holds(s, x) PROVE Holds(t, x)
  <2>1. CASE x = r
    BY <1>3, <1>4, <2>1, SMTT(30) DEF Holds
  <2>2. CASE Holds(u, x)
    BY <1>4, <2>2 DEF Holds
  <2> QED
    BY <1>2, <1>5, <2>1, <2>2
<1>6. ListInv(t, n, o)
  <2>1. \A k \in DOMAIN u : u[k] # r
    BY <1>2, ZenonT(30) DEF Holds
  <2>2. \A j, k \in DOMAIN t : t[j] = t[k] => j = k
    BY <1>2, <1>4, <2>1
  <2>3. ASSUME NEW j \in DOMAIN t, NEW k \in DOMAIN t, j < k, t[k] \in o PROVE t[j] \in o
    <3>1. k \in DOMAIN u
      BY <1>4, <2>3
    <3>2. j \in DOMAIN u
      BY <1>3, <1>4, <2>3, <3>1
    <3> QED
      BY <1>2, <1>4, <2>3, <3>1, <3>2
  <2> QED
    BY <1>4, <1>5, <2>2, <2>3 DEF ListInv
<1>7. ASSUME NEW P, Beyond(s, o, P), NEW k \in DOMAIN t, t[k] \in P \cap o
      PROVE  k <= Len(t) - Keep
  <2>1. k \in DOMAIN u /\ u[k] \in P \cap o
    BY <1>4, <1>7
  <2>2. k < m
    <3> SUFFICES ASSUME k >= m PROVE FALSE
      BY <1>3, <1>4
    <3>1. k + 1 \in DOMAIN s /\ s[k + 1] \in o /\ m < k + 1
      BY <1>2, <1>3, <1>4, <2>1, SMTT(30)
    <3> QED
      BY <1>1, <3>1 DEF ListInv
  <2>3. k \in DOMAIN s /\ s[k] \in P \cap o
    BY <1>2, <1>3, <1>4, <2>1, <2>2
  <2> QED
    BY <1>4, <1>7, <2>3 DEF Beyond
<1> QED
  BY <1>4, <1>5, <1>6, <1>7, ZenonT(30) DEF t, u, Beyond

(* An old record is pruned that was beyond the Keep newest.                 *)
LEMMA RemoveRecord ==
    ASSUME NEW s, NEW n \in Nat, NEW o, ListInv(s, n, o), NEW P, NEW r \in P \cap o,
           Beyond(s, o, P)
    PROVE  LET t == Without(s, r) IN
           /\ ListInv(t, n, o)
           /\ t = s \/ (Len(t) = Len(s) - 1 /\ Len(t) >= Keep)
           /\ \A x : Holds(s, x) /\ x # r => Holds(t, x)
           /\ \A Q : Beyond(s, o, Q) => Beyond(t, o, Q)
<1> DEFINE t == Without(s, r)
<1>1. CASE ~ Holds(s, r)
  <2>1. t = s
    BY <1>1 DEF Without, Holds, ListInv
  <2> QED
    BY <2>1
<1>2. CASE Holds(s, r)
  <2>1. PICK m \in DOMAIN s : s[m] = r
    BY <1>2 DEF Holds
  <2>2. /\ t \in Seq(1..n) /\ Len(t) = Len(s) - 1
        /\ \A j, k \in DOMAIN t : t[j] = t[k] => j = k
        /\ \A j, k \in DOMAIN t : j < k /\ t[k] \in o => t[j] \in o
        /\ \A x : Holds(t, x) <=> Holds(s, x) /\ x # r
        /\ \A k \in DOMAIN t : t[k] = IF k < m THEN s[k] ELSE s[k + 1]
    BY <2>1, WithoutRecord, SMTT(30)
  <2>3. s \in Seq(1..n) /\ Len(s) \in Nat /\ DOMAIN s = 1..Len(s) /\ m \in 1..Len(s)
    BY DEF ListInv
  <2> HIDE DEF t
  <2>4. m <= Len(s) - Keep /\ Keep \in Nat
    BY <2>1, BoundsAssumption DEF Beyond
  <2>5. Len(t) >= Keep /\ DOMAIN t = 1..(Len(s) - 1)
    BY <2>2, <2>3, <2>4, SMTT(30)
  <2>6. ListInv(t, n, o)
    BY <2>2 DEF ListInv
  <2>7. ASSUME NEW Q, Beyond(s, o, Q), NEW k \in DOMAIN t, t[k] \in Q \cap o
        PROVE  k <= Len(t) - Keep
    <3>1. CASE k < m
      BY <2>2, <2>3, <2>4, <2>5, <3>1
    <3>2. CASE k >= m
      <4>1. k + 1 \in DOMAIN s /\ s[k + 1] \in Q \cap o
        BY <2>2, <2>3, <2>5, <2>7, <3>2, SMTT(30)
      <4>2. k + 1 <= Len(s) - Keep
        BY <2>7, <4>1 DEF Beyond
      <4> QED
        BY <2>2, <2>3, <2>4, <2>5, <4>2
    <3> QED
      BY <2>3, <2>5, <3>1, <3>2
  <2> QED
    BY <2>2, <2>5, <2>6, <2>7 DEF t, Beyond
<1> QED
  BY <1>1, <1>2

(* Each command prunes what it has listed.                                  *)
LEMMA CommandRetains ==
    ASSUME RecordsInv, RetainInv, NEW p \in Procs, Command(p) PROVE RetainInv'
<1>0. /\ command \in [Procs -> Commands] /\ made \in Nat /\ Keep \in Nat
      /\ ListInv(byTime, made, old) /\ old \in SUBSET (1..made) /\ Len(byTime) \in Nat
  <2>1. command \in [Procs -> Commands] /\ made \in Nat /\ Keep \in Nat
    BY BoundsAssumption DEF RecordsInv, CommandsOK
  <2>2. ListInv(byTime, made, old) /\ old \in SUBSET (1..made)
    BY DEF RetainInv
  <2>3. Len(byTime) \in Nat
    BY <2>2 DEF ListInv
  <2> QED
    BY <2>1, <2>2, <2>3
<1>1. CASE MakeRecord(p)
  <2>1. /\ made' = made + 1 /\ byTime' = Append(byTime, made + 1) /\ UNCHANGED <<old, latest>>
        /\ command'[p].pc = "link" /\ command'[p].record = made + 1 /\ command'[p].prune = {}
    BY <1>0, <1>1 DEF MakeRecord
  <2>2. ASSUME NEW q \in Procs \ {p}
        PROVE  /\ command'[q].pc = command[q].pc /\ command'[q].record = command[q].record
               /\ command'[q].prune = command[q].prune
    <3>1. command'[q] = IF Busy(q) THEN [command[q] EXCEPT !.alone = "no"] ELSE command[q]
      BY <1>1 DEF MakeRecord
    <3>2. command[q] \in Commands
      BY <1>0
    <3> QED
      BY <3>1, <3>2 DEF Commands
  <2>3. /\ ListInv(byTime', made', old') /\ Len(byTime') = Len(byTime) + 1
        /\ \A r : Holds(byTime, r) => Holds(byTime', r)
        /\ \A P : Beyond(byTime, old, P) => Beyond(byTime', old', P)
    BY <1>0, <2>1, AppendRecord
  <2>4. 1..made \subseteq 1..made' /\ made + 1 \in 1..made' /\ made + 1 \notin old
    BY <1>0, <2>1
  <2>5. Len(byTime') < made' => Len(byTime') >= Keep
    BY <1>0, <2>1, <2>3, SMTT(30) DEF RetainInv
  <2>6. latest' # None => latest'.record \in 1..made' /\ Holds(byTime', latest'.record)
    BY <2>1, <2>3, <2>4 DEF RetainInv
  <2>7. ASSUME NEW q \in Procs
        PROVE  /\ Busy(q)' => Record(q)' \in (1..made') \ old'
               /\ ~ Busy(q)' => command'[q].prune = {}
               /\ command'[q].pc \notin {"idle", "link"} /\ latest' # None => latest'.record \notin old'
               /\ Beyond(byTime', old', command'[q].prune)
    <3>1. CASE q = p
      BY <2>1, <2>4, <3>1 DEF Busy, Record, Beyond
    <3>2. CASE q # p
      BY <2>1, <2>2, <2>3, <2>4, <3>2 DEF RetainInv, Busy, Record
    <3> QED
      BY <3>1, <3>2
  <2> QED
    BY <1>0, <2>1, <2>3, <2>4, <2>5, <2>6, <2>7, ZenonT(30) DEF RetainInv
<1>2. ASSUME UNCHANGED <<made, old>>,
             ListInv(byTime', made, old), Len(byTime') <= Len(byTime),
             Len(byTime') \in Nat,
             Len(byTime') = Len(byTime) \/ Len(byTime') >= Keep,
             \A P : Beyond(byTime, old, P) => Beyond(byTime', old, P),
             latest' # None => /\ latest'.record \in 1..made /\ Holds(byTime', latest'.record)
                               /\ \/ latest'.record \notin old
                                  \/ latest # None /\ latest'.record = latest.record,
             \A q \in Procs \ {p} : command'[q] = command[q],
             Busy(p)' => Busy(p) /\ Record(p)' = Record(p),
             ~ Busy(p)' => command'[p].prune = {},
             command'[p].pc \notin {"idle", "link"} /\ latest' # None => latest'.record \notin old,
             Beyond(byTime', old, command'[p].prune)
      PROVE  RetainInv'
  <2>1. Len(byTime') < made' => Len(byTime') >= Keep
    BY <1>0, <1>2, ZenonT(30) DEF RetainInv
  <2>2. ASSUME NEW q \in Procs
        PROVE  /\ Busy(q)' => Record(q)' \in (1..made') \ old'
               /\ ~ Busy(q)' => command'[q].prune = {}
               /\ command'[q].pc \notin {"idle", "link"} /\ latest' # None => latest'.record \notin old'
               /\ Beyond(byTime', old', command'[q].prune)
    <3>1. CASE q = p
      BY <1>2, <3>1 DEF RetainInv
    <3>2. CASE q # p
      BY <1>2, <3>2, ZenonT(30) DEF RetainInv, Busy, Record
    <3> QED
      BY <3>1, <3>2
  <2> QED
    BY <1>0, <1>2, <2>1, <2>2, ZenonT(30) DEF RetainInv
<1>3. Busy(p) => Record(p) \in (1..made) \ old /\ Holds(byTime, Record(p))
  BY <1>0, ZenonT(30) DEF RetainInv, ListInv
<1>10. ASSUME UNCHANGED byTime
       PROVE  /\ ListInv(byTime', made, old) /\ Len(byTime') <= Len(byTime)
              /\ Len(byTime') \in Nat /\ Len(byTime') = Len(byTime)
              /\ \A P : Beyond(byTime, old, P) => Beyond(byTime', old, P)
  BY <1>0, <1>10
<1>4. CASE LinkLatest(p)
  <2>1. /\ UNCHANGED <<made, old, byTime>> /\ Goto(p, "snapshot") /\ Busy(p) /\ "snapshot" \in Steps
        /\ latest'.record = Record(p)
    BY <1>4, ZenonT(30) DEF LinkLatest, Busy, At, Steps
  <2>2. /\ \A q \in Procs \ {p} : command'[q] = command[q]
        /\ Busy(p)' /\ Record(p)' = Record(p) /\ command'[p].prune = command[p].prune
    BY <1>0, <2>1, GotoEffect DEF Busy, Record
  <2>3. /\ latest'.record \in 1..made /\ latest'.record \notin old /\ Holds(byTime', latest'.record)
        /\ Beyond(byTime', old, command'[p].prune)
    BY <1>3, <2>1, <2>2 DEF RetainInv
  <2> QED
    BY <1>2, <1>10, <2>1, <2>2, <2>3, ZenonT(30)
<1>5. CASE Snapshot(p) \/ NoteNext(p)
  <2>1. /\ UNCHANGED <<made, old, latest>> /\ Busy(p) /\ command[p].pc \notin {"idle", "link"}
        /\ byTime' = Append(Without(byTime, Record(p)), Record(p))
    BY <1>5 DEF Snapshot, NoteNext, Touched, Busy, At
  <2>2. /\ ListInv(byTime', made, old) /\ Len(byTime') = Len(byTime)
        /\ \A x : Holds(byTime, x) => Holds(byTime', x)
        /\ \A P : Beyond(byTime, old, P) => Beyond(byTime', old, P)
    BY <1>0, <1>3, <2>1, TouchRecord
  <2>3. /\ \A q \in Procs \ {p} : command'[q] = command[q]
        /\ command'[p].record = command[p].record /\ command'[p].prune = command[p].prune
        /\ command'[p].pc \in {"profile", "list"}
    <3>1. CASE Snapshot(p)
      <4>1. PICK n : command' = [command EXCEPT ![p].pc = "profile", ![p].next = n]
        BY <3>1, ZenonT(30) DEF Snapshot
      <4> QED
        BY <1>0, <4>1 DEF Commands
    <3>2. CASE NoteNext(p)
      BY <1>0, <3>2, GotoEffect DEF NoteNext, Steps
    <3> QED
      BY <1>5, <3>1, <3>2
  <2> QED
    BY <1>0, <1>2, <2>1, <2>2, <2>3, ZenonT(30) DEF RetainInv, Busy, Record
<1>6. CASE ListRecords(p)
  <2>1. /\ UNCHANGED <<made, old, latest, byTime>> /\ Busy(p) /\ command[p].pc \notin {"idle", "link"}
        /\ \A q \in Procs \ {p} : command'[q] = command[q]
        /\ command'[p].record = command[p].record /\ command'[p].pc = "prune"
    BY <1>0, <1>6 DEF ListRecords, files, Busy, At, Commands
  <2>2. command'[p].prune = {r \in 1..made : \E k \in 1..(Len(byTime) - Keep) : byTime[k] = r}
    BY <1>0, <1>6 DEF ListRecords, Commands
  <2>3. Beyond(byTime, old, command'[p].prune)
    <3> SUFFICES ASSUME NEW k \in DOMAIN byTime, byTime[k] \in command'[p].prune
                 PROVE  k <= Len(byTime) - Keep
      BY DEF Beyond
    <3>1. PICK j \in 1..(Len(byTime) - Keep) : byTime[j] = byTime[k]
      BY <2>2
    <3>2. j \in DOMAIN byTime
      BY <1>0, <3>1 DEF ListInv
    <3>3. j = k
      BY <1>0, <3>1, <3>2 DEF ListInv
    <3> QED
      BY <1>0, <3>1, <3>3
  <2> QED
    BY <1>0, <1>2, <2>1, <2>3, ZenonT(30) DEF RetainInv, Busy, Record
<1>7. CASE PruneRecord(p)
  <2>1. /\ UNCHANGED <<made, old, latest>> /\ Busy(p) /\ command[p].pc \notin {"idle", "link"}
    BY <1>7 DEF PruneRecord, Busy, At
  <2>2. PICK r \in command[p].prune :
          /\ byTime' = IF r \in old THEN Without(byTime, r) ELSE byTime
          /\ command' = [command EXCEPT ![p].prune = @ \ {r}]
    BY <1>7, ZenonT(30) DEF PruneRecord
  <2>3. /\ \A q \in Procs \ {p} : command'[q] = command[q]
        /\ command'[p].record = command[p].record /\ command'[p].pc = command[p].pc
        /\ command'[p].prune \subseteq command[p].prune
    BY <1>0, <2>2 DEF Commands
  <2>4. CASE r \in old
    <3>1. Beyond(byTime, old, command[p].prune)
      BY ZenonT(30) DEF RetainInv
    <3>2. /\ ListInv(byTime', made, old)
          /\ byTime' = byTime \/ (Len(byTime') = Len(byTime) - 1 /\ Len(byTime') >= Keep)
          /\ \A x : Holds(byTime, x) /\ x # r => Holds(byTime', x)
          /\ \A Q : Beyond(byTime, old, Q) => Beyond(byTime', old, Q)
      <4>1. byTime' = Without(byTime, r) /\ r \in command[p].prune \cap old
        BY <2>2, <2>4
      <4> QED
        BY <1>0, <3>1, <4>1, RemoveRecord, SMTT(30)
    <3>3. Len(byTime') \in Nat /\ Len(byTime') <= Len(byTime)
      BY <1>0, <3>2, SMTT(30) DEF ListInv
    <3>4. Beyond(byTime', old, command'[p].prune)
      BY <2>3, <3>1, <3>2 DEF Beyond
    <3>5. latest' # None => latest'.record \in 1..made /\ Holds(byTime', latest'.record)
      BY <2>1, <2>4, <3>2 DEF RetainInv
    <3> QED
      BY <1>0, <1>2, <2>1, <2>3, <3>2, <3>3, <3>4, <3>5, ZenonT(30) DEF RetainInv, Busy, Record
  <2>5. CASE r \notin old
    <3>1. byTime' = byTime /\ Beyond(byTime', old, command'[p].prune)
      BY <2>2, <2>3, <2>5 DEF RetainInv, Beyond
    <3> QED
      BY <1>0, <1>2, <2>1, <2>3, <3>1, ZenonT(30) DEF RetainInv, Busy, Record
  <2> QED
    BY <2>4, <2>5
<1>8. CASE SetProfile(p) \/ Switch(p) \/ SetBootNext(p) \/ NoteReboot(p) \/ Reboot(p)
  <2>1. /\ UNCHANGED <<made, old, byTime>> /\ Busy(p) /\ command[p].pc \notin {"idle", "link"}
        /\ latest' = latest \/ SetStatus(p, "rebooting", "yes")
    BY <1>8, ZenonT(30) DEF SetProfile, Switch, SetBootNext, NoteReboot, Reboot, Busy, At, files
  <2>2. PICK step \in Steps \ {"idle"} : Goto(p, step)
    BY <1>8, ZenonT(30) DEF SetProfile, Switch, SetBootNext, NoteReboot, Reboot, AfterSwitch, Steps
  <2>3. latest' # None => latest # None /\ latest'.record = latest.record
    BY <2>1, SetStatusEffect
  <2>4. /\ \A q \in Procs \ {p} : command'[q] = command[q]
        /\ Busy(p)' /\ Record(p)' = Record(p) /\ command'[p].prune = command[p].prune
    BY <1>0, <2>2, GotoEffect, SMTT(30) DEF Busy, Record
  <2>5. /\ latest' # None => /\ latest'.record \in 1..made /\ latest'.record \notin old
                            /\ Holds(byTime', latest'.record)
        /\ Beyond(byTime', old, command'[p].prune)
    BY <2>1, <2>3, <2>4, ZenonT(30) DEF RetainInv
  <2> QED
    BY <1>2, <1>10, <2>1, <2>4, <2>5, ZenonT(30)
<1>9. CASE Exit(p) \/ Fail(p) \/ Signal(p) \/ Kill(p)
  <2>1. /\ UNCHANGED <<made, old, byTime>> /\ End(p)
        /\ latest' = latest \/ \E status \in {"complete", "failed"}, ended \in YesNo : SetStatus(p, status, ended)
    BY <1>9, ZenonT(30) DEF Exit, Fail, Signal, Kill, MayHaveHappened, YesNo
  <2>2. latest' # None => latest # None /\ latest'.record = latest.record
    BY <2>1, SetStatusEffect
  <2>3. Beyond(byTime', old, {})
    BY DEF Beyond
  <2>4. /\ \A q \in Procs \ {p} : command'[q] = command[q]
        /\ ~ Busy(p)' /\ command'[p].pc = "idle" /\ command'[p].prune = {}
    BY <1>0, <2>1, EndEffect DEF Busy
  <2>5. latest' # None => latest'.record \in 1..made /\ Holds(byTime', latest'.record)
    BY <2>1, <2>2 DEF RetainInv
  <2> QED
    BY <1>2, <1>10, <2>1, <2>2, <2>3, <2>4, <2>5, ZenonT(30)
<1> QED
  BY <1>1, <1>4, <1>5, <1>6, <1>7, <1>8, <1>9 DEF Command

(* Time passes, and the machine restarts, only when nothing is listed.      *)
LEMMA NextRetains == ASSUME RecordsInv, RetainInv, [Next]_vars PROVE RetainInv'
<1>0. ListInv(byTime, made, old) /\ made \in Nat
  BY DEF RetainInv, RecordsInv, CommandsOK
<1>1. CASE \E p \in Procs : Command(p)
  BY <1>1, CommandRetains
<1>2. CASE Age
  <2>1. UNCHANGED <<made, byTime, latest, command>> /\ \A p \in Procs : ~ Busy(p)
    BY <1>2 DEF Age
  <2>2. PICK k \in DOMAIN byTime :
          /\ \A j \in 1..(k - 1) : byTime[j] \in old
          /\ old' = old \cup {byTime[k]}
    BY <1>2 DEF Age
  <2>3. byTime \in Seq(1..made) /\ DOMAIN byTime = 1..Len(byTime) /\ byTime[k] \in 1..made
    BY <1>0 DEF ListInv
  <2>4. ASSUME NEW j \in DOMAIN byTime, NEW i \in DOMAIN byTime, j < i, byTime[i] \in old'
        PROVE  byTime[j] \in old'
    <3>1. CASE byTime[i] \in old
      BY <1>0, <2>2, <2>4, <3>1 DEF ListInv
    <3>2. CASE byTime[i] = byTime[k]
      <4>1. i = k
        BY <1>0, <3>2 DEF ListInv
      <4> QED
        BY <2>2, <2>3, <2>4, <4>1
    <3> QED
      BY <2>2, <2>4, <3>1, <3>2
  <2>5. ListInv(byTime', made', old')
    BY <1>0, <2>1, <2>2, <2>4 DEF ListInv
  <2>6. \A p \in Procs : command[p].pc = "idle" /\ command[p].prune = {}
    BY <2>1 DEF RetainInv, Busy
  <2> QED
    BY <2>1, <2>2, <2>3, <2>5, <2>6, ZenonT(30) DEF RetainInv, Busy, Beyond
<1>3. CASE Restart
  <2>1. UNCHANGED <<made, byTime, latest, old>> /\ command' = [p \in Procs |-> Idle]
        /\ Idle.pc = "idle" /\ Idle.prune = {}
    BY <1>3 DEF Restart, files, Idle
  <2>2. \A p \in Procs : command'[p].pc = "idle" /\ command'[p].prune = {}
    BY <2>1
  <2> QED
    BY <2>1, <2>2 DEF RetainInv, Busy, Beyond
<1>4. CASE Efi2 \/ Boot \/ BootUnlisted \/ UNCHANGED vars
  <2>1. UNCHANGED <<made, byTime, latest, old, command>>
    BY <1>4 DEF Efi2, Boot, BootUnlisted, StartSlot, vars, files
  <2> QED
    BY <2>1 DEF RetainInv, Busy, Record
<1> QED
  BY <1>1, <1>2, <1>3, <1>4 DEF Next

(* However many commands prune at once, the Keep newest records, those of   *)
(* the last 21 days and that of latest-upgrade are left.                    *)
THEOREM RecordsAreRetained == Spec => []RecordsRetained
<1>1. Init => RetainInv
  <2> SUFFICES ASSUME Init PROVE RetainInv
    OBVIOUS
  <2>1. \A p \in Procs : ~ Busy(p) /\ command[p].pc = "idle" /\ command[p].prune = {}
    BY ZenonT(30) DEF Init, Busy, Idle
  <2>2. made \in Nat /\ byTime = [k \in 1..made |-> k] /\ old = 1..made
    BY BoundsAssumption DEF Init
  <2>3. byTime \in Seq(1..made) /\ Len(byTime) = made /\ DOMAIN byTime = 1..made
        /\ \A k \in 1..made : byTime[k] = k
    BY <2>2
  <2>4. ListInv(byTime, made, old)
    BY <2>2, <2>3 DEF ListInv
  <2>5. latest # None => latest.record \in 1..made /\ Holds(byTime, latest.record)
    <3> SUFFICES ASSUME latest # None PROVE latest.record \in 1..made /\ Holds(byTime, latest.record)
      OBVIOUS
    <3>1. made # 0 /\ latest.record = made
      BY DEF Init
    <3>2. made \in 1..made
      BY <2>2, <3>1
    <3> QED
      BY <2>3, <3>1, <3>2 DEF Holds
  <2> QED
    BY <2>1, <2>2, <2>3, <2>4, <2>5, SMTT(30) DEF RetainInv, Beyond
<1>2. TruthInv /\ RetainInv /\ [Next]_vars => RetainInv'
  BY NextRetains DEF TruthInv
<1>3. RetainInv => RecordsRetained
  BY SMTT(30) DEF RetainInv, ListInv, Holds, RecordsRetained
<1> QED
  BY <1>1, <1>2, <1>3, TruthInvariant, PTL DEF Spec
==============================================================================
