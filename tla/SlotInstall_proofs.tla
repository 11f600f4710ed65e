-------------------------- MODULE SlotInstall_proofs --------------------------
(***************************************************************************)
(* Recoverable, InterruptionIsVisible and AtomicReplacement, for any number *)
(* of slots, releases and blocks, and any number of installers that work on *)
(* different slots; the same in the upgrade cycle, where the machine reboots*)
(* and starts what it finds, with MixtureIsVisible and the steps of a start.*)
(***************************************************************************)
EXTENDS UpgradeCycle, TLAPS

(* No two installers work on the same slot.                                 *)
OnePerSlot == \A i, j \in Installers : SlotOf[i] = SlotOf[j] => i = j

(* The initial states satisfy the inductive invariant.                      *)
LEMMA InitSlotInv == Init => SlotInv
<1> SUFFICES ASSUME Init PROVE SlotInv
  OBVIOUS
<1> USE SlotOfAssumption, BlocksAssumption, NamesAssumption
<1>1. TypeOK
  BY DEF Init, TypeOK, Storage, Content, Steps, Whole
<1>2. \A i \in Installers : InstallerInv(i)
  BY DEF Init, InstallerInv, Replacing, Writing
<1>3. \A s \in Slots : StorageInv(s)
  BY DEF Init, StorageInv, Clean, Whole
<1> QED
  BY <1>1, <1>2, <1>3 DEF SlotInv

-----------------------------------------------------------------------------
(* What the updates of the storage do, field by field.                      *)

LEMMA SetSlot ==
    ASSUME NEW m \in Storage, NEW s \in Slots, NEW x \in Content
    PROVE  LET n == [m EXCEPT !.slot[s] = x] IN
           /\ n \in Storage /\ n.prev = m.prev /\ n.esp = m.esp
           /\ n.slot = [m.slot EXCEPT ![s] = x]
<1>1. [m.slot EXCEPT ![s] = x] \in [Slots -> Content]
  BY DEF Storage
<1>2. [m EXCEPT !.slot[s] = x] = [m EXCEPT !.slot = [m.slot EXCEPT ![s] = x]]
  BY DEF Storage
<1> QED
  BY <1>1, <1>2, ZenonT(30) DEF Storage

LEMMA SetPrev ==
    ASSUME NEW m \in Storage, NEW s \in Slots, NEW x \in Content
    PROVE  LET n == [m EXCEPT !.prev[s] = x] IN
           /\ n \in Storage /\ n.slot = m.slot /\ n.esp = m.esp
           /\ n.prev = [m.prev EXCEPT ![s] = x]
<1>1. [m.prev EXCEPT ![s] = x] \in [Slots -> Content]
  BY DEF Storage
<1>2. [m EXCEPT !.prev[s] = x] = [m EXCEPT !.prev = [m.prev EXCEPT ![s] = x]]
  BY DEF Storage
<1> QED
  BY <1>1, <1>2, ZenonT(30) DEF Storage

LEMMA SetBlock ==
    ASSUME NEW m \in Storage, NEW s \in Slots, NEW b \in 1..Blocks,
           NEW x \in Versions \cup {None}
    PROVE  LET n == [m EXCEPT !.esp[s][b] = x] IN
           /\ n \in Storage /\ n.slot = m.slot /\ n.prev = m.prev
           /\ n.esp = [m.esp EXCEPT ![s] = [m.esp[s] EXCEPT ![b] = x]]
<1>1. [m.esp EXCEPT ![s] = [m.esp[s] EXCEPT ![b] = x]]
         \in [Slots -> [1..Blocks -> Versions \cup {None}]]
  BY DEF Storage
<1>2. [m EXCEPT !.esp[s][b] = x]
         = [m EXCEPT !.esp = [m.esp EXCEPT ![s] = [m.esp[s] EXCEPT ![b] = x]]]
  BY DEF Storage
<1> QED
  BY <1>1, <1>2, ZenonT(30) DEF Storage

LEMMA SetPartition ==
    ASSUME NEW m \in Storage, NEW s \in Slots,
           NEW f \in [1..Blocks -> Versions \cup {None}]
    PROVE  LET n == [m EXCEPT !.esp[s] = f] IN
           /\ n \in Storage /\ n.slot = m.slot /\ n.prev = m.prev
           /\ n.esp = [m.esp EXCEPT ![s] = f]
<1>1. [m.esp EXCEPT ![s] = f] \in [Slots -> [1..Blocks -> Versions \cup {None}]]
  BY DEF Storage
<1>2. [m EXCEPT !.esp[s] = f] = [m EXCEPT !.esp = [m.esp EXCEPT ![s] = f]]
  BY DEF Storage
<1> QED
  BY <1>1, <1>2 DEF Storage

LEMMA Committed ==
    ASSUME mem \in Storage, disk \in Storage, NEW u
    PROVE  /\ Commit(u) \in Storage
           /\ Commit(u).esp = disk.esp
           /\ \A s \in Slots :
                 /\ Commit(u).slot[s] = IF <<"slot", s>> \in u THEN Torn ELSE mem.slot[s]
                 /\ Commit(u).prev[s] = IF <<"prev", s>> \in u THEN Torn ELSE mem.prev[s]
BY ZenonT(30) DEF Storage, Commit, Content

LEMMA Synced ==
    ASSUME mem \in Storage, disk \in Storage, Sync
    PROVE  disk' = mem /\ dirty' = {}
<1> DEFINE d == Commit({})
<1>1. /\ d.slot \in [Slots -> Content] /\ mem.slot \in [Slots -> Content]
      /\ d.prev \in [Slots -> Content] /\ mem.prev \in [Slots -> Content]
      /\ d \in Storage
  BY Committed DEF Storage
<1>2. \A s \in Slots : d.slot[s] = mem.slot[s] /\ d.prev[s] = mem.prev[s]
  BY Committed, ZenonT(30)
<1>3. disk' = [d EXCEPT !.esp = mem.esp] /\ dirty' = {}
  BY DEF Sync
<1> HIDE DEF d
<1>4. d.slot = mem.slot /\ d.prev = mem.prev
  BY <1>1, <1>2
<1> QED
  BY <1>1, <1>3, <1>4 DEF Storage

-----------------------------------------------------------------------------
(* The steps of an installer.  What one does in its own slot is invisible   *)
(* to the others, which work on other slots.                                *)

LEMMA UnpackStep ==
    ASSUME SlotInv, OnePerSlot, NEW i \in Installers, NEW v \in Versions, Unpack(i, v)
    PROVE  SlotInv'
<1> USE SlotOfAssumption, BlocksAssumption, NamesAssumption
<1> DEFINE s == SlotOf[i]
<1>0. /\ s \in Slots /\ TypeOK /\ mem \in Storage /\ disk \in Storage
      /\ InstallerInv(i) /\ StorageInv(s)
  BY DEF SlotInv, TypeOK
<1>2. TypeOK'
  BY <1>0 DEF TypeOK, Unpack, Steps
<1>3. InstallerInv(i)'
  BY <1>0 DEF InstallerInv, StorageInv, Unpack, TypeOK, Clean, Replacing, Writing
<1>4. ASSUME NEW j \in Installers, j # i
      PROVE  InstallerInv(j)'
  <2>1. InstallerInv(j) /\ SlotOf[j] # s /\ SlotOf[j] \in Slots
    BY <1>4 DEF SlotInv, OnePerSlot
  <2> QED
    BY <1>0, <1>4, <2>1 DEF InstallerInv, Unpack, TypeOK, Storage, Clean, Replacing, Writing
<1>5. StorageInv(s)'
  BY <1>0 DEF InstallerInv, StorageInv, Unpack, TypeOK, Storage, Clean, Replacing, Writing
<1>6. ASSUME NEW t \in Slots, t # s
      PROVE  StorageInv(t)'
  <2>1. StorageInv(t)
    BY DEF SlotInv
  <2> QED
    BY <1>0, <1>6, <2>1 DEF StorageInv, Unpack, TypeOK, Storage, Clean
<1> QED
  BY <1>2, <1>3, <1>4, <1>5, <1>6 DEF SlotInv

LEMMA CheckPreviousStep ==
    ASSUME SlotInv, OnePerSlot, NEW i \in Installers, CheckPrevious(i)
    PROVE  SlotInv'
<1> USE SlotOfAssumption, BlocksAssumption, NamesAssumption
<1> DEFINE s == SlotOf[i]
<1>0. /\ s \in Slots /\ TypeOK /\ mem \in Storage /\ disk \in Storage
      /\ InstallerInv(i) /\ StorageInv(s)
  BY DEF SlotInv, TypeOK
<1>2. TypeOK'
  BY <1>0 DEF TypeOK, CheckPrevious, Steps
<1>3. InstallerInv(i)'
  BY <1>0 DEF InstallerInv, StorageInv, CheckPrevious, TypeOK, Clean, Replacing, Writing
<1>4. ASSUME NEW j \in Installers, j # i
      PROVE  InstallerInv(j)'
  <2>1. InstallerInv(j) /\ SlotOf[j] # s /\ SlotOf[j] \in Slots
    BY <1>4 DEF SlotInv, OnePerSlot
  <2> QED
    BY <1>0, <1>4, <2>1 DEF InstallerInv, CheckPrevious, TypeOK, Storage, Clean, Replacing, Writing
<1>5. StorageInv(s)'
  BY <1>0 DEF InstallerInv, StorageInv, CheckPrevious, TypeOK, Storage, Clean, Replacing, Writing
<1>6. ASSUME NEW t \in Slots, t # s
      PROVE  StorageInv(t)'
  <2>1. StorageInv(t)
    BY DEF SlotInv
  <2> QED
    BY <1>0, <1>6, <2>1 DEF StorageInv, CheckPrevious, TypeOK, Storage, Clean
<1> QED
  BY <1>2, <1>3, <1>4, <1>5, <1>6 DEF SlotInv

LEMMA AbortStep ==
    ASSUME SlotInv, OnePerSlot, NEW i \in Installers, Abort(i)
    PROVE  SlotInv'
<1> USE SlotOfAssumption, BlocksAssumption, NamesAssumption
<1> DEFINE s == SlotOf[i]
<1>0. /\ s \in Slots /\ TypeOK /\ mem \in Storage /\ disk \in Storage
      /\ InstallerInv(i) /\ StorageInv(s)
  BY DEF SlotInv, TypeOK
<1>2. TypeOK'
  BY <1>0 DEF TypeOK, Abort, Steps
<1>3. InstallerInv(i)'
  BY <1>0 DEF InstallerInv, StorageInv, Abort, TypeOK, Clean, Replacing, Writing
<1>4. ASSUME NEW j \in Installers, j # i
      PROVE  InstallerInv(j)'
  <2>1. InstallerInv(j) /\ SlotOf[j] # s /\ SlotOf[j] \in Slots
    BY <1>4 DEF SlotInv, OnePerSlot
  <2> QED
    BY <1>0, <1>4, <2>1 DEF InstallerInv, Abort, TypeOK, Storage, Clean, Replacing, Writing
<1>5. StorageInv(s)'
  BY <1>0 DEF InstallerInv, StorageInv, Abort, TypeOK, Storage, Clean, Replacing, Writing
<1>6. ASSUME NEW t \in Slots, t # s
      PROVE  StorageInv(t)'
  <2>1. StorageInv(t)
    BY DEF SlotInv
  <2> QED
    BY <1>0, <1>6, <2>1 DEF StorageInv, Abort, TypeOK, Storage, Clean
<1> QED
  BY <1>2, <1>3, <1>4, <1>5, <1>6 DEF SlotInv

LEMMA OpenImageStep ==
    ASSUME SlotInv, OnePerSlot, NEW i \in Installers, OpenImage(i)
    PROVE  SlotInv'
<1> USE SlotOfAssumption, BlocksAssumption, NamesAssumption
<1> DEFINE s == SlotOf[i]
<1>0. /\ s \in Slots /\ TypeOK /\ mem \in Storage /\ disk \in Storage
      /\ InstallerInv(i) /\ StorageInv(s)
  BY DEF SlotInv, TypeOK
<1>2. TypeOK'
  BY <1>0 DEF TypeOK, OpenImage, Steps
<1>3. InstallerInv(i)'
  BY <1>0 DEF InstallerInv, StorageInv, OpenImage, TypeOK, Clean, Replacing, Writing
<1>4. ASSUME NEW j \in Installers, j # i
      PROVE  InstallerInv(j)'
  <2>1. InstallerInv(j) /\ SlotOf[j] # s /\ SlotOf[j] \in Slots
    BY <1>4 DEF SlotInv, OnePerSlot
  <2> QED
    BY <1>0, <1>4, <2>1 DEF InstallerInv, OpenImage, TypeOK, Storage, Clean, Replacing, Writing
<1>5. StorageInv(s)'
  BY <1>0 DEF InstallerInv, StorageInv, OpenImage, TypeOK, Storage, Clean, Replacing, Writing
<1>6. ASSUME NEW t \in Slots, t # s
      PROVE  StorageInv(t)'
  <2>1. StorageInv(t)
    BY DEF SlotInv
  <2> QED
    BY <1>0, <1>6, <2>1 DEF StorageInv, OpenImage, TypeOK, Storage, Clean
<1> QED
  BY <1>2, <1>3, <1>4, <1>5, <1>6 DEF SlotInv

LEMMA SyncSlotStep ==
    ASSUME SlotInv, OnePerSlot, NEW i \in Installers, SyncSlot(i)
    PROVE  SlotInv'
<1> USE SlotOfAssumption, BlocksAssumption, NamesAssumption
<1> DEFINE s == SlotOf[i]
<1>0. /\ s \in Slots /\ TypeOK /\ mem \in Storage /\ disk \in Storage
      /\ InstallerInv(i) /\ StorageInv(s)
  BY DEF SlotInv, TypeOK
<1>1. disk' = mem /\ dirty' = {} /\ mem' = mem
  BY <1>0, Synced DEF SyncSlot
<1>2. TypeOK'
  BY <1>0, <1>1 DEF TypeOK, SyncSlot, Steps
<1>3. InstallerInv(i)'
  BY <1>0, <1>1 DEF InstallerInv, StorageInv, SyncSlot, TypeOK, Clean, Replacing, Writing
<1>4. ASSUME NEW j \in Installers, j # i
      PROVE  InstallerInv(j)'
  <2>1. InstallerInv(j) /\ SlotOf[j] # s /\ SlotOf[j] \in Slots
    BY <1>4 DEF SlotInv, OnePerSlot
  <2> QED
    BY <1>0, <1>4, <2>1, <1>1 DEF InstallerInv, SyncSlot, TypeOK, Storage, Clean, Replacing, Writing
<1>5. StorageInv(s)'
  BY <1>0, <1>1 DEF InstallerInv, StorageInv, SyncSlot, TypeOK, Storage, Clean, Replacing, Writing
<1>6. ASSUME NEW t \in Slots, t # s
      PROVE  StorageInv(t)'
  <2>1. StorageInv(t)
    BY DEF SlotInv
  <2> QED
    BY <1>0, <1>6, <2>1, <1>1 DEF StorageInv, SyncSlot, TypeOK, Storage, Clean
<1> QED
  BY <1>2, <1>3, <1>4, <1>5, <1>6 DEF SlotInv

LEMMA SyncBootStep ==
    ASSUME SlotInv, OnePerSlot, NEW i \in Installers, SyncBoot(i)
    PROVE  SlotInv'
<1> USE SlotOfAssumption, BlocksAssumption, NamesAssumption
<1> DEFINE s == SlotOf[i]
<1>0. /\ s \in Slots /\ TypeOK /\ mem \in Storage /\ disk \in Storage
      /\ InstallerInv(i) /\ StorageInv(s)
  BY DEF SlotInv, TypeOK
<1>1. disk' = mem /\ dirty' = {} /\ mem' = mem
  BY <1>0, Synced DEF SyncBoot
<1>2. TypeOK'
  BY <1>0, <1>1 DEF TypeOK, SyncBoot, Steps
<1>3. InstallerInv(i)'
  BY <1>0, <1>1 DEF InstallerInv, StorageInv, SyncBoot, TypeOK, Clean, Replacing, Writing
<1>4. ASSUME NEW j \in Installers, j # i
      PROVE  InstallerInv(j)'
  <2>1. InstallerInv(j) /\ SlotOf[j] # s /\ SlotOf[j] \in Slots
    BY <1>4 DEF SlotInv, OnePerSlot
  <2> QED
    BY <1>0, <1>4, <2>1, <1>1 DEF InstallerInv, SyncBoot, TypeOK, Storage, Clean, Replacing, Writing
<1>5. StorageInv(s)'
  BY <1>0, <1>1 DEF InstallerInv, StorageInv, SyncBoot, TypeOK, Storage, Clean, Replacing, Writing
<1>6. ASSUME NEW t \in Slots, t # s
      PROVE  StorageInv(t)'
  <2>1. StorageInv(t)
    BY DEF SlotInv
  <2> QED
    BY <1>0, <1>6, <2>1, <1>1 DEF StorageInv, SyncBoot, TypeOK, Storage, Clean
<1> QED
  BY <1>2, <1>3, <1>4, <1>5, <1>6 DEF SlotInv

LEMMA RemoveFilesStep ==
    ASSUME SlotInv, OnePerSlot, NEW i \in Installers, RemoveFiles(i)
    PROVE  SlotInv'
<1> USE SlotOfAssumption, BlocksAssumption, NamesAssumption
<1> DEFINE s == SlotOf[i]
<1>0. /\ s \in Slots /\ TypeOK /\ mem \in Storage /\ disk \in Storage
      /\ InstallerInv(i) /\ StorageInv(s)
  BY DEF SlotInv, TypeOK
<1>1. /\ mem' \in Storage /\ mem'.slot = mem.slot /\ mem'.esp = mem.esp
      /\ mem'.prev = [mem.prev EXCEPT ![s] = Torn]
  BY <1>0, SetPrev DEF RemoveFiles, Content
<1>2. TypeOK'
  BY <1>0, <1>1 DEF TypeOK, RemoveFiles, Steps
<1>3. InstallerInv(i)'
  BY <1>0, <1>1 DEF InstallerInv, StorageInv, RemoveFiles, TypeOK, Clean, Replacing, Writing
<1>4. ASSUME NEW j \in Installers, j # i
      PROVE  InstallerInv(j)'
  <2>1. InstallerInv(j) /\ SlotOf[j] # s /\ SlotOf[j] \in Slots
    BY <1>4 DEF SlotInv, OnePerSlot
  <2> QED
    BY <1>0, <1>4, <2>1, <1>1 DEF InstallerInv, RemoveFiles, TypeOK, Storage, Clean, Replacing, Writing
<1>5. StorageInv(s)'
  BY <1>0, <1>1 DEF InstallerInv, StorageInv, RemoveFiles, TypeOK, Storage, Clean, Replacing, Writing
<1>6. ASSUME NEW t \in Slots, t # s
      PROVE  StorageInv(t)'
  <2>1. StorageInv(t)
    BY DEF SlotInv
  <2> QED
    BY <1>0, <1>6, <2>1, <1>1 DEF StorageInv, RemoveFiles, TypeOK, Storage, Clean
<1> QED
  BY <1>2, <1>3, <1>4, <1>5, <1>6 DEF SlotInv

LEMMA RemoveDirectoryStep ==
    ASSUME SlotInv, OnePerSlot, NEW i \in Installers, RemoveDirectory(i)
    PROVE  SlotInv'
<1> USE SlotOfAssumption, BlocksAssumption, NamesAssumption
<1> DEFINE s == SlotOf[i]
<1>0. /\ s \in Slots /\ TypeOK /\ mem \in Storage /\ disk \in Storage
      /\ InstallerInv(i) /\ StorageInv(s)
  BY DEF SlotInv, TypeOK
<1>1. /\ mem' \in Storage /\ mem'.slot = mem.slot /\ mem'.esp = mem.esp
      /\ mem'.prev = [mem.prev EXCEPT ![s] = None]
  BY <1>0, SetPrev DEF RemoveDirectory, Content
<1>2. TypeOK'
  BY <1>0, <1>1 DEF TypeOK, RemoveDirectory, Steps
<1>3. InstallerInv(i)'
  BY <1>0, <1>1 DEF InstallerInv, StorageInv, RemoveDirectory, TypeOK, Clean, Replacing, Writing
<1>4. ASSUME NEW j \in Installers, j # i
      PROVE  InstallerInv(j)'
  <2>1. InstallerInv(j) /\ SlotOf[j] # s /\ SlotOf[j] \in Slots
    BY <1>4 DEF SlotInv, OnePerSlot
  <2> QED
    BY <1>0, <1>4, <2>1, <1>1 DEF InstallerInv, RemoveDirectory, TypeOK, Storage, Clean, Replacing, Writing
<1>5. StorageInv(s)'
  BY <1>0, <1>1 DEF InstallerInv, StorageInv, RemoveDirectory, TypeOK, Storage, Clean, Replacing, Writing
<1>6. ASSUME NEW t \in Slots, t # s
      PROVE  StorageInv(t)'
  <2>1. StorageInv(t)
    BY DEF SlotInv
  <2> QED
    BY <1>0, <1>6, <2>1, <1>1 DEF StorageInv, RemoveDirectory, TypeOK, Storage, Clean
<1> QED
  BY <1>2, <1>3, <1>4, <1>5, <1>6 DEF SlotInv

LEMMA MoveAsideStep ==
    ASSUME SlotInv, OnePerSlot, NEW i \in Installers, MoveAside(i)
    PROVE  SlotInv'
<1> USE SlotOfAssumption, BlocksAssumption, NamesAssumption
<1> DEFINE s == SlotOf[i]
<1>0. /\ s \in Slots /\ TypeOK /\ mem \in Storage /\ disk \in Storage
      /\ InstallerInv(i) /\ StorageInv(s)
  BY DEF SlotInv, TypeOK
<1>1. CASE mem.slot[s] # None /\ mem.prev[s] = None
  <2>1. /\ mem' \in Storage /\ mem'.esp = mem.esp
        /\ mem'.slot = [mem.slot EXCEPT ![s] = None]
        /\ mem'.prev = [mem.prev EXCEPT ![s] = mem.slot[s]]
    <3>1. mem' = [slot |-> [mem.slot EXCEPT ![s] = None],
                  prev |-> [mem.prev EXCEPT ![s] = mem.slot[s]],
                  esp  |-> mem.esp]
      BY <1>1 DEF MoveAside
    <3>2. /\ [mem.slot EXCEPT ![s] = None] \in [Slots -> Content]
          /\ [mem.prev EXCEPT ![s] = mem.slot[s]] \in [Slots -> Content]
      BY <1>0 DEF Storage, Content
    <3> QED
      BY <1>0, <3>1, <3>2 DEF Storage
  <2>7. /\ mem'.slot[s] = None /\ mem'.prev[s] = mem.slot[s]
        /\ pc'[i] = "moved"
        /\ <<"slot", s>> \notin dirty'
        /\ <<"prev", s>> \in dirty' => <<"slot", s>> \in dirty \/ <<"prev", s>> \in dirty
    <3>1. mem'.slot[s] = None /\ mem'.prev[s] = mem.slot[s]
      BY <1>0, <2>1 DEF Storage
    <3>2. /\ pc' = [pc EXCEPT ![i] = "moved"]
          /\ dirty' = (dirty \ {<<"slot", s>>})
                         \cup {d \in {<<"prev", s>>} : <<"slot", s>> \in dirty}
      BY <1>1 DEF MoveAside
    <3>3. pc'[i] = "moved"
      BY <1>0, <3>2 DEF TypeOK
    <3>4. <<"slot", s>> # <<"prev", s>>
      OBVIOUS
    <3> QED
      BY <3>1, <3>2, <3>3, <3>4
  <2>2. TypeOK'
    BY <1>0, <1>1, <2>1 DEF TypeOK, MoveAside, Steps
  <2>3. InstallerInv(i)'
    BY <1>0, <1>1, <2>1, <2>7 DEF InstallerInv, StorageInv, MoveAside, Clean, Replacing, Writing
  <2>4. ASSUME NEW j \in Installers, j # i
        PROVE  InstallerInv(j)'
    <3>1. InstallerInv(j) /\ SlotOf[j] # s /\ SlotOf[j] \in Slots
      BY <2>4 DEF SlotInv, OnePerSlot
    <3> QED
      BY <1>0, <1>1, <2>1, <2>4, <3>1, SMTT(90) DEF InstallerInv, MoveAside, TypeOK, Storage, Clean, Replacing, Writing
  <2>5. StorageInv(s)'
    BY <1>0, <1>1, <2>1, <2>7 DEF StorageInv, MoveAside, Clean
  <2>6. ASSUME NEW t \in Slots, t # s
        PROVE  StorageInv(t)'
    <3>1. StorageInv(t)
      BY DEF SlotInv
    <3> QED
      BY <1>0, <1>1, <2>1, <2>6, <3>1 DEF StorageInv, MoveAside, TypeOK, Storage, Clean
  <2> QED
    BY <2>2, <2>3, <2>4, <2>5, <2>6 DEF SlotInv
<1>2. CASE mem.slot[s] = None \/ mem.prev[s] # None
  <2>1. mem' = mem /\ dirty' = dirty
    BY <1>0, <1>2 DEF MoveAside
  <2>2. TypeOK'
    BY <1>0, <1>2, <2>1 DEF TypeOK, MoveAside, Steps
  <2>3. InstallerInv(i)'
    BY <1>0, <1>2, <2>1 DEF InstallerInv, StorageInv, MoveAside, TypeOK, Clean, Replacing, Writing
  <2>4. ASSUME NEW j \in Installers, j # i
        PROVE  InstallerInv(j)'
    <3>1. InstallerInv(j) /\ SlotOf[j] # s /\ SlotOf[j] \in Slots
      BY <2>4 DEF SlotInv, OnePerSlot
    <3> QED
      BY <1>0, <1>2, <2>1, <2>4, <3>1 DEF InstallerInv, MoveAside, TypeOK, Storage, Clean, Replacing, Writing
  <2>5. StorageInv(s)'
    BY <1>0, <1>2, <2>1 DEF InstallerInv, StorageInv, MoveAside, TypeOK, Storage, Clean, Replacing, Writing
  <2>6. ASSUME NEW t \in Slots, t # s
        PROVE  StorageInv(t)'
    <3>1. StorageInv(t)
      BY DEF SlotInv
    <3> QED
      BY <1>0, <1>2, <2>1, <2>6, <3>1 DEF StorageInv, MoveAside, TypeOK, Storage, Clean
  <2> QED
    BY <2>2, <2>3, <2>4, <2>5, <2>6 DEF SlotInv
<1> QED
  BY <1>1, <1>2

LEMMA PlaceStep ==
    ASSUME SlotInv, OnePerSlot, NEW i \in Installers, Place(i)
    PROVE  SlotInv'
<1> USE SlotOfAssumption, BlocksAssumption, NamesAssumption
<1> DEFINE s == SlotOf[i]
<1>0. /\ s \in Slots /\ TypeOK /\ mem \in Storage /\ disk \in Storage
      /\ InstallerInv(i) /\ StorageInv(s)
  BY DEF SlotInv, TypeOK
<1>1. CASE mem.slot[s] = None
  <2>1. /\ mem' \in Storage /\ mem'.prev = mem.prev /\ mem'.esp = mem.esp
        /\ mem'.slot = [mem.slot EXCEPT ![s] = ver[i]]
    <3>1. ver[i] \in Content
      BY <1>0 DEF Place, InstallerInv, Content
    <3>2. mem' = [mem EXCEPT !.slot[s] = ver[i]]
      BY <1>1 DEF Place
    <3> QED
      BY <1>0, <3>1, <3>2, SetSlot
  <2>7. mem'.slot[s] = ver[i] /\ pc'[i] = "placed"
    BY <1>0, <1>1, <2>1 DEF Place, TypeOK, Storage
  <2>2. TypeOK'
    BY <1>0, <1>1, <2>1 DEF TypeOK, Place, Steps
  <2>3. InstallerInv(i)'
    BY <1>0, <1>1, <2>1, <2>7 DEF InstallerInv, StorageInv, Place, Clean, Replacing, Writing
  <2>4. ASSUME NEW j \in Installers, j # i
        PROVE  InstallerInv(j)'
    <3>1. InstallerInv(j) /\ SlotOf[j] # s /\ SlotOf[j] \in Slots
      BY <2>4 DEF SlotInv, OnePerSlot
    <3> QED
      BY <1>0, <1>1, <2>1, <2>4, <3>1 DEF InstallerInv, Place, TypeOK, Storage, Clean, Replacing, Writing
  <2>5. StorageInv(s)'
    BY <1>0, <1>1, <2>1 DEF InstallerInv, StorageInv, Place, TypeOK, Storage, Clean, Replacing, Writing
  <2>6. ASSUME NEW t \in Slots, t # s
        PROVE  StorageInv(t)'
    <3>1. StorageInv(t)
      BY DEF SlotInv
    <3> QED
      BY <1>0, <1>1, <2>1, <2>6, <3>1 DEF StorageInv, Place, TypeOK, Storage, Clean
  <2> QED
    BY <2>2, <2>3, <2>4, <2>5, <2>6 DEF SlotInv
<1>2. CASE mem.slot[s] # None
  <2>1. mem' = mem /\ dirty' = dirty
    BY <1>0, <1>2 DEF Place
  <2>2. TypeOK'
    BY <1>0, <1>2, <2>1 DEF TypeOK, Place, Steps
  <2>3. InstallerInv(i)'
    BY <1>0, <1>2, <2>1 DEF InstallerInv, StorageInv, Place, TypeOK, Clean, Replacing, Writing
  <2>4. ASSUME NEW j \in Installers, j # i
        PROVE  InstallerInv(j)'
    <3>1. InstallerInv(j) /\ SlotOf[j] # s /\ SlotOf[j] \in Slots
      BY <2>4 DEF SlotInv, OnePerSlot
    <3> QED
      BY <1>0, <1>2, <2>1, <2>4, <3>1 DEF InstallerInv, Place, TypeOK, Storage, Clean, Replacing, Writing
  <2>5. StorageInv(s)'
    BY <1>0, <1>2, <2>1 DEF InstallerInv, StorageInv, Place, TypeOK, Storage, Clean, Replacing, Writing
  <2>6. ASSUME NEW t \in Slots, t # s
        PROVE  StorageInv(t)'
    <3>1. StorageInv(t)
      BY DEF SlotInv
    <3> QED
      BY <1>0, <1>2, <2>1, <2>6, <3>1 DEF StorageInv, Place, TypeOK, Storage, Clean
  <2> QED
    BY <2>2, <2>3, <2>4, <2>5, <2>6 DEF SlotInv
<1> QED
  BY <1>1, <1>2

LEMMA WriteBlockEffect ==
    ASSUME SlotInv, NEW i \in Installers, WriteBlock(i)
    PROVE  LET s == SlotOf[i]
               b == block[i] + 1 IN
           /\ pc[i] = "dd" /\ b \in 1..Blocks /\ image[i] = ver[i] /\ ver[i] \in Versions
           /\ done[s] # None => mem.prev[s] = done[s] /\ disk.prev[s] = done[s]
           /\ mem' \in Storage /\ mem'.slot = mem.slot /\ mem'.prev = mem.prev
           /\ mem'.esp = [mem.esp EXCEPT ![s] = [mem.esp[s] EXCEPT ![b] = ver[i]]]
           /\ disk' \in Storage /\ disk'.slot = disk.slot /\ disk'.prev = disk.prev
           /\ \/ b < Blocks /\ pc' = pc /\ disk' = disk
              \/ /\ b = Blocks /\ pc' = [pc EXCEPT ![i] = "written"]
                 /\ disk'.esp = [disk.esp EXCEPT ![s] = mem'.esp[s]]
<1> USE SlotOfAssumption, BlocksAssumption, NamesAssumption
<1> DEFINE s == SlotOf[i]
<1>0. /\ s \in Slots /\ TypeOK /\ mem \in Storage /\ disk \in Storage
      /\ InstallerInv(i) /\ StorageInv(s)
  BY DEF SlotInv, TypeOK
<1> DEFINE b == block[i] + 1
<1>1. /\ pc[i] = "dd" /\ b \in 1..Blocks /\ image[i] = ver[i] /\ ver[i] \in Versions
      /\ done[s] # None => mem.prev[s] = done[s] /\ disk.prev[s] = done[s]
  BY <1>0 DEF WriteBlock, InstallerInv, TypeOK, Replacing, Writing
<1>2. /\ mem' \in Storage /\ mem'.slot = mem.slot /\ mem'.prev = mem.prev
      /\ mem'.esp = [mem.esp EXCEPT ![s] = [mem.esp[s] EXCEPT ![b] = ver[i]]]
  BY <1>0, <1>1, SetBlock DEF WriteBlock
<1>3. mem'.esp[s] = [mem.esp[s] EXCEPT ![b] = ver[i]]
  BY <1>0, <1>2 DEF Storage
<1>4. /\ disk' \in Storage /\ disk'.slot = disk.slot /\ disk'.prev = disk.prev
      /\ \/ b < Blocks /\ pc' = pc /\ disk' = disk
         \/ /\ b = Blocks /\ pc' = [pc EXCEPT ![i] = "written"]
            /\ disk'.esp = [disk.esp EXCEPT ![s] = mem'.esp[s]]
  <2>1. mem'.esp[s] \in [1..Blocks -> Versions \cup {None}]
    <3>1. mem'.esp \in [Slots -> [1..Blocks -> Versions \cup {None}]]
      BY <1>2, ZenonT(30) DEF Storage
    <3> QED
      BY <1>0, <3>1
  <2>2. CASE b < Blocks /\ UNCHANGED <<pc, disk>>
    BY <1>0, <2>2
  <2>3. CASE /\ b = Blocks /\ pc' = [pc EXCEPT ![i] = "written"]
             /\ disk' = [disk EXCEPT !.esp[s] = mem'.esp[s]]
    BY <1>0, <2>1, <2>3, SetPartition
  <2> QED
    BY <2>2, <2>3 DEF WriteBlock
<1> QED
  BY <1>1, <1>2, <1>4

LEMMA WriteBlockStep ==
    ASSUME SlotInv, OnePerSlot, NEW i \in Installers, WriteBlock(i)
    PROVE  SlotInv'
<1> USE SlotOfAssumption, BlocksAssumption, NamesAssumption
<1> DEFINE s == SlotOf[i]
<1>0. /\ s \in Slots /\ TypeOK /\ mem \in Storage /\ disk \in Storage
      /\ InstallerInv(i) /\ StorageInv(s)
  BY DEF SlotInv, TypeOK
<1> DEFINE b == block[i] + 1
<1>1. /\ pc[i] = "dd" /\ b \in 1..Blocks /\ image[i] = ver[i] /\ ver[i] \in Versions
      /\ done[s] # None => mem.prev[s] = done[s] /\ disk.prev[s] = done[s]
  BY WriteBlockEffect, ZenonT(30)
<1>2. /\ mem' \in Storage /\ mem'.slot = mem.slot /\ mem'.prev = mem.prev
      /\ mem'.esp = [mem.esp EXCEPT ![s] = [mem.esp[s] EXCEPT ![b] = ver[i]]]
  BY WriteBlockEffect, ZenonT(30)
<1>3. mem'.esp[s] = [mem.esp[s] EXCEPT ![b] = ver[i]]
  BY <1>0, <1>2 DEF Storage
<1>4. /\ disk' \in Storage /\ disk'.slot = disk.slot /\ disk'.prev = disk.prev
      /\ \/ b < Blocks /\ pc' = pc /\ disk' = disk
         \/ /\ b = Blocks /\ pc' = [pc EXCEPT ![i] = "written"]
            /\ disk'.esp = [disk.esp EXCEPT ![s] = mem'.esp[s]]
  BY WriteBlockEffect, ZenonT(30)
<1>5. /\ block' = [block EXCEPT ![i] = b]
      /\ ver' = ver /\ image' = image /\ dirty' = dirty /\ done' = done
  BY DEF WriteBlock
<1>6. TypeOK'
  BY <1>0, <1>1, <1>2, <1>4, <1>5 DEF TypeOK, Steps
<1>7. \A n \in 1..b : mem'.esp[s][n] = ver[i]
  BY <1>0, <1>1, <1>3 DEF InstallerInv, TypeOK, Storage
<1>8. InstallerInv(i)'
  <2>1. CASE b < Blocks
    BY <1>0, <1>1, <1>2, <1>4, <1>5, <1>7, <2>1, SMTT(90)
    DEF InstallerInv, TypeOK, Clean, Replacing, Writing
  <2>2. CASE b = Blocks
    <3>1. mem'.esp[s] = Whole(ver[i])
      <4>1. mem.esp[s] \in [1..Blocks -> Versions \cup {None}]
        BY <1>0 DEF Storage
      <4> QED
        BY <1>1, <1>3, <1>7, <2>2, <4>1 DEF Whole
    <3>2. disk'.esp[s] = mem'.esp[s]
      BY <1>0, <1>4, <2>2 DEF Storage
    <3>3. pc'[i] = "written"
      BY <1>0, <1>4, <2>2 DEF TypeOK
    <3> QED
      BY <1>0, <1>1, <1>2, <1>4, <1>5, <3>1, <3>2, <3>3
      DEF InstallerInv, TypeOK, Clean, Replacing, Writing
  <2> QED
    BY <1>1, <2>1, <2>2
<1>9. ASSUME NEW j \in Installers, j # i
      PROVE  InstallerInv(j)'
  <2>1. InstallerInv(j) /\ SlotOf[j] # s /\ SlotOf[j] \in Slots
    BY <1>9 DEF SlotInv, OnePerSlot
  <2>2. /\ mem'.esp[SlotOf[j]] = mem.esp[SlotOf[j]]
        /\ disk'.esp[SlotOf[j]] = disk.esp[SlotOf[j]]
        /\ pc'[j] = pc[j] /\ block'[j] = block[j]
    BY <1>0, <1>2, <1>4, <1>5, <1>9, <2>1 DEF TypeOK, Storage
  <2> QED
    BY <1>2, <1>4, <1>5, <2>1, <2>2, SMTT(90) DEF InstallerInv, Clean
<1>10. ASSUME NEW t \in Slots
       PROVE  StorageInv(t)'
  <2>1. StorageInv(t)
    BY DEF SlotInv
  <2>2. t # s => mem'.esp[t] = mem.esp[t] /\ disk'.esp[t] = disk.esp[t]
    BY <1>0, <1>2, <1>4, SMTT(30) DEF Storage
  <2> QED
    BY <1>1, <1>2, <1>4, <1>5, <2>1, <2>2 DEF StorageInv, Clean
<1> QED
  BY <1>6, <1>8, <1>9, <1>10 DEF SlotInv

-----------------------------------------------------------------------------
(* The kernel and the power.                                                *)

LEMMA BackgroundStep == ASSUME SlotInv, Background PROVE SlotInv'
<1> USE SlotOfAssumption, NamesAssumption
<1>0. TypeOK /\ mem \in Storage /\ disk \in Storage
  BY DEF SlotInv, TypeOK
<1>1. PICK u \in SUBSET dirty : dirty' = u /\ disk' = Commit(u)
  BY DEF Background
<1>2. /\ disk' \in Storage /\ disk'.esp = disk.esp
      /\ \A s \in Slots :
            /\ disk'.slot[s] = IF <<"slot", s>> \in u THEN Torn ELSE mem.slot[s]
            /\ disk'.prev[s] = IF <<"prev", s>> \in u THEN Torn ELSE mem.prev[s]
  BY <1>0, <1>1, Committed
<1>3. TypeOK'
  BY <1>0, <1>1, <1>2 DEF TypeOK, Background
<1>4. ASSUME NEW i \in Installers PROVE InstallerInv(i)'
  <2>1. InstallerInv(i) /\ SlotOf[i] \in Slots
    BY DEF SlotInv
  <2> QED
    BY <1>1, <1>2, <2>1 DEF InstallerInv, Background, Clean
<1>5. ASSUME NEW s \in Slots PROVE StorageInv(s)'
  <2>1. StorageInv(s)
    BY DEF SlotInv
  <2> QED
    BY <1>1, <1>2, <2>1 DEF StorageInv, Background, Clean
<1> QED
  BY <1>3, <1>4, <1>5 DEF SlotInv

LEMMA BackgroundBlockStep == ASSUME SlotInv, BackgroundBlock PROVE SlotInv'
<1> USE SlotOfAssumption, BlocksAssumption, NamesAssumption
<1>0. TypeOK /\ mem \in Storage /\ disk \in Storage
  BY DEF SlotInv, TypeOK
<1>1. PICK s \in Slots, b \in 1..Blocks : disk' = [disk EXCEPT !.esp[s][b] = mem.esp[s][b]]
  BY ZenonT(30) DEF BackgroundBlock
<1>2. mem.esp[s][b] \in Versions \cup {None}
  BY <1>0 DEF Storage
<1>3. /\ disk' \in Storage /\ disk'.slot = disk.slot /\ disk'.prev = disk.prev
      /\ disk'.esp = [disk.esp EXCEPT ![s] = [disk.esp[s] EXCEPT ![b] = mem.esp[s][b]]]
  BY <1>0, <1>1, <1>2, SetBlock
<1>4. TypeOK'
  BY <1>0, <1>3 DEF TypeOK, BackgroundBlock
(* A partition that agrees with mem keeps agreeing with it.                 *)
<1>5. ASSUME NEW t \in Slots, mem.esp[t] = disk.esp[t]
      PROVE  disk'.esp[t] = disk.esp[t]
  BY <1>0, <1>3, <1>5 DEF Storage
<1>6. ASSUME NEW i \in Installers PROVE InstallerInv(i)'
  <2>1. InstallerInv(i) /\ SlotOf[i] \in Slots
    BY DEF SlotInv
  <2> QED
    BY <1>3, <1>5, <2>1 DEF InstallerInv, BackgroundBlock, Clean
<1>7. ASSUME NEW t \in Slots PROVE StorageInv(t)'
  <2>1. StorageInv(t)
    BY DEF SlotInv
  <2> QED
    BY <1>3, <1>5, <2>1 DEF StorageInv, BackgroundBlock, Clean
<1> QED
  BY <1>4, <1>6, <1>7 DEF SlotInv

LEMMA PowerLossStep == ASSUME SlotInv, PowerLoss PROVE SlotInv'
<1> USE SlotOfAssumption, NamesAssumption
<1>1. TypeOK'
  BY DEF SlotInv, TypeOK, PowerLoss, Steps
<1>2. \A i \in Installers : InstallerInv(i)'
  BY DEF InstallerInv, PowerLoss, Replacing, Writing
<1>3. \A s \in Slots : StorageInv(s)'
  BY ZenonT(30) DEF SlotInv, StorageInv, PowerLoss, Clean
<1> QED
  BY <1>1, <1>2, <1>3 DEF SlotInv

LEMMA NextSlotInv == ASSUME SlotInv, OnePerSlot, [Next]_vars PROVE SlotInv'
<1>1. CASE Next
  BY <1>1, UnpackStep, CheckPreviousStep, MoveAsideStep, PlaceStep, SyncSlotStep,
     OpenImageStep, WriteBlockStep, SyncBootStep, RemoveFilesStep,
     RemoveDirectoryStep, AbortStep, BackgroundStep, BackgroundBlockStep,
     PowerLossStep DEF Next, Install
<1>2. CASE UNCHANGED vars
  <2>1. UNCHANGED <<pc, ver, block, image, mem, disk, dirty, done>>
    BY <1>2 DEF vars
  <2>2. TypeOK'
    BY <2>1 DEF SlotInv, TypeOK
  <2>3. \A i \in Installers : InstallerInv(i)'
    BY <2>1, SMTT(90) DEF SlotInv, InstallerInv, Clean
  <2>4. \A s \in Slots : StorageInv(s)'
    BY <2>1, ZenonT(30) DEF SlotInv, StorageInv, Clean
  <2> QED
    BY <2>2, <2>3, <2>4 DEF SlotInv
<1> QED
  BY <1>1, <1>2

-----------------------------------------------------------------------------
(* SlotInv is an invariant: between the move of the old slot and the end of *)
(* dd, SLOT.previous holds what was installed last, and it reached the disk *)
(* before the first block did.                                              *)
THEOREM SlotInvariant == ASSUME OnePerSlot PROVE Spec => []SlotInv
<1>1. SlotInv /\ [Next]_vars => SlotInv'
  BY NextSlotInv
<1> QED
  BY <1>1, InitSlotInv, PTL DEF Spec

(* Whenever the power fails, the last release that install_slot completed   *)
(* is whole on the disk.                                                    *)
THEOREM ReleaseRecoverable == ASSUME OnePerSlot PROVE Spec => []Recoverable
<1>1. SlotInv => Recoverable
  BY DEF SlotInv, StorageInv, Recoverable
<1> QED
  BY <1>1, SlotInvariant, PTL

(* Without SLOT.previous, neither the slot nor its partition is half        *)
(* replaced: the check at the start of install_slot misses nothing.         *)
THEOREM InterruptionVisible == ASSUME OnePerSlot PROVE Spec => []InterruptionIsVisible
<1>1. SlotInv => InterruptionIsVisible
  BY DEF SlotInv, StorageInv, InterruptionIsVisible
<1> QED
  BY <1>1, SlotInvariant, PTL

-----------------------------------------------------------------------------
(* A release that is whole in memory and written back.                      *)
InMemory(s) ==
    \/ mem.slot[s] \in Versions /\ Clean("slot", s)
    \/ mem.prev[s] \in Versions /\ Clean("prev", s)

(* Before the first complete installation of a slot nothing is known of     *)
(* done; what the disk holds is then still whole in memory.                 *)
WholeInv == \A s \in Slots : done[s] = None /\ Held(s) # None => InMemory(s)

LEMMA HeldValue ==
    ASSUME NEW s \in Slots
    PROVE  /\ Held(s) \in Versions \cup {None}
           /\ Held(s) # None <=> disk.prev[s] \in Versions \/ disk.slot[s] \in Versions
BY NamesAssumption DEF Held

(* A commit writes what is whole in memory, and nothing else.               *)
LEMMA CommitHolds ==
    ASSUME TypeOK, NEW s \in Slots, NEW u, dirty' = u, mem' = mem,
           disk'.slot[s] = (IF <<"slot", s>> \in u THEN Torn ELSE mem.slot[s]),
           disk'.prev[s] = (IF <<"prev", s>> \in u THEN Torn ELSE mem.prev[s]),
           u \subseteq dirty
    PROVE  /\ InMemory(s) => Held(s)' # None
           /\ Held(s)' # None => InMemory(s)'
BY NamesAssumption DEF InMemory, Held, Clean

(* A slot that has held a complete installation goes on to do so.          *)
LEMMA DoneStays ==
    ASSUME SlotInv, [Next]_vars, NEW s \in Slots, done'[s] = None PROVE done[s] = None
<1> USE NamesAssumption, SlotOfAssumption
<1>1. done' = done \/ \E i \in Installers : SyncBoot(i)
  BY ZenonT(30) DEF Next, Install, Unpack, CheckPrevious, MoveAside, Place, SyncSlot, OpenImage,
     WriteBlock, RemoveFiles, RemoveDirectory, Abort, Background, BackgroundBlock,
     PowerLoss, vars
<1>2. ASSUME NEW i \in Installers, SyncBoot(i) PROVE done[s] = None
  <2>1. ver[i] # None /\ done' = [done EXCEPT ![SlotOf[i]] = ver[i]] /\ DOMAIN done = Slots
    BY <1>2 DEF SyncBoot, SlotInv, InstallerInv, TypeOK
  <2> QED
    BY <2>1
<1> QED
  BY <1>1, <1>2

(* No step takes the last whole release of a slot away.                     *)
LEMMA NeverLost ==
    ASSUME SlotInv, SlotInv', WholeInv, [Next]_vars
    PROVE  WholeInv' /\ \A s \in Slots : Held(s) # None => Held(s)' # None
<1> USE NamesAssumption, SlotOfAssumption
<1> SUFFICES ASSUME NEW s \in Slots
             PROVE  /\ done'[s] = None /\ Held(s)' # None => InMemory(s)'
                    /\ Held(s) # None => Held(s)' # None
  BY DEF WholeInv
<1>1. TypeOK /\ mem \in Storage /\ disk \in Storage
  BY DEF SlotInv, TypeOK
<1>2. CASE done'[s] # None
  <2>1. done'[s] \in Versions /\ done'[s] \in {disk'.slot[s], disk'.prev[s]}
    BY <1>2 DEF SlotInv, TypeOK, StorageInv
  <2>2. Held(s)' # None
    BY <2>1 DEF Held
  <2> QED
    BY <1>2, <2>2
<1>3. CASE done'[s] = None
  <2>1. done[s] = None
    BY <1>3, DoneStays
  <2>2. Held(s) # None => InMemory(s)
    BY <2>1 DEF WholeInv
  <2>3. CASE Sync /\ mem' = mem
    BY <1>1, <2>2, <2>3, Synced, CommitHolds, ZenonT(30)
  <2>4. CASE Background
    <3>1. PICK u \in SUBSET dirty : dirty' = u /\ disk' = Commit(u)
      BY <2>4 DEF Background
    <3> QED
      BY <1>1, <2>2, <2>4, <3>1, Committed, CommitHolds, ZenonT(60) DEF Background
  <2>5. CASE PowerLoss
    BY <2>5 DEF PowerLoss, Held, InMemory, Clean
  <2>6. CASE UNCHANGED <<dirty, disk>> /\ mem'.slot = mem.slot /\ mem'.prev = mem.prev
    BY <2>2, <2>6 DEF Held, InMemory, Clean
  <2>7. ASSUME NEW i \in Installers, MoveAside(i) \/ Place(i) \/ RemoveFiles(i) \/ RemoveDirectory(i)
        PROVE  disk' = disk /\ (InMemory(s) => InMemory(s)')
    <3>1. CASE s # SlotOf[i]
      <4>1. /\ disk' = disk /\ mem'.slot[s] = mem.slot[s] /\ mem'.prev[s] = mem.prev[s]
            /\ \A name : <<name, s>> \in dirty' => <<name, s>> \in dirty
        <5>1. CASE MoveAside(i)
          BY <1>1, <3>1, <5>1 DEF MoveAside, Storage
        <5>2. CASE Place(i)
          BY <1>1, <3>1, <5>2 DEF Place, Storage
        <5>3. CASE RemoveFiles(i) \/ RemoveDirectory(i)
          BY <1>1, <3>1, <5>3 DEF RemoveFiles, RemoveDirectory, Storage
        <5> QED
          BY <2>7, <5>1, <5>2, <5>3
      <4> QED
        BY <4>1 DEF InMemory, Clean
    <3>2. CASE s = SlotOf[i] /\ MoveAside(i)
      <4>1. mem.prev[s] = None => <<"prev", s>> \notin dirty
        BY ZenonT(30) DEF SlotInv, StorageInv, Clean
      <4>2. /\ disk' = disk
            /\ \/ mem' = mem /\ dirty' = dirty
               \/ /\ mem.prev[s] = None /\ mem'.prev[s] = mem.slot[s]
                  /\ <<"slot", s>> \notin dirty => <<"prev", s>> \notin dirty'
        <5>1. disk' = disk /\ (mem.slot[s] = None \/ mem.prev[s] # None => UNCHANGED <<mem, dirty>>)
          BY <3>2 DEF MoveAside
        <5>2. CASE mem.slot[s] # None /\ mem.prev[s] = None
          <6>1. mem'.prev = [mem.prev EXCEPT ![s] = mem.slot[s]]
                /\ dirty' = (dirty \ {<<"slot", s>>}) \cup {d \in {<<"prev", s>>} : <<"slot", s>> \in dirty}
            BY <3>2, <5>2 DEF MoveAside
          <6>2. mem'.prev[s] = mem.slot[s]
            BY <1>1, <6>1 DEF Storage
          <6>3. <<"slot", s>> \notin dirty => <<"prev", s>> \notin dirty'
            BY <4>1, <5>2, <6>1
          <6> QED
            BY <5>1, <5>2, <6>2, <6>3
        <5> QED
          BY <5>1, <5>2
      <4> QED
        BY <4>2 DEF InMemory, Clean
    <3>3. CASE s = SlotOf[i] /\ Place(i)
      BY <1>1, <3>3 DEF Place, InMemory, Clean, Storage
    <3>4. CASE s = SlotOf[i] /\ (RemoveFiles(i) \/ RemoveDirectory(i))
      BY <2>1, <3>4 DEF RemoveFiles, RemoveDirectory, SlotInv, InstallerInv
    <3> QED
      BY <2>7, <3>1, <3>2, <3>3, <3>4
  <2>8. ASSUME NEW i \in Installers, WriteBlock(i)
        PROVE  dirty' = dirty /\ mem'.slot = mem.slot /\ mem'.prev = mem.prev
               /\ disk'.slot = disk.slot /\ disk'.prev = disk.prev
    BY <1>1, <2>8 DEF WriteBlock, Storage
  <2>9. CASE BackgroundBlock
    <3>1. dirty' = dirty /\ mem' = mem /\ disk'.slot = disk.slot /\ disk'.prev = disk.prev
      BY <1>1, <2>9 DEF BackgroundBlock, Storage
    <3> QED
      BY <2>2, <3>1 DEF Held, InMemory, Clean
  <2>10. CASE \E i \in Installers : Install(i)
    <3>1. PICK i \in Installers : Install(i)
      BY <2>10
    <3>2. CASE MoveAside(i) \/ Place(i) \/ RemoveFiles(i) \/ RemoveDirectory(i)
      BY <2>2, <2>7, <3>2 DEF Held
    <3>3. CASE WriteBlock(i)
      BY <2>2, <2>8, <3>3 DEF Held, InMemory, Clean
    <3>4. CASE SyncSlot(i) \/ SyncBoot(i)
      BY <2>3, <3>4 DEF SyncSlot, SyncBoot
    <3> QED
      BY <2>6, <3>1, <3>2, <3>3, <3>4 DEF Install, Unpack, CheckPrevious, OpenImage, Abort
  <2> QED
    BY <2>4, <2>5, <2>6, <2>9, <2>10 DEF Next, vars
<1> QED
  BY <1>2, <1>3

(* With its power losses and aborted runs, install_slot implements the      *)
(* atomic replacement of a release, for any number of slots and blocks.     *)
THEOREM ReplacementIsAtomic == ASSUME OnePerSlot PROVE Spec => AtomicReplacement
<1> DEFINE held == [s \in Slots |-> Held(s)]
<1>1. Init => SlotInv /\ WholeInv /\ Abstract!Init
  <2> SUFFICES ASSUME Init PROVE WholeInv /\ Abstract!Init
    BY InitSlotInv
  <2>1. WholeInv
    BY NamesAssumption DEF Init, WholeInv, Held
  <2>2. Abstract!Init
    BY HeldValue DEF Abstract!Init
  <2> QED
    BY <2>1, <2>2
<1>2. SlotInv /\ WholeInv /\ [Next]_vars => SlotInv' /\ WholeInv' /\ [Abstract!Replace]_held
  <2> SUFFICES ASSUME SlotInv, WholeInv, [Next]_vars
               PROVE  SlotInv' /\ WholeInv' /\ Abstract!Replace
    OBVIOUS
  <2>1. SlotInv' /\ WholeInv'
    BY NextSlotInv, NeverLost
  <2>2. \A s \in Slots : Held(s)' \in Versions \cup {None}
    BY NamesAssumption DEF Held
  <2>3. \A s \in Slots : Held(s)' # Held(s) => Held(s)' \in Versions
    BY <2>1, <2>2, NextSlotInv, NeverLost
  <2> QED
    BY <2>1, <2>2, <2>3 DEF Abstract!Replace
<1> QED
  BY <1>1, <1>2, PTL DEF Spec, AtomicReplacement, Abstract!Spec

-----------------------------------------------------------------------------
(* Before the first complete installation of a slot, a boot partition holds *)
(* nothing but blocks of the release beside it, unless there is a backup:   *)
(* so it is in memory, where a directory that has not been written back has *)
(* an empty partition, and so it is on the disk.                            *)
Blank(s, v) == \A b \in 1..Blocks : mem.esp[s][b] \in {None, v} /\ disk.esp[s][b] \in {None, v}

PartitionInv(s) ==
    done[s] = None =>
        /\ mem.prev[s] = None => Blank(s, mem.slot[s])
        /\ mem.prev[s] = None /\ ~ Clean("slot", s) => Blank(s, None)
        /\ disk.prev[s] = None => Blank(s, disk.slot[s])

LEMMA CommitPartition ==
    ASSUME SlotInv, NEW s \in Slots, PartitionInv(s), done'[s] = None => done[s] = None,
           mem' = mem, dirty' \subseteq dirty,
           disk'.slot[s] = (IF <<"slot", s>> \in dirty' THEN Torn ELSE mem.slot[s]),
           disk'.prev[s] = (IF <<"prev", s>> \in dirty' THEN Torn ELSE mem.prev[s]),
           disk'.esp[s] \in {disk.esp[s], mem.esp[s]}
    PROVE  PartitionInv(s)'
<1> SUFFICES ASSUME done[s] = None
             PROVE  /\ mem.prev[s] = None => Blank(s, mem.slot[s])'
                    /\ mem.prev[s] = None /\ <<"slot", s>> \in dirty' => Blank(s, None)'
                    /\ disk'.prev[s] = None => Blank(s, disk.slot[s])'
  BY DEF PartitionInv, Clean
<1>1. ASSUME mem.prev[s] = None
      PROVE  Blank(s, mem.slot[s])' /\ (<<"slot", s>> \in dirty' => Blank(s, None)')
  BY <1>1 DEF PartitionInv, Blank, Clean
<1>2. disk'.prev[s] = None => mem.prev[s] = None
  BY NamesAssumption
<1>3. ASSUME disk'.prev[s] = None PROVE Blank(s, disk.slot[s])'
  <2>1. CASE <<"slot", s>> \in dirty'
    BY <1>1, <1>2, <1>3, <2>1 DEF Blank
  <2>2. CASE <<"slot", s>> \notin dirty'
    BY <1>1, <1>2, <1>3, <2>2 DEF Blank
  <2> QED
    BY <2>1, <2>2
<1> QED
  BY <1>1, <1>3

LEMMA PartitionKeeps ==
    ASSUME SlotInv, SlotInv', [Next]_vars, NEW s \in Slots, PartitionInv(s)
    PROVE  PartitionInv(s)'
<1> USE NamesAssumption, SlotOfAssumption
<1>1. TypeOK /\ mem \in Storage /\ disk \in Storage
  BY DEF SlotInv, TypeOK
<1>2. done'[s] = None => done[s] = None
  BY DoneStays
<1>3. CASE Sync /\ mem' = mem
  BY <1>1, <1>2, <1>3, Synced, CommitPartition, ZenonT(30) DEF SlotInv
<1>4. CASE Background
  <2>1. PICK u \in SUBSET dirty : dirty' = u /\ disk' = Commit(u) /\ mem' = mem
    BY <1>4 DEF Background
  <2> QED
    BY <1>1, <1>2, <2>1, Committed, CommitPartition, ZenonT(60)
<1>5. CASE PowerLoss
  BY <1>5 DEF PowerLoss, PartitionInv, Blank, Clean
<1>6. CASE UNCHANGED <<dirty, disk, mem, done>>
  BY <1>6 DEF PartitionInv, Blank, Clean
<1>7. CASE BackgroundBlock
  <2>1. PICK t \in Slots, c \in 1..Blocks :
            disk' = [disk EXCEPT !.esp[t][c] = mem.esp[t][c]]
    BY <1>7, ZenonT(30) DEF BackgroundBlock
  <2>2. mem.esp[t][c] \in Versions \cup {None}
    <3>1. mem.esp \in [Slots -> [1..Blocks -> Versions \cup {None}]]
      BY <1>1 DEF Storage
    <3> QED
      BY <3>1, ZenonT(30)
  <2>3. disk'.slot = disk.slot /\ disk'.prev = disk.prev
        /\ disk'.esp = [disk.esp EXCEPT ![t] = [disk.esp[t] EXCEPT ![c] = mem.esp[t][c]]]
    BY <1>1, <2>1, <2>2, SetBlock
  <2>4. \A b \in 1..Blocks : disk'.esp[s][b] \in {disk.esp[s][b], mem.esp[s][b]}
    BY <1>1, <2>3 DEF Storage
  <2> QED
    BY <1>7, <2>3, <2>4 DEF BackgroundBlock, PartitionInv, Blank, Clean
<1>8. ASSUME NEW i \in Installers, MoveAside(i) \/ Place(i) \/ RemoveFiles(i) \/ RemoveDirectory(i)
      PROVE  PartitionInv(s)'
  <2>1. disk' = disk /\ mem'.esp = mem.esp /\ done' = done
    BY <1>1, <1>8 DEF MoveAside, Place, RemoveFiles, RemoveDirectory, Storage
  <2>2. CASE s # SlotOf[i]
    <3>1. /\ mem'.slot[s] = mem.slot[s] /\ mem'.prev[s] = mem.prev[s]
          /\ <<"slot", s>> \in dirty' => <<"slot", s>> \in dirty
      <4>1. CASE MoveAside(i)
        BY <1>1, <2>2, <4>1 DEF MoveAside, Storage
      <4>2. CASE Place(i)
        <5>1. mem'.slot[s] = mem.slot[s] /\ mem'.prev[s] = mem.prev[s]
          <6>1. mem' = mem \/ mem' = [mem EXCEPT !.slot[SlotOf[i]] = ver[i]]
            BY <4>2 DEF Place
          <6>2. SlotOf[i] \in Slots /\ ver[i] \in Content
            BY <1>1, <4>2, SlotOfAssumption DEF TypeOK, Content
          <6>3. mem'.prev = mem.prev
                /\ (mem'.slot = mem.slot \/ mem'.slot = [mem.slot EXCEPT ![SlotOf[i]] = ver[i]])
            <7>1. CASE mem' = mem
              BY <7>1
            <7>2. CASE mem' = [mem EXCEPT !.slot[SlotOf[i]] = ver[i]]
              <8> DEFINE n == [mem EXCEPT !.slot[SlotOf[i]] = ver[i]]
              <8>1. n.prev = mem.prev /\ n.slot = [mem.slot EXCEPT ![SlotOf[i]] = ver[i]]
                BY <1>1, <6>2, SetSlot
              <8>2. mem' = n
                BY <7>2
              <8> HIDE DEF n
              <8> QED
                BY <8>1, <8>2
            <7> QED
              BY <6>1, <7>1, <7>2
          <6>4. mem.slot \in [Slots -> Content]
            BY <1>1 DEF Storage
          <6> QED
            BY <2>2, <6>3, <6>4
        <5>2. <<"slot", s>> \in dirty' => <<"slot", s>> \in dirty
          BY <2>2, <4>2 DEF Place
        <5> QED
          BY <5>1, <5>2
      <4>3. CASE RemoveFiles(i) \/ RemoveDirectory(i)
        BY <1>1, <2>2, <4>3, SMTT(30) DEF RemoveFiles, RemoveDirectory, Storage
      <4> QED
        BY <1>8, <4>1, <4>2, <4>3
    <3> QED
      BY <2>1, <3>1 DEF PartitionInv, Blank, Clean
  <2>3. CASE s = SlotOf[i] /\ MoveAside(i)
    <3>1. CASE UNCHANGED <<mem, dirty>>
      BY <2>1, <3>1 DEF PartitionInv, Blank, Clean
    <3>2. CASE mem'.prev = [mem.prev EXCEPT ![s] = mem.slot[s]] /\ mem.slot[s] # None
      <4>1. mem'.prev[s] # None
        BY <1>1, <3>2 DEF Storage
      <4> QED
        BY <2>1, <4>1 DEF PartitionInv, Blank
    <3> QED
      BY <2>3, <3>1, <3>2 DEF MoveAside
  <2>4. CASE s = SlotOf[i] /\ Place(i)
    <3>1. CASE UNCHANGED <<mem, dirty>>
      BY <2>1, <3>1 DEF PartitionInv, Blank, Clean
    <3>2. CASE mem.slot[s] = None /\ mem' = [mem EXCEPT !.slot[s] = ver[i]]
      <4>1. mem'.prev = mem.prev
        BY <1>1, <3>2 DEF Storage
      <4> QED
        BY <2>1, <3>2, <4>1 DEF PartitionInv, Blank
    <3> QED
      BY <2>4, <3>1, <3>2 DEF Place
  <2>5. CASE s = SlotOf[i] /\ (RemoveFiles(i) \/ RemoveDirectory(i))
    BY <2>1, <2>5 DEF RemoveFiles, RemoveDirectory, SlotInv, InstallerInv, PartitionInv
  <2> QED
    BY <1>8, <2>2, <2>3, <2>4, <2>5
<1>9. ASSUME NEW i \in Installers, WriteBlock(i)
      PROVE  PartitionInv(s)'
  <2> DEFINE c == block[i] + 1
  <2>1. /\ mem'.slot = mem.slot /\ mem'.prev = mem.prev /\ dirty' = dirty /\ done' = done
        /\ disk'.slot = disk.slot /\ disk'.prev = disk.prev
        /\ mem'.esp = [mem.esp EXCEPT ![SlotOf[i]] = [mem.esp[SlotOf[i]] EXCEPT ![c] = ver[i]]]
        /\ \/ disk' = disk
           \/ disk'.esp = [disk.esp EXCEPT ![SlotOf[i]] = mem'.esp[SlotOf[i]]]
    BY <1>9, WriteBlockEffect, ZenonT(30) DEF WriteBlock
  <2>2. DOMAIN mem.esp = Slots /\ DOMAIN disk.esp = Slots /\ DOMAIN mem.esp[s] = 1..Blocks
    BY <1>1 DEF Storage
  <2>3. CASE s # SlotOf[i]
    <3>1. mem'.esp[s] = mem.esp[s] /\ disk'.esp[s] = disk.esp[s]
      BY <2>1, <2>2, <2>3
    <3> QED
      BY <2>1, <3>1 DEF PartitionInv, Blank, Clean
  <2>4. CASE s = SlotOf[i]
    <3>1. pc[i] = "dd" /\ mem.slot[s] = ver[i] /\ disk.slot[s] = ver[i] /\ Clean("slot", s)
      BY <1>9, <2>4 DEF WriteBlock, SlotInv, InstallerInv, Replacing, Writing
    <3>2. \A b \in 1..Blocks : mem'.esp[s][b] \in {mem.esp[s][b], ver[i]}
      BY <2>1, <2>2, <2>4
    <3>3. \A b \in 1..Blocks : disk'.esp[s][b] \in {disk.esp[s][b], mem.esp[s][b], ver[i]}
      <4>1. disk'.esp[s] = disk.esp[s] \/ disk'.esp[s] = mem'.esp[s]
        BY <2>1, <2>2, <2>4
      <4> QED
        BY <3>2, <4>1
    <3>4. ASSUME NEW v, Blank(s, v), v = ver[i] PROVE Blank(s, v)'
      BY <3>2, <3>3, <3>4 DEF Blank
    <3> QED
      BY <2>1, <3>1, <3>4 DEF PartitionInv, Clean
  <2> QED
    BY <2>3, <2>4
<1>10. CASE \E i \in Installers : Install(i)
  BY <1>3, <1>6, <1>8, <1>9, <1>10 DEF Install, SyncSlot, SyncBoot, Unpack, CheckPrevious,
     OpenImage, Abort
<1> QED
  BY <1>4, <1>5, <1>6, <1>7, <1>10 DEF Next, vars

-----------------------------------------------------------------------------
(* Inductive, for the machine around the slots: what starts it finds the    *)
(* disk as it is and no installer at work; a mixture has a backup, and an   *)
(* installer on its slot does not get past the check for it.                *)
CycleInv ==
    /\ SlotInv /\ \A s \in Slots : PartitionInv(s)
    /\ slot \in Slots /\ left \in Seq(Slots) /\ order \in Seq(Slots)
    /\ bootNext \in Slots \cup {None}
    /\ Up \/ (mem = disk /\ dirty = {} /\ pc = [i \in Installers |-> "idle"])
    /\ machine = "kernel" =>
          running # None /\ \E b \in 1..Blocks : running = mem.esp[slot][b]
    /\ MixtureIsVisible
    /\ Up /\ root # running =>
          \A i \in Installers : SlotOf[i] = slot => pc[i] \in {"idle", "staged"}

(* Reboot is a sync and the end of the commands.                            *)
LEMMA RebootStep ==
    ASSUME SlotInv, \A s \in Slots : PartitionInv(s), Reboot
    PROVE  SlotInv' /\ \A s \in Slots : PartitionInv(s)'
<1> USE NamesAssumption, SlotOfAssumption, BlocksAssumption
<1>1. TypeOK /\ mem \in Storage /\ disk \in Storage
  BY DEF SlotInv, TypeOK
<1>2. /\ disk' = mem /\ dirty' = {} /\ mem' = mem /\ pc' = [i \in Installers |-> "idle"]
      /\ UNCHANGED <<ver, block, image, done>>
  BY <1>1, Synced DEF Reboot
<1>3. TypeOK'
  BY <1>1, <1>2 DEF TypeOK, Steps
<1>4. \A i \in Installers : InstallerInv(i)'
  BY <1>2 DEF InstallerInv, Replacing, Writing
<1>5. \A s \in Slots : StorageInv(s)'
  BY <1>2, ZenonT(30) DEF SlotInv, StorageInv, Clean
<1>6. \A s \in Slots : PartitionInv(s)'
  BY <1>1, <1>2, CommitPartition
<1> QED
  BY <1>3, <1>4, <1>5, <1>6 DEF SlotInv

(* An installer that would touch the slot of a mixture stops at its check.  *)
LEMMA WorkStep ==
    ASSUME CycleInv, OnePerSlot, Work PROVE CycleInv'
<1> USE NamesAssumption, SlotOfAssumption
<1>1. Up /\ [Next]_vars /\ UNCHANGED boot /\ mem \in Storage
  BY DEF Work, Next, CycleInv, SlotInv, TypeOK
<1>2. SlotInv' /\ \A s \in Slots : PartitionInv(s)'
  BY <1>1, NextSlotInv, PartitionKeeps DEF CycleInv
<1>3. ASSUME root # running
      PROVE  /\ mem'.prev[slot] = mem.prev[slot]
             /\ \A i \in Installers : SlotOf[i] = slot => pc'[i] \in {"idle", "staged"}
  <2>1. /\ mem.prev[slot] # None /\ slot \in Slots /\ DOMAIN pc = Installers
        /\ \A i \in Installers : SlotOf[i] = slot => pc[i] \in {"idle", "staged"}
    BY <1>1, <1>3 DEF CycleInv, MixtureIsVisible, SlotInv, TypeOK
  <2>2. CASE Background \/ BackgroundBlock
    BY <2>1, <2>2 DEF Background, BackgroundBlock
  <2>3. ASSUME NEW i \in Installers, Install(i), SlotOf[i] = slot
        PROVE  mem' = mem /\ pc' \in {[pc EXCEPT ![i] = "idle"], [pc EXCEPT ![i] = "staged"]}
    BY <2>1, <2>3, SMTT(30) DEF Install, Unpack, CheckPrevious, MoveAside, Place, SyncSlot, OpenImage,
       WriteBlock, SyncBoot, RemoveFiles, RemoveDirectory, Abort
  <2>4. ASSUME NEW i \in Installers, Install(i), SlotOf[i] # slot
        PROVE  /\ mem'.prev[slot] = mem.prev[slot]
               /\ \A j \in Installers \ {i} : pc'[j] = pc[j]
    <3>1. \A j \in Installers \ {i} : pc'[j] = pc[j]
      BY <2>1, <2>4 DEF Install, Unpack, CheckPrevious, MoveAside, Place, SyncSlot, OpenImage,
         WriteBlock, SyncBoot, RemoveFiles, RemoveDirectory, Abort
    <3>2. CASE MoveAside(i) \/ Place(i)
      BY <1>1, <2>1, <2>4, <3>2 DEF MoveAside, Place, Storage
    <3>3. CASE RemoveFiles(i) \/ RemoveDirectory(i)
      BY <1>1, <2>1, <2>4, <3>3 DEF RemoveFiles, RemoveDirectory, Storage
    <3>4. CASE WriteBlock(i)
      BY <3>1, <3>4, WriteBlockEffect, ZenonT(30) DEF CycleInv
    <3> QED
      BY <2>4, <3>1, <3>2, <3>3, <3>4 DEF Install, Unpack, CheckPrevious, SyncSlot, OpenImage,
         SyncBoot, Abort
  <2>5. CASE \E i \in Installers : Install(i)
    <3>1. PICK i \in Installers : Install(i)
      BY <2>5
    <3>2. CASE SlotOf[i] = slot
      BY <2>1, <2>3, <3>1, <3>2
    <3>3. CASE SlotOf[i] # slot
      BY <2>1, <2>4, <3>1, <3>3
    <3> QED
      BY <3>2, <3>3
  <2> QED
    BY <2>2, <2>5 DEF Work
<1> QED
  BY <1>1, <1>2, <1>3 DEF CycleInv, MixtureIsVisible, Up, boot
LEMMA CycleInitInv == CycleInit => CycleInv
<1> SUFFICES ASSUME CycleInit PROVE CycleInv
  OBVIOUS
<1> USE NamesAssumption
<1>1. SlotInv
  BY InitSlotInv DEF CycleInit
<1>2. \A s \in Slots : PartitionInv(s)
  <2> SUFFICES ASSUME NEW s \in Slots, done[s] = None
               PROVE  Blank(s, None) /\ mem.slot[s] = None /\ disk.slot[s] = None
    BY DEF PartitionInv
  <2> QED
    BY DEF CycleInit, Init, Blank, Whole
<1>3. order \in Seq(Slots)
  <2>1. order \in [1..Cardinality(Slots) -> Slots]
    BY DEF CycleInit, Bijection, Injection
  <2> QED
    BY <2>1, SlotsAssumption
<1> QED
  BY <1>1, <1>2, <1>3 DEF CycleInit, CycleInv, MixtureIsVisible, Up

(* A kernel from a partition without a backup finds its own release: with   *)
(* a complete installation by StorageInv, and without one by PartitionInv.  *)
LEMMA Pid1Step == ASSUME CycleInv, OnePerSlot, Pid1Starts PROVE CycleInv'
<1> USE NamesAssumption, BlocksAssumption
<1>1. /\ UNCHANGED <<vars, verified, order, bootNext, left, slot, running>>
      /\ machine = "kernel" /\ machine' = "up" /\ root' = mem.slot[slot] /\ HasImages
  BY DEF Pid1Starts
<1>2. SlotInv' /\ \A s \in Slots : PartitionInv(s)'
  BY <1>1, NextSlotInv, PartitionKeeps DEF CycleInv
<1>3. mem = disk /\ pc = [i \in Installers |-> "idle"] /\ slot \in Slots
  BY <1>1 DEF CycleInv, Up
<1>4. PICK b \in 1..Blocks : running = mem.esp[slot][b] /\ running # None
  BY <1>1 DEF CycleInv
<1>5. ASSUME mem.prev[slot] = None PROVE mem.slot[slot] = running
  <2>1. CASE done[slot] # None
    <3>1. mem.slot[slot] = done[slot] /\ mem.esp[slot] = Whole(done[slot])
      BY <1>3, <1>5, <2>1 DEF CycleInv, SlotInv, StorageInv
    <3> QED
      BY <1>4, <3>1 DEF Whole
  <2>2. CASE done[slot] = None
    BY <1>3, <1>4, <1>5, <2>2 DEF CycleInv, PartitionInv, Blank
  <2> QED
    BY <2>1, <2>2
<1>6. MixtureIsVisible'
  BY <1>1, <1>5 DEF MixtureIsVisible, HasImages, vars
<1> QED
  BY <1>1, <1>2, <1>3, <1>6 DEF CycleInv, Up, vars

LEMMA CycleStep == ASSUME CycleInv, OnePerSlot, [CycleNext]_cycle PROVE CycleInv'
<1> USE NamesAssumption, BlocksAssumption
<1>1. ASSUME UNCHANGED vars PROVE SlotInv' /\ \A s \in Slots : PartitionInv(s)'
  BY <1>1, NextSlotInv, PartitionKeeps DEF CycleInv
<1>2. CASE Reboot
  <2>1. SlotInv' /\ \A s \in Slots : PartitionInv(s)'
    BY <1>2, RebootStep DEF CycleInv
  <2>2. disk' = mem /\ dirty' = {}
    BY <1>2, Synced DEF Reboot, CycleInv, SlotInv, TypeOK
  <2>3. /\ machine' = "off" /\ left' = <<>> /\ mem' = mem
        /\ UNCHANGED <<order, bootNext, slot>> /\ pc' = [i \in Installers |-> "idle"]
    BY <1>2 DEF Reboot, Restart
  <2>4. <<>> \in Seq(Slots)
    OBVIOUS
  <2> QED
    BY <2>1, <2>2, <2>3, <2>4 DEF CycleInv, MixtureIsVisible, Up
<1>3. CASE Unplug
  <2>1. SlotInv' /\ \A s \in Slots : PartitionInv(s)'
    BY <1>3, NextSlotInv, PartitionKeeps DEF CycleInv, Unplug, Next
  <2> QED
    BY <1>3, <2>1, SMTT(30) DEF CycleInv, Unplug, PowerLoss, Restart, MixtureIsVisible, Up
<1>4. CASE AlternateNext
  BY <1>1, <1>4 DEF AlternateNext, CycleInv, MixtureIsVisible, Up, vars
<1>5. CASE PowerOn
  <2>1. left' \in Seq(Slots)
    BY <1>5, SMTT(90) DEF PowerOn, CycleInv
  <2> QED
    BY <1>1, <1>5, <2>1 DEF PowerOn, CycleInv, MixtureIsVisible, Up, vars
<1>6. CASE SkipEntry \/ StartEntry
  <2>1. left' \in Seq(Slots) /\ slot' \in Slots
    <3>1. left \in Seq(Slots) /\ left # <<>> /\ slot \in Slots
      BY <1>6 DEF SkipEntry, StartEntry, CycleInv
    <3>2. Head(left) \in Slots /\ Tail(left) \in Seq(Slots) /\ <<>> \in Seq(Slots)
      BY <3>1
    <3> QED
      BY <1>6, <3>1, <3>2, ZenonT(30) DEF SkipEntry, StartEntry
  <2> QED
    BY <1>1, <1>6, <2>1 DEF SkipEntry, StartEntry, CycleInv, MixtureIsVisible, Up, vars
<1>7. CASE LoaderStarts \/ LoaderResets
  BY <1>1, <1>7, ZenonT(30) DEF LoaderStarts, LoaderResets, CycleInv, MixtureIsVisible, Up, vars
<1>8. CASE Pid1Fails
  <2>1. /\ UNCHANGED <<vars, order, bootNext, slot>> /\ machine' \notin {"up", "kernel"}
        /\ left' \in {left, <<>>}
    BY <1>8 DEF Pid1Fails, Restart
  <2>2. mem = disk /\ dirty = {} /\ pc = [i \in Installers |-> "idle"]
    BY <1>8 DEF Pid1Fails, CycleInv, Up
  <2>3. left' \in Seq(Slots)
    <3>1. left \in Seq(Slots) /\ <<>> \in Seq(Slots)
      BY DEF CycleInv
    <3> QED
      BY <2>1, <3>1, ZenonT(30)
  <2>4. SlotInv' /\ \A s \in Slots : PartitionInv(s)'
    BY <1>1, <2>1
  <2>5. /\ slot' \in Slots /\ order' \in Seq(Slots) /\ bootNext' \in Slots \cup {None}
        /\ mem' = disk' /\ dirty' = {} /\ pc' = [i \in Installers |-> "idle"]
    BY <2>1, <2>2 DEF CycleInv, vars
  <2> QED
    BY <2>1, <2>3, <2>4, <2>5, ZenonT(30) DEF CycleInv, MixtureIsVisible, Up
<1>9. CASE UNCHANGED cycle
  BY <1>1, <1>9 DEF cycle, boot, CycleInv, MixtureIsVisible, Up, vars
<1> QED
  BY <1>2, <1>3, <1>4, <1>5, <1>6, <1>7, <1>8, <1>9, WorkStep, Pid1Step DEF CycleNext

LEMMA CycleInvariant == ASSUME OnePerSlot PROVE CycleSpec => []CycleInv
<1>1. CycleInv /\ [CycleNext]_cycle => CycleInv'
  BY CycleStep
<1> QED
  BY <1>1, CycleInitInv, PTL DEF CycleSpec

(* Wherever an installation was interrupted and whichever slot is started   *)
(* after it, a kernel that runs on the files of another release has the     *)
(* backup of its slot beside it, and that release has the same kernel:      *)
(* install_slot syncs the backup before dd, mount_host_images wants the     *)
(* modules of the running kernel.                                           *)
THEOREM MixtureVisible == ASSUME OnePerSlot PROVE CycleSpec => []MixtureIsVisible
<1>1. CycleInv => MixtureIsVisible
  BY DEF CycleInv
<1> QED
  BY <1>1, CycleInvariant, PTL

(* What install_slot promises of the disk also holds in the machine around  *)
(* it: neither a reboot in the middle of a command nor what the firmware,   *)
(* the loader and PID 1 make of the slots takes the last complete release   *)
(* away, or hides an interrupted upgrade from the next install_slot.        *)
THEOREM CycleKeepsRelease ==
    ASSUME OnePerSlot PROVE CycleSpec => [](SlotInv /\ Recoverable /\ InterruptionIsVisible)
<1>1. CycleInv => SlotInv /\ Recoverable /\ InterruptionIsVisible
  BY ZenonT(30) DEF CycleInv, SlotInv, StorageInv, Recoverable, InterruptionIsVisible
<1> QED
  BY <1>1, CycleInvariant, PTL

(* A step of the machine is one of install_slot or of its storage, or the   *)
(* reboot, or leaves both alone.                                            *)
LEMMA CycleIsWork == ASSUME [CycleNext]_cycle PROVE [Next]_vars \/ Reboot
<1>1. CASE Work \/ Unplug
  BY <1>1 DEF Work, Unplug, Next
<1>2. CASE Reboot
  BY <1>2
<1>3. CASE AlternateNext \/ PowerOn \/ SkipEntry \/ StartEntry \/ LoaderStarts \/ LoaderResets
              \/ Pid1Starts \/ Pid1Fails \/ UNCHANGED cycle
  BY <1>3, ZenonT(30) DEF AlternateNext, PowerOn, SkipEntry, StartEntry, LoaderStarts, LoaderResets,
     Pid1Starts, Pid1Fails, cycle
<1> QED
  BY <1>1, <1>2, <1>3 DEF CycleNext

(* The refinement survives the reboots too: around install_slot, the        *)
(* machine only ever replaces the release that a slot holds by a whole one. *)
THEOREM CycleReplacesAtomically == ASSUME OnePerSlot PROVE CycleSpec => AtomicReplacement
<1> DEFINE held == [s \in Slots |-> Held(s)]
<1>1. CycleInit => WholeInv /\ Abstract!Init
  <2> SUFFICES ASSUME Init PROVE WholeInv /\ Abstract!Init
    BY DEF CycleInit
  <2>1. WholeInv
    BY NamesAssumption DEF Init, WholeInv, Held
  <2>2. Abstract!Init
    BY HeldValue DEF Abstract!Init
  <2> QED
    BY <2>1, <2>2
<1>2. ASSUME CycleInv, CycleInv', WholeInv, [CycleNext]_cycle
      PROVE  WholeInv' /\ \A s \in Slots : Held(s) # None => Held(s)' # None
  <2>1. CASE [Next]_vars
    BY <1>2, <2>1, NeverLost, ZenonT(30) DEF CycleInv
  <2>2. CASE Reboot
    <3> SUFFICES ASSUME NEW s \in Slots
                 PROVE  /\ done'[s] = None /\ Held(s)' # None => InMemory(s)'
                        /\ Held(s) # None => Held(s)' # None
      BY DEF WholeInv
    <3>1. TypeOK /\ done' = done /\ mem' = mem /\ dirty' = {} /\ {} \subseteq dirty
      BY <1>2, <2>2 DEF Reboot, Sync, CycleInv, SlotInv
    <3>2. disk' = mem
      BY <2>2, <3>1, Synced DEF Reboot, TypeOK
    <3>3. (InMemory(s) => Held(s)' # None) /\ (Held(s)' # None => InMemory(s)')
      BY <3>1, <3>2, NamesAssumption DEF InMemory, Held, Clean
    <3>4. CASE done[s] # None
      <4>1. done'[s] \in Versions /\ done'[s] \in {disk'.slot[s], disk'.prev[s]}
        BY <1>2, <3>1, <3>4, ZenonT(30) DEF CycleInv, SlotInv, TypeOK, StorageInv
      <4> QED
        BY <3>3, <4>1, NamesAssumption DEF Held
    <3>5. CASE done[s] = None
      BY <1>2, <3>3, <3>5, ZenonT(30) DEF WholeInv
    <3> QED
      BY <3>4, <3>5
  <2> QED
    BY <1>2, <2>1, <2>2, CycleIsWork
<1>3. CycleInv /\ CycleInv' /\ WholeInv /\ [CycleNext]_cycle => WholeInv' /\ [Abstract!Replace]_held
  <2> SUFFICES ASSUME CycleInv, CycleInv', WholeInv, [CycleNext]_cycle
               PROVE  WholeInv' /\ Abstract!Replace
    OBVIOUS
  <2>1. \A s \in Slots : Held(s)' \in Versions \cup {None}
    BY NamesAssumption DEF Held
  <2>2. \A s \in Slots : Held(s)' # Held(s) => Held(s)' \in Versions
    BY <1>2, <2>1
  <2> QED
    BY <1>2, <2>1, <2>2 DEF Abstract!Replace
<1> QED
  BY <1>1, <1>3, CycleInvariant, PTL DEF CycleSpec, AtomicReplacement, Abstract!Spec

-----------------------------------------------------------------------------
(* A slot that no installer works on, and that holds a release, has no      *)
(* backup; by StorageInv, slot and partition are then whole.                *)
Untouched(s) == done[s] # None /\ \A i \in Installers : SlotOf[i] # s

UntouchedInv == \A s \in Slots : Untouched(s) => mem.prev[s] = None /\ disk.prev[s] = None

LEMMA UntouchedKeeps ==
    ASSUME CycleInv, UntouchedInv, [CycleNext]_cycle PROVE UntouchedInv'
<1> USE SlotOfAssumption, NamesAssumption
<1> SUFFICES ASSUME NEW s \in Slots, Untouched(s)'
             PROVE  mem'.prev[s] = None /\ disk'.prev[s] = None
  BY DEF UntouchedInv
<1>1. TypeOK /\ mem \in Storage /\ disk \in Storage /\ DOMAIN done = Slots
      /\ \A i \in Installers : SlotOf[i] # s
  BY DEF CycleInv, SlotInv, TypeOK, Untouched
<1>2. CASE Reboot
  <2>1. done' = done /\ mem' = mem /\ disk' = mem
    BY <1>1, <1>2, Synced DEF Reboot
  <2> QED
    BY <2>1 DEF UntouchedInv, Untouched
<1>3. CASE [Next]_vars
  <2>1. done'[s] = done[s]
    <3>1. done' = done \/ \E i \in Installers : done' = [done EXCEPT ![SlotOf[i]] = ver[i]]
      BY <1>3, ZenonT(30) DEF Next, Install, Unpack, CheckPrevious, MoveAside, Place, SyncSlot, OpenImage,
         WriteBlock, SyncBoot, RemoveFiles, RemoveDirectory, Abort, Background, BackgroundBlock,
         PowerLoss, vars
    <3> QED
      BY <1>1, <3>1
  <2>2. mem.prev[s] = None /\ disk.prev[s] = None /\ <<"prev", s>> \notin dirty
    BY <2>1, ZenonT(30) DEF UntouchedInv, Untouched, CycleInv, SlotInv, StorageInv, Clean
  <2>3. CASE Sync /\ mem' = mem
    BY <1>1, <2>2, <2>3, Synced, ZenonT(30)
  <2>4. CASE Background
    <3>1. PICK u \in SUBSET dirty : dirty' = u /\ disk' = Commit(u) /\ mem' = mem
      BY <2>4 DEF Background
    <3>2. disk'.prev[s] = IF <<"prev", s>> \in u THEN Torn ELSE mem.prev[s]
      <4>1. Commit(u).prev[s] = IF <<"prev", s>> \in u THEN Torn ELSE mem.prev[s]
        BY <1>1, Committed, ZenonT(30)
      <4> QED
        BY <3>1, <4>1
    <3> QED
      BY <2>2, <3>1, <3>2
  <2>5. CASE PowerLoss
    BY <2>2, <2>5 DEF PowerLoss
  <2>6. CASE BackgroundBlock
    BY <1>1, <2>2, <2>6 DEF BackgroundBlock, Storage
  <2>7. ASSUME NEW i \in Installers, Install(i) PROVE mem'.prev[s] = None /\ disk'.prev[s] = None
    <3>1. CASE MoveAside(i) \/ Place(i)
      BY <1>1, <2>2, <3>1 DEF MoveAside, Place, Storage
    <3>2. CASE RemoveFiles(i) \/ RemoveDirectory(i)
      BY <1>1, <2>2, <3>2 DEF RemoveFiles, RemoveDirectory, Storage
    <3>3. CASE WriteBlock(i)
      BY <1>1, <2>2, <3>3, ZenonT(30) DEF WriteBlock, Storage
    <3>4. CASE SyncSlot(i) \/ SyncBoot(i)
      BY <2>3, <3>4 DEF SyncSlot, SyncBoot
    <3> QED
      BY <2>2, <2>7, <3>1, <3>2, <3>3, <3>4, ZenonT(30) DEF Install, Unpack, CheckPrevious, OpenImage, Abort
  <2> QED
    BY <1>3, <2>2, <2>4, <2>5, <2>6, <2>7 DEF Next, vars
<1> QED
  BY <1>2, <1>3, CycleIsWork

(* What the starting machine finds there.                                   *)
LEMMA UntouchedIsWhole ==
    ASSUME CycleInv, UntouchedInv, NEW s \in Slots, Untouched(s)
    PROVE  /\ done[s] \in Versions /\ mem.slot[s] = done[s] /\ mem.esp[s] = Whole(done[s])
           /\ machine = "kernel" /\ slot = s => running = done[s]
<1>1. done[s] \in Versions /\ mem.slot[s] = done[s] /\ mem.esp[s] = Whole(done[s])
  BY NamesAssumption, ZenonT(30) DEF UntouchedInv, Untouched, CycleInv, SlotInv, TypeOK, StorageInv
<1> QED
  BY <1>1, ZenonT(30) DEF CycleInv, Whole

(* A slot that nothing is installed in goes on starting, whatever is        *)
(* installed in, and interrupted in, the other one: the boot manager does   *)
(* not skip it, the loader does not reset on it, PID 1 does not fail on it  *)
(* and mounts the release of the kernel.  It is the safety of ComesBack.    *)
UntouchedStarts ==
    [][\A s \in Slots : Untouched(s) =>
          /\ SkipEntry => Head(left) # s
          /\ LoaderResets \/ Pid1Fails => slot # s
          /\ Pid1Starts /\ slot = s => running = done[s] /\ root' = done[s]]_cycle

(* install_slot only touches its own slot and partition, so the firmware,   *)
(* load_kernel and cmd_boot find the other one as it was.                   *)
THEOREM UntouchedSlotStarts == ASSUME OnePerSlot PROVE CycleSpec => UntouchedStarts
<1> DEFINE Starts(s) == /\ SkipEntry => Head(left) # s
                        /\ LoaderResets \/ Pid1Fails => slot # s
                        /\ Pid1Starts /\ slot = s => running = done[s] /\ root' = done[s]
<1>1. CycleInit => UntouchedInv
  BY DEF CycleInit, Init, UntouchedInv
<1>2. CycleInv /\ UntouchedInv /\ [CycleNext]_cycle => UntouchedInv'
  BY UntouchedKeeps
<1>3. ASSUME CycleInv, UntouchedInv, NEW s \in Slots, Untouched(s) PROVE Starts(s)
  <2>1. /\ done[s] \in Versions /\ mem.slot[s] = done[s] /\ mem.esp[s] = Whole(done[s])
        /\ machine = "kernel" /\ slot = s => running = done[s]
    BY <1>3, UntouchedIsWhole
  <2>2. SkipEntry => Head(left) # s
    BY <2>1 DEF SkipEntry
  <2>3. LoaderResets => slot # s
    BY <2>1 DEF LoaderResets
  <2>4. Pid1Fails => slot # s
    BY <2>1, NamesAssumption DEF Pid1Fails, HasImages
  <2>5. Pid1Starts /\ slot = s => running = done[s] /\ root' = done[s]
    BY <2>1 DEF Pid1Starts
  <2> QED
    BY <2>2, <2>3, <2>4, <2>5
<1>4. CycleInv /\ UntouchedInv => \A s \in Slots : Untouched(s) => Starts(s)
  BY <1>3
<1> HIDE DEF Starts
<1>5. CycleSpec => [](CycleInv /\ UntouchedInv)
  BY <1>1, <1>2, CycleInvariant, PTL DEF CycleSpec
<1>6. CycleInv /\ UntouchedInv => [\A s \in Slots : Untouched(s) => Starts(s)]_cycle
  BY <1>4
<1> QED
  BY <1>5, <1>6, PTL DEF UntouchedStarts, Starts

-----------------------------------------------------------------------------
(* How far the machine is from running again: the slot of BootNext comes    *)
(* first, if there is one, and then the default slot.                       *)
Default == Head(order)

Distance ==
    CASE machine \in {"off", "reset"} /\ bootNext # None -> 8
      [] machine = "firmware" /\ left # order -> 7
      [] machine = "loader" /\ slot # Default -> 6
      [] machine = "kernel" /\ slot # Default -> 5
      [] machine \in {"off", "reset"} /\ bootNext = None -> 4
      [] machine = "firmware" /\ left = order -> 3
      [] machine = "loader" /\ slot = Default -> 2
      [] machine = "kernel" /\ slot = Default -> 1
      [] OTHER -> 0

(* If nothing is installed in the default slot, then whatever the firmware, *)
(* the loader and PID 1 do after a restart brings the machine nearer to     *)
(* running again (or to the recovery shell): it takes them at most eight    *)
(* steps, in whatever state the slot of BootNext is.                        *)
StartsInSteps == [][Starting => Distance' \in 0..(Distance - 1)]_cycle

(* BootNext is cleared before an entry is tried.                            *)
StartingInv ==
    /\ order \in Seq(Slots) /\ order # <<>> /\ Untouched(Default)
    /\ machine \in {"firmware", "loader", "kernel"} => bootNext = None
    /\ machine = "firmware" => left = order \/ \E s \in Slots : left = <<s>> \o order

LEMMA EntryBefore ==
    ASSUME NEW s \in Slots, NEW q \in Seq(Slots)
    PROVE  /\ Head(<<s>> \o q) = s /\ Tail(<<s>> \o q) = q
           /\ <<s>> \o q # q /\ <<s>> \o q # <<>>
<1> DEFINE t == <<s>> \o q
<1>1. /\ t \in Seq(Slots) /\ Len(t) = Len(q) + 1 /\ t[1] = s
      /\ \A k \in 1..Len(q) : t[k + 1] = q[k]
  OBVIOUS
<1> HIDE DEF t
<1>2. Tail(t) \in Seq(Slots) /\ Len(Tail(t)) = Len(q) /\ \A k \in 1..Len(q) : Tail(t)[k] = q[k]
  BY <1>1
<1>3. Tail(t) = q
  BY <1>2
<1>4. Head(t) = s /\ t # q /\ t # <<>>
  BY <1>1
<1> QED
  BY <1>3, <1>4, ZenonT(30) DEF t

LEMMA StartingStep ==
    ASSUME CycleInv, UntouchedInv, StartingInv, [CycleNext]_cycle
    PROVE  StartingInv' /\ (Starting => Distance' \in 0..(Distance - 1))
<1>0. Default \in Slots /\ Untouched(Default) /\ order \in Seq(Slots)
  BY DEF StartingInv, Default
<1>1. Untouched(Default)' /\ order' = order
  <2>1. order' = order
    BY ZenonT(30) DEF CycleNext, Work, AlternateNext, Reboot, Unplug, Restart, PowerOn, SkipEntry, StartEntry,
       LoaderStarts, LoaderResets, Pid1Starts, Pid1Fails, cycle, boot
  <2>2. done'[Default] # None
    <3>1. CASE Reboot
      BY <1>0, <3>1 DEF Reboot, Untouched
    <3>2. CASE [Next]_vars
      BY <1>0, <3>2, DoneStays, ZenonT(30) DEF CycleInv, Untouched
    <3> QED
      BY <3>1, <3>2, CycleIsWork
  <2> QED
    BY <1>0, <2>1, <2>2 DEF Untouched, Default
<1>2. CASE PowerOn
  <2>1. /\ machine \in {"off", "reset"} /\ machine' = "firmware" /\ bootNext' = None
        /\ left' = IF bootNext = None THEN order ELSE <<bootNext>> \o order
        /\ bootNext \in Slots \cup {None}
    BY <1>2 DEF PowerOn, CycleInv
  <2>2. CASE bootNext = None
    BY <1>0, <1>1, <2>1, <2>2 DEF StartingInv, Distance, Default
  <2>3. CASE bootNext # None
    <3>1. left' # order /\ \E s \in Slots : left' = <<s>> \o order
      BY <1>0, <2>1, <2>3, EntryBefore, ZenonT(30)
    <3> QED
      BY <1>0, <1>1, <2>1, <2>3, <3>1 DEF StartingInv, Distance, Default
  <2> QED
    BY <2>2, <2>3
<1>3. CASE SkipEntry
  <2>1. /\ machine = "firmware" /\ machine' = machine /\ left' = Tail(left)
        /\ bootNext' = bootNext /\ slot' = slot
    BY <1>3 DEF SkipEntry
  <2>2. Head(left) # Default
    BY <1>0, <1>3, UntouchedIsWhole DEF SkipEntry
  <2>3. left # order /\ left' = order
    BY <1>0, <2>1, <2>2, EntryBefore, ZenonT(30) DEF StartingInv, Default
  <2> QED
    BY <1>0, <1>1, <2>1, <2>3 DEF StartingInv, Distance, Default
<1>4. CASE StartEntry
  <2>1. /\ machine = "firmware" /\ machine' = "loader" /\ slot' = Head(left)
        /\ bootNext' = bootNext
    BY <1>4 DEF StartEntry
  <2>2. CASE left = order
    BY <1>0, <1>1, <2>1, <2>2 DEF StartingInv, Distance, Default
  <2>3. CASE left # order
    BY <1>0, <1>1, <2>1, <2>3 DEF StartingInv, Distance, Default
  <2> QED
    BY <2>2, <2>3
<1>5. CASE LoaderStarts
  BY <1>0, <1>1, <1>5 DEF LoaderStarts, StartingInv, Distance, Default
<1>6. CASE LoaderResets
  <2>1. slot # Default
    BY <1>0, <1>6, UntouchedIsWhole DEF LoaderResets
  <2> QED
    BY <1>0, <1>1, <1>6, <2>1 DEF LoaderResets, StartingInv, Distance, Default
<1>7. CASE Pid1Starts
  BY <1>0, <1>1, <1>7 DEF Pid1Starts, StartingInv, Distance, Default
<1>8. CASE Pid1Fails
  <2>1. slot # Default
    BY <1>0, <1>8, UntouchedIsWhole, NamesAssumption DEF Pid1Fails, HasImages
  <2>2. machine = "kernel" /\ machine' \in {"off", "recovery"} /\ bootNext' = bootNext
    BY <1>8 DEF Pid1Fails, Restart
  <2> QED
    BY <1>0, <1>1, <2>1, <2>2 DEF StartingInv, Distance, Default
<1>9. ASSUME Work \/ AlternateNext \/ Reboot \/ Unplug \/ UNCHANGED cycle
      PROVE  StartingInv'
  <2>1. \/ machine' \in {"up", "off"}
        \/ UNCHANGED <<machine, bootNext, left>>
    BY <1>9 DEF Work, AlternateNext, Reboot, Unplug, Restart, Up, cycle, boot
  <2> QED
    BY <1>0, <1>1, <2>1, ZenonT(30) DEF StartingInv, Default
<1>10. CASE Starting
  BY <1>2, <1>3, <1>4, <1>5, <1>6, <1>7, <1>8, <1>10 DEF Starting
<1> QED
  BY <1>2, <1>3, <1>4, <1>5, <1>6, <1>7, <1>8, <1>9, <1>10 DEF CycleNext

(* The safety of ComesBack: PowerOn tries BootNext once, and the default    *)
(* slot always starts.                                                      *)
THEOREM MachineStartsInSteps ==
    ASSUME OnePerSlot PROVE CycleSpec /\ Untouched(Default) => StartsInSteps
<1>1. CycleInit => UntouchedInv
  BY DEF CycleInit, Init, UntouchedInv
<1>2. CycleInit /\ Untouched(Default) => StartingInv
  <2> SUFFICES ASSUME CycleInit, Untouched(Default) PROVE order # <<>> /\ order \in Seq(Slots)
    BY DEF StartingInv, CycleInit
  <2>1. order \in Seq(Slots)
    BY CycleInitInv DEF CycleInv
  <2>2. \E k \in 1..Cardinality(Slots) : order[k] = slot
    BY DEF CycleInit, Bijection, Surjection
  <2>3. DOMAIN order = 1..Cardinality(Slots)
    BY DEF CycleInit, Bijection, Injection
  <2>4. DOMAIN order # {}
    BY <2>2, <2>3
  <2>5. order # <<>>
    BY <2>4
  <2> QED
    BY <2>1, <2>5
<1>3. CycleInv /\ UntouchedInv /\ StartingInv /\ [CycleNext]_cycle
         => UntouchedInv' /\ StartingInv' /\ [Starting => Distance' \in 0..(Distance - 1)]_cycle
  BY UntouchedKeeps, StartingStep
<1> QED
  BY <1>1, <1>2, <1>3, CycleInvariant, PTL DEF CycleSpec, StartsInSteps
===============================================================================
