-------------------------- MODULE DataDevice_proofs ---------------------------
(***************************************************************************)
(* DeviceInv is inductive for every set of partitions, deadline, number of  *)
(* attempts and time that scans take; the search ends in bounded time; both *)
(* readers of the boot entry find the boot partition.                       *)
(***************************************************************************)
EXTENDS DataDevice, WellFoundedInduction, TLAPS

(* A device that appears is as late as the clock.                           *)
LEMMA AppearKeeps ==
    ASSUME DeviceInv, NEW d \in Partitions, Appear(d) PROVE DeviceInv'
<1>1. TypeOK'
  BY DEF DeviceInv, TypeOK, Appear, machine
<1>2. /\ pc' = pc /\ now' = now /\ now \in Nat /\ wake' = wake /\ disk' = disk
      /\ result' = result /\ labelled' = labelled /\ info' = info /\ pc \notin {"found", "failed"}
  BY DEF DeviceInv, TypeOK, Appear, machine, Done
<1>3. \A e \in Present' : appeared'[e] = now \/ (e \in Present /\ appeared'[e] = appeared[e])
  BY DEF DeviceInv, TypeOK, Appear, Present
<1>4. result = None
  BY <1>2 DEF DeviceInv
<1>5. \A e \in Present' : appeared'[e] <= now'
  BY <1>2, <1>3 DEF DeviceInv
<1>6. pc' = "searchSleep" =>
          /\ disk' = None /\ now' >= wake' - SearchPeriod
          /\ \A e \in labelled' \cap Present' : appeared'[e] >= wake' - SearchPeriod
  BY <1>2, <1>3 DEF DeviceInv
<1>7. pc' = "fallback" => now' >= Deadline /\ NoneInTime'
  BY <1>2, <1>3, DeviceAssumption DEF DeviceInv, NoneInTime, SearchPeriod
<1> QED
  BY <1>1, <1>2, <1>4, <1>5, <1>6, <1>7, DeviceAssumption
     DEF DeviceInv, PrefersBootDisk, InTimeIsFound, RightDisk

(* The clock only goes forward.                                             *)
LEMMA TickKeeps == ASSUME DeviceInv, Tick PROVE DeviceInv'
<1>1. TypeOK' /\ now' = now + 1 /\ now \in Nat
  BY DEF DeviceInv, TypeOK, Tick, machine
<1>2. /\ pc' = pc /\ wake' = wake /\ wake \in Nat /\ disk' = disk /\ result' = result
      /\ labelled' = labelled /\ appeared' = appeared /\ info' = info /\ pc \notin {"found", "failed"}
  BY DEF DeviceInv, TypeOK, Tick, machine, Done
<1>3. \A e \in Present : appeared[e] \in Nat
  BY DEF DeviceInv, TypeOK, Present
<1>4. \A e \in Present' : appeared'[e] <= now'
  BY <1>1, <1>2, <1>3 DEF DeviceInv, TypeOK, Present
<1>5. pc \in {"fallback", "failed"} => now' >= Deadline /\ NoneInTime'
  BY <1>1, <1>2, DeviceAssumption DEF DeviceInv, NoneInTime, Present
<1>6. pc' = "searchSleep" =>
          /\ disk' = None /\ now' >= wake' - SearchPeriod
          /\ \A e \in labelled' \cap Present' : appeared'[e] >= wake' - SearchPeriod
  BY <1>1, <1>2 DEF DeviceInv, TypeOK, Present, SearchPeriod
<1> QED
  BY <1>1, <1>2, <1>4, <1>5, <1>6, DeviceAssumption
     DEF DeviceInv, PrefersBootDisk, InTimeIsFound, RightDisk

(* Whatever an entry looks like, it tells the number of the boot partition  *)
(* or of none, and its GUID or none.                                        *)
LEMMA ReadType == ASSUME DeviceInv, ReadEntry PROVE TypeOK'
<1>1. entry \in Entries
  BY DEF DeviceInv, TypeOK, ReadEntry
<1>2. ASSUME NEW k \in HardDrive(entry, 0)
      PROVE  /\ DeviceInfo(entry, k).number \in {Number[Boot], 0}
             /\ DeviceInfo(entry, k).guid \in {Boot, None}
  <2>1. k \in DOMAIN entry.nodes /\ entry.nodes[k].hd = "yes"
    BY <1>2 DEF HardDrive
  <2>2. entry.nodes[k].number = Number[Boot] /\ entry.nodes[k].guid = Boot
    BY <1>1, <2>1, EntriesAssumption, ZenonT(30)
  <2> QED
    BY <2>2 DEF DeviceInfo
<1>3. info'.number \in {Number[Boot], 0} /\ info'.guid \in {Boot, None}
  BY <1>2 DEF ReadEntry, NoInfo
<1> QED
  BY <1>3 DEF DeviceInv, TypeOK, ReadEntry

(* find_boot_disk takes the boot disk, or one with the same number.         *)
LEMMA DiskKeeps == ASSUME DeviceInv, FindBootDisk PROVE RightDisk'
<1>1. disk' \in {DiskOf[d] : d \in BootPartitions} \cup {None} /\ info' = info
  BY DEF FindBootDisk, machine
<1>2. ASSUME disk' # None PROVE \E d \in BootPartitions : disk' = DiskOf[d]
  BY <1>1, <1>2
<1>3. ASSUME NEW d \in BootPartitions
      PROVE  d \in Partitions /\ (d = Boot \/ (info.guid = None /\ Number[d] = Number[Boot]))
  BY <1>3, DeviceAssumption DEF BootPartitions, Present, DeviceInv, TypeOK
<1> QED
  BY <1>1, <1>2, <1>3 DEF RightDisk

(* The steps of PID 1 leave the devices and the clock alone.                *)
LEMMA StepKeeps == ASSUME DeviceInv, Step PROVE DeviceInv'
<1>0. /\ now' = now /\ appeared' = appeared /\ labelled' = labelled /\ now \in Nat
      /\ Present' = Present /\ \A e \in Present : appeared[e] \in Nat /\ appeared[e] <= now
  BY DEF DeviceInv, TypeOK, Step, ReadEntry, FindBootDisk, ScanBootDisk, GlobalSearch, Wake, Fallback,
     Go, Sleep, Return, machine, Present
<1>a. ScanBootDisk \/ GlobalSearch \/ Wake \/ Fallback => RightDisk'
  <2>1. ScanBootDisk \/ GlobalSearch \/ Wake \/ Fallback => info' = info /\ disk' = disk
    BY DEF ScanBootDisk, GlobalSearch, Wake, Fallback, Go, Sleep, Return, machine
  <2> QED
    BY <2>1 DEF DeviceInv, RightDisk
<1>b. CASE ReadEntry
  <2>1. TypeOK'
    BY <1>b, ReadType
  <2>2. result' = result /\ disk' = disk /\ pc = "entry" /\ pc' \in {"boot", "panicked"}
    BY <1>b DEF ReadEntry
  <2>3. disk' = None
    BY <2>2 DEF DeviceInv
  <2> QED
    BY <1>0, <2>1, <2>2, <2>3, DeviceAssumption DEF DeviceInv, PrefersBootDisk, InTimeIsFound, RightDisk
<1>1. CASE FindBootDisk
  <2>1. TypeOK'
    BY <1>1, ZenonT(30) DEF DeviceInv, TypeOK, FindBootDisk, BootPartitions, machine, Present
  <2>2. result' = result /\ pc = "boot" /\ pc' \in {"search", "scan"}
        /\ (pc' = "search" => disk' = None)
    BY <1>1 DEF FindBootDisk
  <2> QED
    BY <1>0, <1>1, <2>1, <2>2, DiskKeeps, DeviceAssumption DEF DeviceInv, PrefersBootDisk, InTimeIsFound
<1>2. CASE ScanBootDisk
  <2>1. TypeOK'
    BY <1>2, DeviceAssumption DEF DeviceInv, TypeOK, ScanBootDisk, OnBootDisk, Go, Sleep,
       Return, ScanPeriod, machine, Present
  <2>2. CASE now >= Deadline
    BY <1>0, <1>a, <1>2, <2>1, <2>2, DeviceAssumption
       DEF DeviceInv, PrefersBootDisk, InTimeIsFound, ScanBootDisk, Go
  <2>3. CASE ~ now >= Deadline
    <3>1. CASE \E d \in OnBootDisk : Return(d)
      BY <1>0, <1>a, <1>2, <2>1, <3>1
         DEF DeviceInv, PrefersBootDisk, InTimeIsFound, ScanBootDisk, OnBootDisk, Return
    <3>2. CASE Sleep("scanSleep", ScanPeriod)
      BY <1>0, <1>a, <1>2, <2>1, <3>2, DeviceAssumption
         DEF DeviceInv, PrefersBootDisk, InTimeIsFound, ScanBootDisk, Sleep
    <3> QED
      BY <1>2, <2>3, <3>1, <3>2 DEF ScanBootDisk
  <2> QED
    BY <2>2, <2>3
<1>3. CASE GlobalSearch
  <2> DEFINE found == IF kind = "path" THEN {Direct} ELSE Present \cap labelled
             max == IF kind = "usb" THEN Attempts ELSE 1
  <2>0. pc = "search" /\ result = None /\ (disk # None => now >= Deadline)
    BY <1>3 DEF GlobalSearch, DeviceInv
  <2>1. CASE \E d \in found : Return(d)
    <3>1. PICK d \in found : Return(d)
      BY <2>1
    <3>2. d = Direct \/ d \in Present \cap labelled
      OBVIOUS
    <3>3. TypeOK'
      BY <3>1, <3>2 DEF DeviceInv, TypeOK, Return, machine, Present
    <3> QED
      BY <1>0, <1>a, <1>3, <2>0, <3>1, <3>2, <3>3, DeviceAssumption
         DEF DeviceInv, PrefersBootDisk, InTimeIsFound, Return
  <2>2. CASE attempt < max /\ Sleep("retrySleep", SearchPeriod) /\ attempt' = attempt + 1
    <3>1. TypeOK'
      BY <2>2, DeviceAssumption DEF DeviceInv, TypeOK, Sleep, SearchPeriod, machine
    <3> QED
      BY <1>0, <1>a, <1>3, <2>0, <2>2, <3>1, DeviceAssumption
         DEF DeviceInv, PrefersBootDisk, InTimeIsFound, Sleep
  <2>3. CASE found = {} /\ now < Deadline /\ Sleep("searchSleep", SearchPeriod) /\ attempt' = 1
    <3>1. TypeOK'
      BY <2>3, DeviceAssumption DEF DeviceInv, TypeOK, Sleep, SearchPeriod, machine
    <3>2. Present \cap labelled = {} /\ disk = None
      BY <2>0, <2>3, <1>0, DeviceAssumption
    <3>3. wake' = now + SearchPeriod /\ pc' = "searchSleep" /\ disk' = disk /\ result' = None
      BY <2>0, <2>3 DEF Sleep
    <3> QED
      BY <1>0, <1>a, <1>3, <3>1, <3>2, <3>3, DeviceAssumption
         DEF DeviceInv, PrefersBootDisk, InTimeIsFound, SearchPeriod
  <2>4. CASE found = {} /\ now >= Deadline /\ Go("fallback")
    <3>1. TypeOK'
      BY <2>4 DEF DeviceInv, TypeOK, Go, machine
    <3>2. Present \cap labelled = {}
      BY <2>4
    <3>3. NoneInTime'
      BY <1>0, <1>a, <1>3, <3>2 DEF NoneInTime
    <3> QED
      BY <1>0, <1>a, <1>3, <2>0, <2>4, <3>1, <3>3, DeviceAssumption
         DEF DeviceInv, PrefersBootDisk, InTimeIsFound, Go
  <2> QED
    BY <1>3, <2>1, <2>2, <2>3, <2>4 DEF GlobalSearch
<1>4. CASE Wake
  <2>1. TypeOK'
    BY <1>4 DEF DeviceInv, TypeOK, Wake, Go, Sleeping, machine
  <2>2. /\ pc \in {"scanSleep", "retrySleep", "searchSleep"} /\ now = wake /\ result = None
        /\ result' = None /\ disk' = disk
        /\ pc' = CASE pc = "scanSleep" -> "scan"
                   [] pc = "searchSleep" /\ now >= Deadline -> "fallback"
                   [] OTHER -> "search"
    BY <1>4 DEF DeviceInv, Wake, Go, Sleeping
  <2>3. CASE pc' = "scan"
    BY <1>0, <1>a, <1>4, <2>1, <2>2, <2>3, DeviceAssumption DEF DeviceInv, PrefersBootDisk, InTimeIsFound
  <2>4. CASE pc' = "search"
    BY <1>0, <1>a, <1>4, <2>1, <2>2, <2>4, DeviceAssumption DEF DeviceInv, PrefersBootDisk, InTimeIsFound
  <2>5. CASE pc' = "fallback"
    <3>1. pc = "searchSleep" /\ now >= Deadline
      BY <2>2, <2>5
    <3>2. NoneInTime'
      BY <1>0, <1>a, <1>4, <2>2, <3>1, DeviceAssumption DEF DeviceInv, NoneInTime, SearchPeriod
    <3> QED
      BY <1>0, <1>a, <1>4, <2>1, <2>2, <2>5, <3>1, <3>2, DeviceAssumption
         DEF DeviceInv, PrefersBootDisk, InTimeIsFound
  <2> QED
    BY <2>2, <2>3, <2>4, <2>5
<1>5. CASE Fallback
  <2>1. TypeOK'
    BY <1>5 DEF DeviceInv, TypeOK, Fallback, Go, Return, machine, Present
  <2>2. now >= Deadline /\ disk' = disk /\ pc' \in {"found", "failed"}
        /\ (pc' = "failed" => result' = None)
    BY <1>5 DEF DeviceInv, Fallback, Go, Return
  <2>3. NoneInTime'
    BY <1>0, <1>a, <1>5, <2>2 DEF DeviceInv, NoneInTime, Fallback
  <2>4. PrefersBootDisk'
    BY <1>0, <1>a, <1>5, <2>2, DeviceAssumption DEF PrefersBootDisk
  <2> QED
    BY <1>0, <1>a, <1>5, <2>1, <2>2, <2>3, <2>4 DEF DeviceInv, InTimeIsFound
<1> QED
  BY <1>b, <1>1, <1>2, <1>3, <1>4, <1>5 DEF Step

(* The inductive invariant of the search for the data device.               *)
THEOREM DeviceInvariant == Spec => []DeviceInv
<1>1. Init => DeviceInv
  BY DeviceAssumption DEF Init, NoInfo, DeviceInv, TypeOK, PrefersBootDisk, InTimeIsFound,
     RightDisk, Present
<1>2. DeviceInv /\ [Next]_vars => DeviceInv'
  <2>1. ASSUME DeviceInv, UNCHANGED vars PROVE DeviceInv'
    BY <2>1 DEF vars, DeviceInv, TypeOK, PrefersBootDisk, InTimeIsFound, RightDisk,
       NoneInTime, Present
  <2> QED
    BY <2>1, AppearKeeps, TickKeeps, StepKeeps DEF Next
<1> QED
  BY <1>1, <1>2, PTL DEF Spec

(* Whatever the devices and their timing, find_data_device returns another  *)
(* partition than a labelled one of the known boot disk only after its      *)
(* deadline.                                                                *)
THEOREM BootDiskFirst == Spec => []PrefersBootDisk
BY DeviceInvariant, PTL DEF DeviceInv

(* Whatever the deadline and the number of attempts, find_data_device gives *)
(* up only on devices that come after its deadline, or in its last sleep.   *)
THEOREM NothingMissed == Spec => []InTimeIsFound
BY DeviceInvariant, PTL DEF DeviceInv

(* Whatever the firmware has written and whatever appears when, only an     *)
(* entry without a GUID can lead cmd_boot to another disk.                  *)
THEOREM BootDiskRight == Spec => []RightDisk
BY DeviceInvariant, PTL DEF DeviceInv

-----------------------------------------------------------------------------
(* Induction: a set of natural numbers has a least one.                     *)
LEMMA LeastNatural == ASSUME NEW T \in SUBSET Nat, T # {} PROVE \E n \in T : \A m \in T : n <= m
<1>1. PICK n \in T : \A m \in T : ~ (<<m, n>> \in OpToRel(<, Nat))
  BY NatLessThanWellFounded, WFMin, ZenonT(30)
<1>2. \A m \in T : ~ (m < n)
  BY <1>1, ZenonT(30) DEF OpToRel
<1> QED
  BY <1>2

(* The sums of the lengths before each place.                               *)
IsSum(f, d, n) ==
    /\ f \in [1..n -> Nat]
    /\ \A k \in 1..n : f[k] = IF k = 1 THEN 0 ELSE f[k - 1] + d[k - 1]

LEMMA SumsExist == ASSUME NEW n \in Nat, NEW d \in [1..n -> Nat] PROVE \E f : IsSum(f, d, n)
<1> DEFINE T == {m \in 0..n : ~ \E f : IsSum(f, d, m)}
<1> SUFFICES ASSUME T # {} PROVE FALSE
  OBVIOUS
<1>0. T \in SUBSET Nat
  OBVIOUS
<1>1. PICK m \in T : \A j \in T : m <= j
  <2> HIDE DEF T
  <2> QED
    BY <1>0, LeastNatural
<1>2. m # 0
  <2>1. IsSum([k \in 1..0 |-> 0], d, 0)
    BY DEF IsSum
  <2> QED
    BY <2>1
<1>3. m - 1 \in 0..n /\ m \in 1..n
  BY <1>2
<1>4. PICK f : IsSum(f, d, m - 1)
  BY <1>1, <1>3
<1> DEFINE g == [k \in 1..m |-> IF k = 1 THEN 0 ELSE f[k - 1] + d[k - 1]]
<1>5. ASSUME NEW k \in 1..m, k # 1 PROVE k - 1 \in 1..(m - 1) /\ f[k - 1] \in Nat /\ d[k - 1] \in Nat
  BY <1>3, <1>4, <1>5 DEF IsSum
<1>6. g \in [1..m -> Nat]
  BY <1>5
<1>7. \A k \in 1..(m - 1) : g[k] = f[k]
  BY <1>3, <1>4 DEF IsSum
<1>8. IsSum(g, d, m)
  BY <1>5, <1>6, <1>7, ZenonT(30) DEF IsSum
<1> QED
  BY <1>8

(* So Starts(e) is what its recursive definition says.                      *)
LEMMA StartsAre ==
    ASSUME NEW e, e.nodes \in Seq({e.nodes[k] : k \in DOMAIN e.nodes}),
           \A k \in DOMAIN e.nodes : e.nodes[k].len \in Nat
    PROVE  /\ Len(e.nodes) \in Nat /\ DOMAIN e.nodes = 1..Len(e.nodes)
           /\ Starts(e) \in [1..Len(e.nodes) -> Nat]
           /\ \A k \in 1..Len(e.nodes) :
                 Starts(e)[k] = IF k = 1 THEN 0 ELSE Starts(e)[k - 1] + e.nodes[k - 1].len
<1> DEFINE n == Len(e.nodes)
           d == [k \in 1..n |-> e.nodes[k].len]
           Is(at) == at = [k \in 1..n |-> IF k = 1 THEN 0 ELSE at[k - 1] + e.nodes[k - 1].len]
<1>1. n \in Nat /\ DOMAIN e.nodes = 1..n
  OBVIOUS
<1>2. d \in [1..n -> Nat]
  BY <1>1
<1>3. PICK f : IsSum(f, d, n)
  BY <1>1, <1>2, SumsExist, ZenonT(30)
<1>4. \A k \in 1..n : k # 1 => k - 1 \in 1..n /\ d[k - 1] = e.nodes[k - 1].len
  BY <1>1
<1>5. Is(f)
  BY <1>3, <1>4, ZenonT(30) DEF IsSum
<1>6. Starts(e) = CHOOSE at : Is(at)
  BY DEF Starts
<1>7. Is(Starts(e))
  BY <1>5, <1>6, ZenonT(30)
<1> HIDE DEF n
<1>8. \A k \in 1..n : Starts(e)[k] = IF k = 1 THEN 0 ELSE Starts(e)[k - 1] + e.nodes[k - 1].len
  BY <1>7, ZenonT(30)
<1> DEFINE T == {k \in 1..n : Starts(e)[k] \notin Nat}
<1>9. T = {}
  <2> SUFFICES ASSUME T # {} PROVE FALSE
    OBVIOUS
  <2>0. T \in SUBSET Nat
    BY <1>1
  <2>1. PICK m \in T : \A j \in T : m <= j
    <3> HIDE DEF T
    <3> QED
      BY <2>0, LeastNatural
  <2>2. m # 1
    BY <1>8
  <2>3. m - 1 \in 1..n /\ ~ (m <= m - 1)
    BY <1>1, <2>2
  <2>4. Starts(e)[m - 1] \in Nat
    BY <2>1, <2>3
  <2>5. Starts(e)[m] = Starts(e)[m - 1] + e.nodes[m - 1].len /\ e.nodes[m - 1].len \in Nat
    BY <1>1, <1>8, <2>2, <2>3, ZenonT(30)
  <2> QED
    BY <2>4, <2>5
<1>10. DOMAIN Starts(e) = 1..n /\ Starts(e) = [k \in 1..n |-> Starts(e)[k]]
  BY <1>7
<1>11. Starts(e) \in [1..n -> Nat]
  BY <1>9, <1>10, ZenonT(30)
<1> QED
  BY <1>1, <1>8, <1>11, ZenonT(30) DEF n

(* In a device path that its nodes fill, the walk gets past every node.     *)
LEMMA WellFormedInList ==
    ASSUME NEW e \in Entries, WellFormed(e), NEW k \in DOMAIN e.nodes
    PROVE  Starts(e)[k] \in Nat /\ Starts(e)[k] + e.nodes[k].len <= e.size /\ InList(e, k)
<1> DEFINE n == Len(e.nodes)
           T == {i \in Nat : i < n /\ ~ (Starts(e)[n - i] + e.nodes[n - i].len <= e.size)}
<1>1. /\ e.nodes \in Seq({e.nodes[j] : j \in DOMAIN e.nodes})
      /\ \A j \in DOMAIN e.nodes : e.nodes[j].len \in Nat
  BY EntriesAssumption
<1>2. /\ n \in Nat /\ DOMAIN e.nodes = 1..n /\ Starts(e) \in [1..n -> Nat]
      /\ \A j \in 1..n :
            Starts(e)[j] = IF j = 1 THEN 0 ELSE Starts(e)[j - 1] + e.nodes[j - 1].len
  BY <1>1, StartsAre, ZenonT(30)
<1>3. /\ e.size = Starts(e)[n] + e.nodes[n].len
      /\ \A j \in 1..n : e.nodes[j].len >= HeaderSize /\ e.nodes[j].len \in Nat
  BY <1>1, <1>2, ZenonT(30) DEF WellFormed
<1> HIDE DEF n
<1>4. n \in 1..n /\ e.size \in Nat
  BY <1>2, <1>3
<1>5. T = {}
  <2> SUFFICES ASSUME T # {} PROVE FALSE
    OBVIOUS
  <2>0. T \in SUBSET Nat
    OBVIOUS
  <2>1. PICK i \in T : \A j \in T : i <= j
    <3> HIDE DEF T
    <3> QED
      BY <2>0, LeastNatural
  <2>2. i # 0
    BY <1>2, <1>3
  <2>3. i - 1 \in Nat /\ i - 1 < n /\ ~ (i <= i - 1) /\ n - i \in 1..n /\ n - (i - 1) \in 1..n
        /\ n - (i - 1) # 1 /\ (n - (i - 1)) - 1 = n - i
    BY <1>2, <2>2
  <2>4. Starts(e)[n - (i - 1)] + e.nodes[n - (i - 1)].len <= e.size
    BY <2>1, <2>3
  <2>5. Starts(e)[n - (i - 1)] = Starts(e)[n - i] + e.nodes[n - i].len
    BY <1>2, <2>3
  <2>6. e.nodes[n - (i - 1)].len \in Nat /\ Starts(e)[n - (i - 1)] \in Nat
    BY <1>2, <1>3, <2>3, ZenonT(30)
  <2>7. Starts(e)[n - i] + e.nodes[n - i].len <= e.size
    BY <1>4, <2>4, <2>5, <2>6
  <2> QED
    BY <2>7
<1>6. n - k \in Nat /\ n - k < n /\ n - (n - k) = k
  BY <1>2
<1>7. Starts(e)[k] + e.nodes[k].len <= e.size
  BY <1>5, <1>6
<1>8. Starts(e)[k] \in Nat /\ e.nodes[k].len \in Nat /\ e.nodes[k].len >= HeaderSize
  BY <1>2, <1>3
<1> QED
  BY <1>4, <1>7, <1>8 DEF InList, HeaderSize

(* Both readers stop at the only hard drive node.                           *)
LEMMA WellFormedDrive ==
    ASSUME NEW e \in Entries, WellFormed(e)
    PROVE  \E k \in DOMAIN e.nodes :
              /\ e.nodes[k].hd = "yes" /\ e.nodes[k].len = HardDriveSize /\ ~ Panics(e, k)
              /\ \A j \in DOMAIN e.nodes : e.nodes[j].hd = "yes" => j = k
              /\ HardDrive(e, 0) = {k} /\ HardDrive(e, HardDriveSize) = {k}
<1>1. PICK k \in DOMAIN e.nodes : e.nodes[k].hd = "yes" /\ e.nodes[k].len = HardDriveSize
  BY DEF WellFormed
<1>2. \A j \in DOMAIN e.nodes : e.nodes[j].hd = "yes" => j = k
  BY <1>1 DEF WellFormed
<1>3. e.nodes \in Seq({e.nodes[j] : j \in DOMAIN e.nodes})
  BY EntriesAssumption
<1>4. k \in Nat /\ 1..k \subseteq DOMAIN e.nodes
  BY <1>3
<1>5. \A j \in 1..k : InList(e, j)
  BY <1>4, WellFormedInList
<1>6. ASSUME NEW least \in {0, HardDriveSize} PROVE HardDrive(e, least) = {k}
  <2> DEFINE drives == {j \in DOMAIN e.nodes : /\ e.nodes[j].hd = "yes" /\ e.nodes[j].len >= least
                                              /\ \A i \in 1..j : InList(e, i)}
  <2>1. e.nodes[k].len >= least
    BY <1>1 DEF HardDriveSize
  <2>2. drives = {k}
    BY <1>1, <1>2, <1>5, <2>1
  <2>3. HardDrive(e, least) = {j \in drives : Readable(e) /\ \A i \in drives : j <= i}
    BY DEF HardDrive
  <2> HIDE DEF drives
  <2> QED
    BY <1>4, <2>2, <2>3 DEF WellFormed
<1>7. Starts(e)[k] \in Nat /\ Starts(e)[k] + HardDriveSize <= e.size
  BY <1>1, WellFormedInList
<1>8. e.size \in Int
  <2>1. Len(e.nodes) \in DOMAIN e.nodes
    BY <1>3, <1>4
  <2>2. Starts(e)[Len(e.nodes)] \in Nat /\ e.nodes[Len(e.nodes)].len \in Nat
    BY <2>1, WellFormedInList, EntriesAssumption, ZenonT(30)
  <2> QED
    BY <2>2 DEF WellFormed
<1>9. ~ Panics(e, k)
  BY <1>7, <1>8 DEF Panics, NumberEnd, HardDriveSize
<1> QED
  BY <1>1, <1>2, <1>6, <1>9

(* extract_boot_partition_id and extract_boot_device_info: a load option    *)
(* that follows UEFI leads both of them to the boot partition, however many *)
(* nodes of whatever lengths its device path has, and never to a panic.     *)
THEOREM BootPartitionIsRead == Spec => ReadsBootPartition
<1> DEFINE complete == \E k \in DOMAIN entry.nodes :
                          entry.nodes[k].hd = "yes" /\ entry.nodes[k].format = 2
                          /\ entry.nodes[k].sigtype = 2
           Reads == pc = "entry" /\ WellFormed(entry) =>
                       /\ pc' = "boot" /\ PartitionId(entry) = {Number[Boot]}
                       /\ info' = [known |-> "yes", number |-> Number[Boot],
                                   guid |-> IF complete THEN Boot ELSE None]
<1>1. ASSUME DeviceInv, [Next]_vars PROVE [Reads]_vars
  <2> SUFFICES ASSUME Next, pc = "entry", WellFormed(entry)
               PROVE  /\ pc' = "boot" /\ PartitionId(entry) = {Number[Boot]}
                      /\ info' = [known |-> "yes", number |-> Number[Boot],
                                  guid |-> IF complete THEN Boot ELSE None]
    BY <1>1
  <2>1. ReadEntry
    BY DEF Next, Step, Tick, Appear, FindBootDisk, ScanBootDisk, GlobalSearch, Wake, Fallback, Sleeping
  <2>2. entry \in Entries
    BY <1>1 DEF DeviceInv, TypeOK
  <2>3. PICK k \in DOMAIN entry.nodes :
              /\ entry.nodes[k].hd = "yes" /\ entry.nodes[k].len = HardDriveSize /\ ~ Panics(entry, k)
              /\ \A j \in DOMAIN entry.nodes : entry.nodes[j].hd = "yes" => j = k
              /\ HardDrive(entry, 0) = {k} /\ HardDrive(entry, HardDriveSize) = {k}
    BY <2>2, WellFormedDrive
  <2>4. info' = DeviceInfo(entry, k) /\ pc' = "boot"
    BY <2>1, <2>3 DEF ReadEntry
  <2>5. entry.nodes[k].number = Number[Boot] /\ entry.nodes[k].guid = Boot
    BY <2>2, <2>3, EntriesAssumption, ZenonT(30)
  <2>6. complete <=> entry.nodes[k].format = 2 /\ entry.nodes[k].sigtype = 2
    BY <2>3
  <2>7. PartitionId(entry) = {Number[Boot]}
    BY <2>3, <2>5 DEF PartitionId
  <2>8. DeviceInfo(entry, k) = [known |-> "yes", number |-> Number[Boot],
                                guid |-> IF complete THEN Boot ELSE None]
    <3> HIDE DEF complete
    <3> QED
      BY <2>3, <2>5, <2>6 DEF DeviceInfo, HardDriveSize, NumberEnd
  <2> QED
    BY <2>4, <2>7, <2>8
<1> QED
  BY <1>1, DeviceInvariant, PTL DEF Spec, ReadsBootPartition

-----------------------------------------------------------------------------
(* The end of a scan that takes longer than the deadline, or of a sleep of  *)
(* 1 s that begins just before it.                                          *)
Late == IF MaxSlow > Deadline THEN MaxSlow ELSE Deadline + SearchPeriod - 1

(* Only a label "USB..." is tried more than once, and a sleep that begins   *)
(* after the deadline is one of its retries.                                *)
TimeInv ==
    /\ attempt > 1 => kind = "usb"
    /\ Sleeping => now <= wake /\ wake <= Late + SearchPeriod * (attempt - 1)
    /\ ~ Sleeping => now <= Late + SearchPeriod * (attempt - 1)

(* find_data_device does not wait for ever: it is over after its deadline   *)
(* and a sleep, or a scan, that began before it; for a label "USB...", the  *)
(* retries of one call of find_partition_by_label come on top of that.      *)
InBoundedTime == now <= Late + IF kind = "usb" THEN SearchPeriod * (Attempts - 1) ELSE 0

LEMMA NextInTime == ASSUME DeviceInv, TimeInv, [Next]_vars PROVE TimeInv'
<1> USE DeviceAssumption DEF SearchPeriod, ScanPeriod, Late
<1>1. now \in Nat /\ wake \in Nat /\ attempt \in Nat /\ attempt >= 1 /\ Late \in Nat
  BY DEF DeviceInv, TypeOK
<1>2. CASE UNCHANGED <<kind, now, pc, wake, attempt>>
  BY <1>2 DEF TimeInv, Sleeping
<1>3. CASE Tick
  BY <1>1, <1>3 DEF Tick, machine, TimeInv, Sleeping
<1>4. CASE ReadEntry \/ FindBootDisk \/ Fallback
  <2>1. UNCHANGED <<kind, now, wake, attempt>> /\ ~ Sleeping /\ ~ Sleeping'
    BY <1>4 DEF ReadEntry, FindBootDisk, Fallback, Return, Go, machine, Sleeping
  <2> QED
    BY <2>1 DEF TimeInv
<1>5. ASSUME NEW step, Go(step), ~ Sleeping, ~ Sleeping' PROVE TimeInv'
  BY <1>5 DEF Go, machine, TimeInv
<1>6. ASSUME NEW d, Return(d), ~ Sleeping PROVE TimeInv'
  <2>1. UNCHANGED <<kind, now, wake, attempt>> /\ ~ Sleeping'
    BY <1>6 DEF Return, machine, Sleeping
  <2> QED
    BY <1>6, <2>1 DEF TimeInv
<1>7. CASE ScanBootDisk
  <2>1. CASE Sleep("scanSleep", ScanPeriod) /\ UNCHANGED attempt /\ now < Deadline
    BY <1>1, <1>7, <2>1 DEF ScanBootDisk, Sleep, machine, TimeInv, Sleeping
  <2> QED
    BY <1>1, <1>5, <1>6, <1>7, <2>1 DEF ScanBootDisk, Sleeping, Go
<1>8. CASE GlobalSearch
  <2> DEFINE max == IF kind = "usb" THEN Attempts ELSE 1
  <2>1. CASE attempt < max /\ Sleep("retrySleep", SearchPeriod) /\ attempt' = attempt + 1
    <3>1. kind = "usb" /\ kind' = kind /\ now <= Late + SearchPeriod * (attempt - 1)
      BY <1>1, <1>8, <2>1 DEF GlobalSearch, Sleep, machine, TimeInv, Sleeping
    <3> QED
      BY <1>1, <2>1, <3>1 DEF Sleep, TimeInv, Sleeping
  <2>2. CASE now < Deadline /\ Sleep("searchSleep", SearchPeriod) /\ attempt' = 1
    BY <1>1, <2>2 DEF Sleep, TimeInv, Sleeping
  <2>3. CASE Go("fallback")
    BY <1>5, <1>8, <2>3 DEF GlobalSearch, Go, Sleeping
  <2>4. CASE \E d : Return(d)
    BY <1>6, <1>8, <2>4 DEF GlobalSearch, Sleeping
  <2> QED
    BY <1>8, <2>1, <2>2, <2>3, <2>4 DEF GlobalSearch
<1>9. CASE Wake
  <2>1. UNCHANGED <<kind, now, wake, attempt>> /\ ~ Sleeping' /\ now = wake /\ Sleeping
    BY <1>9 DEF Wake, Go, machine, Sleeping
  <2> QED
    BY <1>1, <2>1 DEF TimeInv
<1> QED
  BY <1>2, <1>3, <1>4, <1>7, <1>8, <1>9 DEF Next, Step, Appear, machine, vars

(* The safety of SearchEnds, with a bound: thread::sleep is called with one *)
(* deadline for all strategies in view.                                     *)
THEOREM SearchIsBounded == Spec => []InBoundedTime
<1>1. Init => TimeInv
  BY DeviceAssumption DEF Init, TimeInv, Sleeping, Late, SearchPeriod
<1>2. DeviceInv /\ TimeInv /\ [Next]_vars => TimeInv'
  BY NextInTime
<1>3. DeviceInv /\ TimeInv => InBoundedTime
  <2> SUFFICES ASSUME DeviceInv, TimeInv PROVE InBoundedTime
    OBVIOUS
  <2>1. /\ now \in Nat /\ wake \in Nat /\ attempt \in Nat /\ 1 <= attempt /\ attempt <= Attempts
        /\ Late \in Nat /\ Attempts \in Nat
    BY DeviceAssumption DEF DeviceInv, TypeOK, Late, SearchPeriod
  <2>2. now <= Late + 2 * (attempt - 1)
    BY <2>1 DEF TimeInv, SearchPeriod
  <2>3. kind # "usb" => attempt = 1
    BY <2>1 DEF TimeInv
  <2> QED
    BY <2>1, <2>2, <2>3 DEF InBoundedTime, SearchPeriod
<1> QED
  BY <1>1, <1>2, <1>3, DeviceInvariant, PTL DEF Spec
=============================================================================
