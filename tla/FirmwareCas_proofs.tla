-------------------------- MODULE FirmwareCas_proofs --------------------------
(***************************************************************************)
(* CasInv is inductive for any number of commands, slots, revisions and     *)
(* objects; the properties of the store follow.                             *)
(***************************************************************************)
EXTENDS FirmwareCas, TLAPS

(* The part of CasInv that is about the store alone.                        *)
StoreInv ==
    /\ \A d \in Digests : dcas[d] # "absent" => cas[d] = dcas[d]
    /\ CasSound
    /\ SlotFirmwareComplete
    /\ NoDanglingLinks

(* A step that leaves the store alone keeps StoreInv.                       *)
LEMMA StoreUntouched == ASSUME CasInv, UNCHANGED <<memory, disk>> PROVE StoreInv'
BY DEF CasInv, StoreInv, CasSound, SlotFirmwareComplete, NoDanglingLinks, NoneMissing,
   Present, memory, disk

(* A step of one command that leaves the store alone keeps what holds of    *)
(* the others.                                                              *)
LEMMA OthersUntouched ==
    ASSUME NEW p \in Procs, NEW q \in Procs, CommandInv(q), UNCHANGED <<cas>>,
           pc'[q] = pc[q], job'[q] = job[q], file'[q] = file[q], links'[q] = links[q]
    PROVE  CommandInv(q)'
BY DEF CommandInv, NoneMissing, Present

(* A command that begins.                                                   *)
LEMMA BeginKeeps ==
    ASSUME CasInv, NEW p \in Procs, NEW step, NEW j \in Job,
           NEW files \in SUBSET (Digests \X {"good", "wrong"}),
           step \in {"fetch", "import", "install"},
           step = "fetch" => j.slot \in Slots /\ j.rev \in Revisions,
           step = "install" => j.slot \in Slots /\ NoneMissing(j.image),
           Begin(p, step, j, files), UNCHANGED cas
    PROVE  /\ pc' \in [Procs -> {"idle", "fetch", "tree", "import", "install", "failing"}]
           /\ job' \in [Procs -> Job \cup {None}]
           /\ todo' \in [Procs -> SUBSET (Digests \X {"good", "wrong"})]
           /\ file' \in [Procs -> (Digests \X {"sealed", "wrong"}) \cup {None}]
           /\ links' \in [Procs -> SUBSET Digests]
           /\ \A q \in Procs : CommandInv(q)'
<1>1. CommandInv(p)'
  BY DEF CasInv, TypeOK, CommandInv, Begin, NoneMissing, Present
<1>2. ASSUME NEW q \in Procs, q # p PROVE CommandInv(q)'
  BY <1>2, OthersUntouched DEF CasInv, TypeOK, Begin
<1> QED
  BY <1>1, <1>2 DEF CasInv, TypeOK, Begin

(* A command that ends.                                                     *)
LEMMA EndKeeps ==
    ASSUME CasInv, NEW p \in Procs, End(p), UNCHANGED cas
    PROVE  /\ pc' \in [Procs -> {"idle", "fetch", "tree", "import", "install", "failing"}]
           /\ job' \in [Procs -> Job \cup {None}]
           /\ todo' \in [Procs -> SUBSET (Digests \X {"good", "wrong"})]
           /\ file' \in [Procs -> (Digests \X {"sealed", "wrong"}) \cup {None}]
           /\ links' \in [Procs -> SUBSET Digests]
           /\ \A q \in Procs : CommandInv(q)'
<1>1. CommandInv(p)'
  BY DEF CasInv, TypeOK, CommandInv, End
<1>2. ASSUME NEW q \in Procs, q # p PROVE CommandInv(q)'
  BY <1>2, OthersUntouched DEF CasInv, TypeOK, End
<1> QED
  BY <1>1, <1>2 DEF CasInv, TypeOK, End

(* A file that is in the store is linked.                                   *)
LEMMA HandledKeeps ==
    ASSUME CasInv, NEW p \in Procs, NEW x \in Digests \X {"good", "wrong"},
           cas[x[1]] # "absent", Handled(p, x), UNCHANGED <<memory, disk>>
    PROVE  CasInv'
<1>1. TypeOK'
  BY DEF CasInv, TypeOK, Handled, memory, disk
<1>2. CommandInv(p)'
  BY DEF CasInv, TypeOK, CommandInv, Handled, memory, Present, NoneMissing
<1>3. ASSUME NEW q \in Procs, q # p PROVE CommandInv(q)'
  BY <1>3, OthersUntouched DEF CasInv, TypeOK, Handled, memory
<1> QED
  BY <1>1, <1>2, <1>3, StoreUntouched DEF CasInv, StoreInv

(* A staged file has the content its name says and verity.                  *)
LEMMA StagedKeeps ==
    ASSUME CasInv, NEW p \in Procs, NEW d \in Digests,
           Staged(p, d, "sealed"), UNCHANGED <<memory, disk>>
    PROVE  CasInv'
<1>1. TypeOK'
  BY DEF CasInv, TypeOK, Staged, memory, disk
<1>2. CommandInv(p)'
  BY DEF CasInv, TypeOK, CommandInv, Staged, memory, Present, NoneMissing
<1>3. ASSUME NEW q \in Procs, q # p PROVE CommandInv(q)'
  BY <1>3, OthersUntouched DEF CasInv, TypeOK, Staged, memory
<1> QED
  BY <1>1, <1>2, <1>3, StoreUntouched DEF CasInv, StoreInv

(* A file that is moved into the store adds to it or replaces its like.     *)
LEMMA StoreKeeps == ASSUME CasInv, NEW p \in Procs, Store(p) PROVE CasInv'
<1> DEFINE d == file[p][1]
<1>1. d \in Digests /\ file[p][2] = "sealed" /\ file[p] = <<d, "sealed">>
  BY DEF CasInv, TypeOK, CommandInv, Store
<1>2. cas' = [cas EXCEPT ![d] = "sealed"]
  BY <1>1 DEF Store
<1>3. Present \subseteq Present' /\ d \in Present'
  BY <1>1, <1>2 DEF CasInv, TypeOK, Present
<1>4. TypeOK'
  BY <1>1, <1>2 DEF CasInv, TypeOK, Store, Handled, disk, Object
<1>5. \A c \in Digests : dcas'[c] # "absent" => cas'[c] = dcas'[c]
  BY <1>1, <1>2 DEF CasInv, TypeOK, CasSound, Store, disk
<1>6. CasSound'
  BY <1>1, <1>2 DEF CasInv, TypeOK, CasSound, Store, disk
<1>7. SlotFirmwareComplete'
  BY <1>3 DEF CasInv, SlotFirmwareComplete, NoneMissing, Store, disk
<1>8. NoDanglingLinks'
  BY <1>3 DEF CasInv, NoDanglingLinks, Store, disk
<1>9. CommandInv(p)'
  BY <1>1, <1>3 DEF CasInv, TypeOK, CommandInv, Store, Handled, NoneMissing
<1>10. ASSUME NEW q \in Procs, q # p PROVE CommandInv(q)'
  BY <1>3, <1>10 DEF CasInv, TypeOK, CommandInv, Store, Handled, NoneMissing
<1> QED
  BY <1>4, <1>5, <1>6, <1>7, <1>8, <1>9, <1>10 DEF CasInv

(* firmware-fetch.                                                          *)
LEMMA FetchKeeps ==
    ASSUME CasInv, NEW p \in Procs,
           \/ FetchStart(p) \/ FetchBlob(p) \/ FetchMove(p) \/ FetchVerify(p) \/ FetchTree(p)
    PROVE  CasInv'
<1>1. CASE FetchStart(p)
  <2>1. PICK r \in Revisions, i \in Images, s \in Slots :
            /\ Begin(p, "fetch", [image |-> i, slot |-> s, rev |-> r], Blobs[r] \X {"good"})
            /\ trees' = trees \cup {s}
            /\ UNCHANGED <<cas, tree, firmware, disk>>
    BY <1>1, ZenonT(30) DEF FetchStart
  <2> DEFINE j == [image |-> i, slot |-> s, rev |-> r]
             files == Blobs[r] \X {"good"}
  <2>2. j \in Job /\ j.slot \in Slots /\ j.rev \in Revisions
    BY DEF Job
  <2>3. files \in SUBSET (Digests \X {"good", "wrong"})
    BY InputsAssumption
  <2> HIDE DEF j, files
  <2>4. Begin(p, "fetch", j, files)
    BY <2>1 DEF j, files
  <2>5. /\ pc' \in [Procs -> {"idle", "fetch", "tree", "import", "install", "failing"}]
        /\ job' \in [Procs -> Job \cup {None}]
        /\ todo' \in [Procs -> SUBSET (Digests \X {"good", "wrong"})]
        /\ file' \in [Procs -> (Digests \X {"sealed", "wrong"}) \cup {None}]
        /\ links' \in [Procs -> SUBSET Digests]
        /\ \A q \in Procs : CommandInv(q)'
    BY <2>1, <2>2, <2>3, <2>4, BeginKeeps, ZenonT(30)
  <2>6. TypeOK'
    BY <2>1, <2>5 DEF CasInv, TypeOK, disk
  <2>7. StoreInv'
    BY <2>1 DEF CasInv, StoreInv, CasSound, SlotFirmwareComplete, NoDanglingLinks,
       NoneMissing, Present, disk
  <2> QED
    BY <2>5, <2>6, <2>7 DEF CasInv, StoreInv
<1>2. CASE FetchBlob(p)
  <2>1. PICK x \in todo[p] :
            IF cas[x[1]] # "absent" THEN Handled(p, x) ELSE Staged(p, x[1], "sealed")
    BY <1>2 DEF FetchBlob
  <2>2. x \in Digests \X {"good", "wrong"} /\ x[1] \in Digests
    BY DEF CasInv, TypeOK
  <2> QED
    BY <1>2, <2>1, <2>2, HandledKeeps, StagedKeeps DEF FetchBlob
<1>3. CASE FetchMove(p)
  BY <1>3, StoreKeeps DEF FetchMove
<1>4. CASE FetchVerify(p)
  <2>1. TypeOK'
    BY <1>4 DEF CasInv, TypeOK, FetchVerify, Goto, memory, disk
  <2>2. CommandInv(p)'
    BY <1>4 DEF CasInv, TypeOK, CommandInv, FetchVerify, Goto, memory, Present
  <2>3. ASSUME NEW q \in Procs, q # p PROVE CommandInv(q)'
    BY <1>4, <2>3, OthersUntouched DEF CasInv, TypeOK, FetchVerify, Goto, memory
  <2> QED
    BY <1>4, <2>1, <2>2, <2>3, StoreUntouched DEF CasInv, StoreInv, FetchVerify
<1>5. CASE FetchTree(p)
  <2> DEFINE x == <<job[p].slot, job[p].rev>>
  <2>1. x \in Slots \X Revisions
    BY <1>5 DEF CasInv, CommandInv, FetchTree
  <2>2. /\ tree' = IF tree[x] = None THEN [tree EXCEPT ![x] = links[p]] ELSE tree
        /\ End(p) /\ UNCHANGED <<cas, trees, firmware, disk>>
    BY <1>5 DEF FetchTree
  <2>3. links[p] \subseteq Present /\ links[p] \in SUBSET Digests
    BY DEF CasInv, TypeOK, CommandInv
  <2> HIDE DEF x
  <2>4. tree' \in Trees
    BY <2>1, <2>2, <2>3 DEF CasInv, TypeOK, Trees
  <2>5. TypeOK' /\ \A q \in Procs : CommandInv(q)'
    BY <2>2, <2>4, EndKeeps DEF CasInv, TypeOK, disk
  <2>6. NoDanglingLinks'
    BY <2>1, <2>2, <2>3 DEF CasInv, TypeOK, Trees, NoDanglingLinks, Present, disk
  <2>7. CasSound' /\ SlotFirmwareComplete'
    BY <2>2 DEF CasInv, CasSound, SlotFirmwareComplete, NoneMissing, Present, disk
  <2> QED
    BY <2>2, <2>5, <2>6, <2>7 DEF CasInv, disk
<1> QED
  BY <1>1, <1>2, <1>3, <1>4, <1>5

(* import.                                                                  *)
LEMMA ImportKeeps ==
    ASSUME CasInv, NEW p \in Procs,
           \/ ImportStart(p) \/ ImportObject(p) \/ ImportMove(p) \/ ImportVerify(p)
    PROVE  CasInv'
<1>1. CASE ImportStart(p)
  <2>1. PICK b \in Bundles, i \in Images :
            /\ Begin(p, "import", [image |-> i, slot |-> None, rev |-> None], Payload[b])
            /\ UNCHANGED <<memory, disk>>
    BY <1>1 DEF ImportStart
  <2> DEFINE j == [image |-> i, slot |-> None, rev |-> None]
  <2>2. j \in Job /\ Payload[b] \in SUBSET (Digests \X {"good", "wrong"})
    BY InputsAssumption DEF Job
  <2> HIDE DEF j
  <2>3. Begin(p, "import", j, Payload[b])
    BY <2>1 DEF j
  <2>4. /\ pc' \in [Procs -> {"idle", "fetch", "tree", "import", "install", "failing"}]
        /\ job' \in [Procs -> Job \cup {None}]
        /\ todo' \in [Procs -> SUBSET (Digests \X {"good", "wrong"})]
        /\ file' \in [Procs -> (Digests \X {"sealed", "wrong"}) \cup {None}]
        /\ links' \in [Procs -> SUBSET Digests]
        /\ \A q \in Procs : CommandInv(q)'
    BY <2>1, <2>2, <2>3, BeginKeeps, ZenonT(30) DEF memory
  <2>5. TypeOK'
    BY <2>1, <2>4 DEF CasInv, TypeOK, memory, disk
  <2> QED
    BY <2>1, <2>4, <2>5, StoreUntouched DEF CasInv, StoreInv
<1>2. CASE ImportObject(p)
  <2>1. PICK x \in todo[p] :
            IF cas[x[1]] = "absent" THEN Staged(p, x[1], "sealed")
            ELSE cas[x[1]] = "sealed" /\ Handled(p, x)
    BY <1>2 DEF ImportObject
  <2>2. x \in Digests \X {"good", "wrong"} /\ x[1] \in Digests
    BY DEF CasInv, TypeOK
  <2> QED
    BY <1>2, <2>1, <2>2, HandledKeeps, StagedKeeps DEF ImportObject
<1>3. CASE ImportMove(p)
  BY <1>3, StoreKeeps DEF ImportMove
<1>4. CASE ImportVerify(p)
  <2>1. TypeOK' /\ \A q \in Procs : CommandInv(q)'
    BY <1>4, EndKeeps DEF CasInv, TypeOK, ImportVerify, memory, disk
  <2> QED
    BY <1>4, <2>1, StoreUntouched DEF CasInv, StoreInv, ImportVerify
<1> QED
  BY <1>1, <1>2, <1>3, <1>4

(* install: the image it places was checked, and no object has gone since.  *)
LEMMA InstallKeeps ==
    ASSUME CasInv, NEW p \in Procs, InstallCheck(p) \/ InstallPlace(p) PROVE CasInv'
<1>1. CASE InstallCheck(p)
  <2>1. PICK i \in Images, s \in Slots :
            /\ NoneMissing(i)
            /\ Begin(p, "install", [image |-> i, slot |-> s, rev |-> None], {})
    BY <1>1 DEF InstallCheck
  <2> DEFINE j == [image |-> i, slot |-> s, rev |-> None]
  <2>2. j \in Job /\ j.slot \in Slots /\ j.image = i
    BY DEF Job
  <2> HIDE DEF j
  <2>3. Begin(p, "install", j, {})
    BY <2>1 DEF j
  <2>4. UNCHANGED <<memory, disk>>
    BY <1>1 DEF InstallCheck
  <2>5. /\ pc' \in [Procs -> {"idle", "fetch", "tree", "import", "install", "failing"}]
        /\ job' \in [Procs -> Job \cup {None}]
        /\ todo' \in [Procs -> SUBSET (Digests \X {"good", "wrong"})]
        /\ file' \in [Procs -> (Digests \X {"sealed", "wrong"}) \cup {None}]
        /\ links' \in [Procs -> SUBSET Digests]
        /\ \A q \in Procs : CommandInv(q)'
    BY <2>1, <2>2, <2>3, <2>4, BeginKeeps, SMTT(30) DEF memory
  <2>6. TypeOK'
    BY <2>4, <2>5 DEF CasInv, TypeOK, memory, disk
  <2> QED
    BY <2>4, <2>5, <2>6, StoreUntouched DEF CasInv, StoreInv
<1>2. CASE InstallPlace(p)
  <2> DEFINE s == job[p].slot
             i == job[p].image
  <2>1. s \in Slots /\ i \in Images /\ NoneMissing(i)
    BY <1>2 DEF CasInv, CommandInv, InstallPlace, Job
  <2>2. /\ firmware' = [firmware EXCEPT ![s] = i]
        /\ tree' = [x \in Slots \X Revisions |-> IF x[1] = s THEN None ELSE tree[x]]
        /\ trees' = trees \ {s}
        /\ UNCHANGED <<cas, disk, todo, file>>
        /\ job' = [job EXCEPT ![p] = None]
    BY <1>2 DEF InstallPlace
  <2>3. /\ pc' \in [Procs -> {"idle", "fetch", "tree", "import", "install", "failing"}]
        /\ links' \in [Procs -> SUBSET Digests]
        /\ \A q \in Procs : links'[q] \subseteq links[q]
        /\ pc'[p] = "idle"
        /\ \A q \in Procs : q # p => pc'[q] \in {pc[q], "failing"}
    BY <1>2 DEF CasInv, TypeOK, InstallPlace
  <2> HIDE DEF s, i
  <2>4. TypeOK'
    BY <2>1, <2>2, <2>3, ZenonT(30) DEF CasInv, TypeOK, Trees, disk
  <2>5. CommandInv(p)'
    BY <2>2, <2>3 DEF CasInv, CommandInv, Present
  <2>6. ASSUME NEW q \in Procs, q # p PROVE CommandInv(q)'
    BY <2>2, <2>3, <2>6 DEF CasInv, TypeOK, CommandInv, NoneMissing, Present
  <2>7. SlotFirmwareComplete'
    BY <2>1, <2>2 DEF CasInv, TypeOK, SlotFirmwareComplete, NoneMissing, Present, disk
  <2>8. NoDanglingLinks'
    BY <2>2, ZenonT(30) DEF CasInv, NoDanglingLinks, Present, disk
  <2>9. CasSound'
    BY <2>2 DEF CasInv, CasSound, disk
  <2> QED
    BY <2>2, <2>4, <2>5, <2>6, <2>7, <2>8, <2>9 DEF CasInv, disk
<1> QED
  BY <1>1, <1>2

(* A failure, a commit of the journal and a power loss.                     *)
LEMMA FaultsKeep ==
    ASSUME CasInv, (\E p \in Procs : Abort(p)) \/ Commit \/ PowerLoss PROVE CasInv'
<1>1. ASSUME NEW p \in Procs, Abort(p) PROVE CasInv'
  <2>1. TypeOK' /\ \A q \in Procs : CommandInv(q)'
    BY <1>1, EndKeeps DEF CasInv, TypeOK, Abort, memory, disk
  <2> QED
    BY <1>1, <2>1, StoreUntouched DEF CasInv, StoreInv, Abort
<1>2. CASE Commit
  <2>1. TypeOK'
    BY <1>2 DEF CasInv, TypeOK, Commit, memory, procs
  <2>2. \A q \in Procs : CommandInv(q)'
    BY <1>2 DEF CasInv, CommandInv, Commit, memory, procs, NoneMissing, Present
  <2>3. StoreInv'
    BY <1>2 DEF CasInv, StoreInv, CasSound, SlotFirmwareComplete, NoDanglingLinks,
       NoneMissing, Present, Commit, memory
  <2> QED
    BY <2>1, <2>2, <2>3 DEF CasInv, StoreInv
<1>3. CASE PowerLoss
  <2>1. TypeOK'
    BY <1>3 DEF CasInv, TypeOK, PowerLoss, disk
  <2>2. \A q \in Procs : CommandInv(q)'
    BY <1>3 DEF CommandInv, PowerLoss
  <2>3. StoreInv'
    BY <1>3 DEF CasInv, StoreInv, CasSound, SlotFirmwareComplete, NoDanglingLinks,
       NoneMissing, Present, PowerLoss, disk
  <2> QED
    BY <2>1, <2>2, <2>3 DEF CasInv, StoreInv
<1> QED
  BY <1>1, <1>2, <1>3

(* fetch, import and install keep CasInv, whatever fails between them.      *)
THEOREM CasInvariant == Spec => []CasInv
<1>1. Init => CasInv
  <2> SUFFICES ASSUME Init PROVE CasInv
    OBVIOUS
  <2>1. TypeOK
    BY DEF Init, TypeOK, Object, Trees
  <2>2. StoreInv
    BY DEF Init, StoreInv, CasSound, SlotFirmwareComplete, NoDanglingLinks
  <2>3. \A p \in Procs : CommandInv(p)
    BY DEF Init, CommandInv
  <2> QED
    BY <2>1, <2>2, <2>3 DEF CasInv, StoreInv
<1>2. CasInv /\ [Next]_vars => CasInv'
  <2> SUFFICES ASSUME CasInv, [Next]_vars PROVE CasInv'
    OBVIOUS
  <2>1. CASE Next
    BY <2>1, FetchKeeps, ImportKeeps, InstallKeeps, FaultsKeep DEF Next
  <2>2. CASE UNCHANGED vars
    <3>1. TypeOK'
      BY <2>2 DEF CasInv, TypeOK, vars, memory, disk, procs
    <3>2. \A q \in Procs : CommandInv(q)'
      BY <2>2, OthersUntouched DEF CasInv, vars, memory, procs
    <3> QED
      BY <2>2, <3>1, <3>2, StoreUntouched DEF CasInv, StoreInv, vars
  <2> QED
    BY <2>1, <2>2
<1> QED
  BY <1>1, <1>2, PTL DEF Spec

(* Every object has the content that its name says and verity.              *)
THEOREM StoreSound == Spec => []CasSound
<1>1. CasInv => CasSound
  BY DEF CasInv
<1> QED
  BY <1>1, CasInvariant, PTL

(* The firmware image of an installed slot lacks no object.                 *)
THEOREM FirmwareComplete == Spec => []SlotFirmwareComplete
<1>1. CasInv => SlotFirmwareComplete
  BY DEF CasInv
<1> QED
  BY <1>1, CasInvariant, PTL

(* No link that firmware-fetch has published dangles.                       *)
THEOREM LinksResolve == Spec => []NoDanglingLinks
<1>1. CasInv => NoDanglingLinks
  BY DEF CasInv
<1> QED
  BY <1>1, CasInvariant, PTL

(* No command, failure or power loss removes an object from the disk.       *)
THEOREM StoreAppendOnly == Spec => AppendOnly
<1> DEFINE Step == \A d \in Digests : dcas[d] # "absent" => dcas'[d] = dcas[d]
<1>1. CasInv /\ [Next]_vars => [Step]_vars
  <2> SUFFICES ASSUME CasInv, Next PROVE Step
    BY DEF vars
  <2>1. CASE Commit
    BY <2>1 DEF CasInv, Commit
  <2>2. CASE UNCHANGED disk
    BY <2>2 DEF disk
  <2>3. Commit \/ UNCHANGED disk
    BY ZenonT(30) DEF Next, FetchStart, FetchBlob, FetchMove, FetchVerify, FetchTree, ImportStart,
       ImportObject, ImportMove, ImportVerify, InstallCheck, InstallPlace, Abort,
       PowerLoss, Store
  <2> QED
    BY <2>1, <2>2, <2>3
<1> QED
  BY <1>1, CasInvariant, PTL DEF Spec, AppendOnly
=============================================================================
