--------------------------- MODULE EfiLoader_proofs ---------------------------
(***************************************************************************)
(* What the EFI loader starts and what PID 1 mounts is signed, for every    *)
(* db, every set of keys and every content of the boot partition; a slot    *)
(* that is installed starts, in a bounded number of steps, and an image that*)
(* is installed is accepted.                                                *)
(***************************************************************************)
EXTENDS ImageVerify, TLAPS

(* The db is a sequence of lists.                                           *)
LEMMA DbIsSequence == Dbs \subseteq Seq(Lists)
BY LoaderAssumption DEF Dbs

(* A turn of the loop accepts an artifact only for a certificate of the db. *)
LEMMA VerifyKeeps == ASSUME LoaderInv, VerifyList PROVE LoaderInv'
<1>1. CASE Reset
  BY <1>1 DEF LoaderInv, TypeOK, Reset, Goto, media
<1>2. CASE NextList
  <2>1. TypeOK'
    BY <1>2 DEF LoaderInv, TypeOK, NextList, media
  <2>2. pc = "verify" /\ pc' = pc /\ list \in Nat /\ list' = list + 1
    BY <1>2 DEF VerifyList, NextList, LoaderInv, TypeOK
  <2> QED
    BY <1>2, <2>1, <2>2 DEF LoaderInv, NextList, media, Certified
<1>3. CASE /\ list <= Len(db) /\ Matching(db[list]) # {}
           /\ pc' = After(verifying)
           /\ used' = used \cup Matching(db[list])
           /\ UNCHANGED <<media, secure, verifying, list, loaded, faults>>
  <2>1. pc = "verify" /\ list \in DOMAIN db /\ verifying \in Artifacts
    BY <1>3 DEF VerifyList, LoaderInv, TypeOK
  <2>2. PICK k \in Keys : [key |-> k, alg |-> "rsa"] \in db[list].certs
                         /\ signature[verifying][k] = loaded[verifying]
    BY <1>3, ZenonT(30) DEF Matching
  <2>3. Certified(k)
    BY <2>1, <2>2 DEF Certified
  <2>4. pc' \in {"kernel", "initrd", "exec"} /\ TypeOK'
    BY <1>3, <2>1 DEF After, Artifacts, LoaderInv, TypeOK, media
  <2>5. secure' = "yes" => \A a \in Artifacts : loaded'[a] # None =>
            \E j \in Keys : Certified(j)' /\ signature'[a][j] = loaded'[a]
    BY <1>3, <2>1, <2>2, <2>3 DEF LoaderInv, Certified, media
  <2> QED
    BY <1>3, <2>1, <2>4, <2>5 DEF LoaderInv, media
<1> QED
  BY <1>1, <1>2, <1>3 DEF VerifyList, LoaderInv, TypeOK

(* The other steps load one artifact at a time, or nothing.                 *)
LEMMA LoadKeeps ==
    ASSUME LoaderInv, LoadConfig \/ LoadKernel \/ LoadInitrd PROVE LoaderInv'
<1>1. ASSUME NEW a \in Artifacts, NEW then, Load(a, then),
             pc \in {"config", "kernel", "initrd"},
             pc = "config" <=> a = "config",
             then \in {"secureBoot", "verify", "initrd", "exec"},
             then = "secureBoot" <=> a = "config",
             a # "config" => (then = "verify" <=> secure = "yes"),
             then = "verify" => db # None
      PROVE  LoaderInv'
  <2>1. TypeOK'
    BY <1>1 DEF LoaderInv, TypeOK, Load, media
  <2>2. /\ pc' = then /\ verifying' = a /\ list' = 1 /\ secure' = secure /\ db' = db
        /\ signature' = signature /\ a # None
        /\ \A b \in Artifacts : b # a => loaded'[b] = loaded[b]
    BY <1>1, LoaderAssumption DEF Load, LoaderInv, TypeOK, media, Artifacts
  <2>3. CASE a = "config"
    BY <1>1, <2>1, <2>2, <2>3 DEF LoaderInv, Artifacts
  <2>4. CASE a # "config"
    <3>1. secure = "yes" => \A b \in Artifacts : loaded'[b] # None /\ b # a =>
              \E k \in Keys : Certified(k)' /\ signature'[b][k] = loaded'[b]
      BY <1>1, <2>2, <2>4 DEF LoaderInv, Certified
    <3> QED
      BY <1>1, <2>1, <2>2, <2>4, <3>1 DEF LoaderInv
  <2> QED
    BY <2>3, <2>4
<1>2. ASSUME NEW then \in {"reset", "exec"}, pc' = then,
             UNCHANGED <<media, secure, verifying, list, loaded, used>>,
             pc \in {"config", "kernel", "initrd"}, pc = "config" => then = "reset"
      PROVE  LoaderInv'
  <2>1. TypeOK'
    BY <1>2 DEF LoaderInv, TypeOK, media
  <2> QED
    BY <1>2, <2>1 DEF LoaderInv, media, Certified
<1>3. CASE LoadConfig
  BY <1>1, <1>2, <1>3 DEF LoadConfig, Reset, Goto, Artifacts
<1>4. CASE LoadKernel
  BY <1>1, <1>2, <1>4 DEF LoaderInv, LoadKernel, Reset, Goto, Artifacts
<1>5. CASE LoadInitrd
  BY <1>1, <1>2, <1>5 DEF LoaderInv, LoadInitrd, Reset, Goto, Artifacts
<1> QED
  BY <1>3, <1>4, <1>5

LEMMA InitLoaderInv == ASSUME Init PROVE LoaderInv
<1>1. db \in Seq(Lists) \cup {None}
  BY DbIsSequence DEF Init
<1>2. TypeOK
  BY <1>1 DEF Init, TypeOK
<1> QED
  BY <1>2 DEF Init, LoaderInv, Artifacts

(* Each step of the loader keeps the invariant.                             *)
LEMMA NextLoaderInv == ASSUME LoaderInv, [Next]_vars PROVE LoaderInv'
<1>1. CASE ReadSecureBoot
  <2>1. TypeOK'
    BY <1>1 DEF LoaderInv, TypeOK, ReadSecureBoot, media
  <2>2. pc' \in {"db", "kernel"} /\ (secure' = "yes" => pc' = "db") /\ loaded' = loaded
        /\ (pc' = "db" => secure' = "yes")
        /\ verifying' = verifying /\ list' = list /\ pc = "secureBoot"
    BY <1>1 DEF ReadSecureBoot
  <2> QED
    BY <2>1, <2>2 DEF LoaderInv
<1>2. CASE ReadDb
  <2>1. TypeOK'
    BY <1>2 DEF LoaderInv, TypeOK, ReadDb, Reset, Goto, media
  <2>2. CASE pc' = "reset"
    BY <1>2, <2>1, <2>2 DEF LoaderInv, ReadDb, Reset, Goto
  <2>3. CASE Goto("verify") /\ db # None
    BY <1>2, <2>1, <2>3, LoaderAssumption DEF LoaderInv, ReadDb, Goto, media, Artifacts
  <2> QED
    BY <1>2, <2>2, <2>3 DEF ReadDb, Reset, Goto
<1>3. CASE SignatureFault
  <2>1. TypeOK'
    BY <1>3 DEF LoaderInv, TypeOK, SignatureFault, media
  <2>2. pc = "verify" /\ pc' = pc /\ list \in Nat /\ list' = list + 1
    BY <1>3 DEF SignatureFault, LoaderInv, TypeOK
  <2> QED
    BY <1>3, <2>1, <2>2 DEF LoaderInv, SignatureFault, media, Certified
<1>4. CASE LinuxExec
  BY <1>4, ZenonT(30) DEF LoaderInv, TypeOK, LinuxExec, Goto, media, Certified
<1>5. CASE Fault
  BY <1>5 DEF LoaderInv, TypeOK, Fault, media
<1>6. CASE UNCHANGED vars
  BY <1>6, ZenonT(30) DEF LoaderInv, TypeOK, vars, media, Certified
<1> QED
  BY <1>1, <1>2, <1>3, <1>4, <1>5, <1>6, VerifyKeeps, LoadKeeps DEF Next

(* The inductive invariant of the loader.                                   *)
THEOREM LoaderInvariant == Spec => []LoaderInv
<1>1. Init => LoaderInv
  BY InitLoaderInv
<1>2. LoaderInv /\ [Next]_vars => LoaderInv'
  BY NextLoaderInv
<1> QED
  BY <1>1, <1>2, PTL DEF Spec

(* Whatever the db and the files are, with SecureBoot read as on main       *)
(* reaches the handover only with artifacts that are signed.                *)
THEOREM OnlySignedStarts == Spec => []StartedIsSigned
<1>1. LoaderInv => StartedIsSigned
  BY DEF LoaderInv, StartedIsSigned
<1> QED
  BY <1>1, LoaderInvariant, PTL

-----------------------------------------------------------------------------
(* What the loader has accepted a signature of is an RSA key of the db.     *)
UsedInv == \A k \in used : Certified(k)

(* Only the last step of VerifyList adds a key.                             *)
LEMMA UsedKeeps == ASSUME LoaderInv, UsedInv, [Next]_vars PROVE UsedInv'
<1>1. db' = db
  BY DEF Next, LoadConfig, ReadSecureBoot, ReadDb, LoadKernel, LoadInitrd, VerifyList,
     SignatureFault, LinuxExec, Fault, Load, Reset, Goto, NextList, media, vars
<1>2. CASE used' = used
  BY <1>1, <1>2 DEF UsedInv, Certified
<1>3. CASE VerifyList /\ used' # used
  <2>0. list \in Nat /\ Len(db) \in Nat
    BY <1>3 DEF LoaderInv, TypeOK, VerifyList
  <2>1. list <= Len(db) /\ used' = used \cup Matching(db[list])
    BY <1>3, <2>0 DEF VerifyList, Reset, Goto, NextList
  <2>2. list \in DOMAIN db
    BY <1>3, <2>1 DEF LoaderInv, TypeOK, VerifyList
  <2>3. \A k \in Matching(db[list]) : [key |-> k, alg |-> "rsa"] \in db[list].certs
    BY DEF Matching
  <2> QED
    BY <1>1, <2>1, <2>2, <2>3, ZenonT(30) DEF UsedInv, Certified
<1>4. used' = used \/ VerifyList
  BY DEF Next, LoadConfig, ReadSecureBoot, ReadDb, LoadKernel, LoadInitrd,
     SignatureFault, LinuxExec, Fault, Load, Reset, Goto, vars
<1> QED
  BY <1>2, <1>3, <1>4

(* PID 1's reader reports no error on a well-formed db, and returns every   *)
(* RSA certificate of it.                                                   *)
LEMMA ReaderIsComplete ==
    ASSUME LoaderInv, WellFormed
    PROVE  /\ ParseEsl.error = "no"
           /\ \A k : Certified(k) => [key |-> k, alg |-> "rsa"] \in ParseEsl.certs
<1>1. \A k \in DOMAIN db : /\ db[k].size = "fits" /\ 1..(k - 1) \subseteq DOMAIN db
                          /\ db[k] \in Lists
  BY DEF WellFormed, LoaderInv, TypeOK
<1>2. ParseEsl.error = "no"
  BY <1>1 DEF ParseEsl
<1>3. ASSUME NEW k, Certified(k) PROVE [key |-> k, alg |-> "rsa"] \in ParseEsl.certs
  <2>1. PICK i \in DOMAIN db : [key |-> k, alg |-> "rsa"] \in db[i].certs
    BY <1>3 DEF Certified
  <2>2. db[i].type = "x509"
    BY <1>1, <2>1, ListsAssumption
  <2>3. \A j \in 1..(i - 1) : db[j].size = "fits"
    BY <1>1
  <2> QED
    BY <2>1, <2>2, <2>3 DEF ParseEsl
<1> QED
  BY <1>2, <1>3

(* PID 1 finds every key that the loader has used, in every well-formed db. *)
THEOREM ReadersAgree == Spec => []InitosAccepts
<1>1. Init => UsedInv
  BY DEF Init, UsedInv
<1>2. LoaderInv /\ UsedInv => InitosAccepts
  BY ReaderIsComplete DEF InitosAccepts, UsedInv
<1>3. LoaderInv /\ UsedInv /\ [Next]_vars => UsedInv'
  BY UsedKeeps
<1> QED
  BY <1>1, <1>2, <1>3, LoaderInvariant, PTL DEF Spec

-----------------------------------------------------------------------------
(* How far the loader is from its end; what it verifies tells the places in *)
(* which it verifies apart.                                                 *)
Stage ==
    CASE pc = "config" -> 9
      [] pc = "secureBoot" -> 8
      [] pc = "db" -> 7
      [] pc = "verify" /\ verifying = "config" -> 6
      [] pc = "kernel" -> 5
      [] pc = "verify" /\ verifying = "kernel" -> 4
      [] pc = "initrd" -> 3
      [] pc = "verify" /\ verifying = "initrd" -> 2
      [] pc = "exec" -> 1
      [] OTHER -> 0

(* Every step of the loader brings it nearer to the kernel or to the reset, *)
(* or to the end of the db in the loop of verify_data_signature: it makes a *)
(* bounded number of steps, whatever lists the db has.                      *)
Advances ==
    [][\/ Stage' < Stage
       \/ /\ Stage' = Stage /\ pc = "verify" /\ pc' = "verify" /\ db' = db
          /\ list \in 1..Len(db) /\ list' = list + 1]_vars

(* The safety of LoaderEnds: no path of main and of verify_data_signature   *)
(* goes back, and the loop ends on lists of size 0 and at the last list.    *)
THEOREM LoaderAdvances == Spec => Advances
<1> DEFINE Nearer == \/ Stage' < Stage
                     \/ /\ Stage' = Stage /\ pc = "verify" /\ pc' = "verify" /\ db' = db
                        /\ list \in 1..Len(db) /\ list' = list + 1
<1>1. ASSUME LoaderInv, Next PROVE Nearer
  <2>1. CASE LoadConfig
    BY <2>1 DEF LoadConfig, Load, Reset, Goto, Stage
  <2>2. CASE ReadSecureBoot
    BY <2>2 DEF ReadSecureBoot, Stage
  <2>3. CASE ReadDb
    BY <1>1, <2>3 DEF ReadDb, Reset, Goto, Stage, LoaderInv
  <2>4. CASE LoadKernel
    BY <2>4 DEF LoadKernel, Load, Reset, Goto, Stage
  <2>5. CASE LoadInitrd
    BY <2>5 DEF LoadInitrd, Load, Goto, Stage
  <2>6. ASSUME pc = "verify", list' = list + 1, list <= Len(db), UNCHANGED <<media, pc, verifying>>
        PROVE  Nearer
    <3>1. list \in Nat /\ list > 0 /\ Len(db) \in Nat /\ db' = db
      BY <1>1, <2>6 DEF LoaderInv, TypeOK, media
    <3>2. Stage' = Stage
      BY <2>6 DEF Stage
    <3> QED
      BY <2>6, <3>1, <3>2
  <2>7. CASE VerifyList
    <3>1. /\ pc = "verify" /\ verifying \in Artifacts /\ list \in Nat /\ db # None
          /\ Len(db) \in Nat
      BY <1>1, <2>7 DEF VerifyList, LoaderInv, TypeOK
    <3>2. CASE Reset
      BY <3>1, <3>2 DEF Reset, Goto, Stage, Artifacts
    <3>3. CASE NextList /\ ~ (list > Len(db))
      BY <2>6, <3>1, <3>3 DEF NextList
    <3>4. CASE pc' = After(verifying) /\ verifying' = verifying
      BY <3>1, <3>4 DEF After, Stage, Artifacts
    <3> QED
      BY <2>7, <3>2, <3>3, <3>4 DEF VerifyList
  <2>9. CASE SignatureFault
    BY <2>6, <2>9 DEF SignatureFault
  <2>8. CASE LinuxExec \/ Fault
    BY <2>8 DEF LinuxExec, Fault, Goto, Stage
  <2> QED
    BY <1>1, <2>1, <2>2, <2>3, <2>4, <2>5, <2>6, <2>7, <2>8, <2>9 DEF Next
<1>2. LoaderInv /\ [Next]_vars => [Nearer]_vars
  BY <1>1
<1> QED
  BY <1>2, LoaderInvariant, PTL DEF Spec, Advances

-----------------------------------------------------------------------------
(* What keeps InstalledStarts: the signature of the artifact that is being  *)
(* verified is in a list that has not been looked at.                       *)
SearchInv ==
    /\ InstalledStarts
    /\ faults \in Nat
    /\ secure = "yes" => secureBoot = 1
    /\ pc \in {"secureBoot", "db", "verify"} =>
          loaded[verifying] = file[verifying] /\ file[verifying] # None
    /\ pc = "verify" /\ faults = 0 /\ WellFormed /\ Signed(verifying) =>
          \E k \in Keys, i \in DOMAIN db :
              /\ i >= list /\ [key |-> k, alg |-> "rsa"] \in db[i].certs
              /\ signature[verifying][k] = loaded[verifying]

(* A turn of the loop goes past a list only if the signature is not there.  *)
LEMMA VerifySearches == ASSUME LoaderInv, SearchInv, VerifyList PROVE SearchInv'
<1>0. UNCHANGED media
  BY DEF VerifyList, Reset, Goto, NextList
<1>1. /\ list \in Nat \ {0} /\ Len(db) \in Nat /\ DOMAIN db = 1..Len(db) /\ pc = "verify"
      /\ secure = "yes" /\ secureBoot = 1 /\ db # None /\ verifying \in Artifacts
      /\ \A i \in DOMAIN db : db[i] \in Lists
  BY DEF LoaderInv, TypeOK, VerifyList, SearchInv
<1>2. CASE Reset
  <2>1. ~ WellFormed \/ list > Len(db)
    BY <1>1, <1>2 DEF VerifyList, WellFormed, Reset, Goto, NextList, After, Artifacts
  <2>2. faults = 0 => ~ (WellFormed /\ \A a \in Artifacts : Signed(a))
    <3> SUFFICES ASSUME faults = 0, WellFormed, Signed(verifying) PROVE FALSE
      BY <1>1
    <3>1. PICK k \in Keys, i \in DOMAIN db : i >= list
      BY <1>1, ZenonT(30) DEF SearchInv
    <3> QED
      BY <1>1, <2>1, <3>1
  <2>3. faults' = faults /\ pc' = "reset" /\ secure' = secure
    BY <1>2 DEF Reset, Goto
  <2>4. InstalledStarts'
    BY <1>0, <1>1, <2>2, <2>3, ZenonT(30) DEF InstalledStarts, media, WellFormed, Signed, Certified
  <2> QED
    BY <1>0, <1>1, <2>3, <2>4 DEF SearchInv, media
<1>3. CASE NextList /\ Matching(db[list]) = {} /\ list <= Len(db)
  <2>1. ASSUME faults' = 0, WellFormed', Signed(verifying)'
        PROVE  \E k \in Keys, i \in DOMAIN db' :
                  /\ i >= list' /\ [key |-> k, alg |-> "rsa"] \in db'[i].certs
                  /\ signature'[verifying'][k] = loaded'[verifying']
    <3>1. faults = 0 /\ WellFormed /\ Signed(verifying)
      BY <1>0, <1>3, <2>1, ZenonT(30) DEF NextList, Signed, Certified, WellFormed, media
    <3>2. PICK k \in Keys, i \in DOMAIN db :
              /\ i >= list /\ [key |-> k, alg |-> "rsa"] \in db[i].certs
              /\ signature[verifying][k] = loaded[verifying]
      BY <1>1, <3>1, ZenonT(30) DEF SearchInv
    <3>3. i # list
      BY <1>3, <3>2 DEF Matching
    <3>4. i >= list + 1
      BY <1>1, <3>2, <3>3
    <3> QED
      BY <1>0, <1>3, <3>2, <3>4 DEF NextList, media
  <2>2. pc' = pc /\ faults' = faults /\ secure' = secure /\ loaded' = loaded
        /\ verifying' = verifying
    BY <1>3 DEF NextList
  <2>3. InstalledStarts'
    BY <1>1, <2>2 DEF InstalledStarts
  <2> QED
    BY <1>0, <1>1, <2>1, <2>2, <2>3, ZenonT(30) DEF SearchInv, media
<1>4. CASE /\ pc' = After(verifying)
           /\ UNCHANGED <<media, secure, verifying, list, loaded, faults>>
  <2>1. pc' \in {"kernel", "initrd", "exec"}
    BY <1>1, <1>4 DEF After, Artifacts
  <2> QED
    BY <1>4, <2>1 DEF SearchInv, InstalledStarts, media
<1>5. NextList => Matching(db[list]) = {} \/ ~ (list <= Len(db))
  <2> SUFFICES ASSUME NextList, list <= Len(db) PROVE Matching(db[list]) = {}
    OBVIOUS
  <2>1. CASE db[list].type # "x509"
    <3>1. db[list] \in Lists /\ db[list].certs = {}
      BY <1>1, <2>1, ListsAssumption DEF LoaderInv, VerifyList
    <3> QED
      BY <3>1 DEF Matching
  <2>2. CASE db[list].type = "x509"
    BY <1>1, <2>2 DEF VerifyList, NextList, Reset, Goto, After, Artifacts
  <2> QED
    BY <2>1, <2>2
<1> QED
  BY <1>1, <1>2, <1>3, <1>4, <1>5 DEF VerifyList

(* So do the other steps.                                                   *)
LEMMA SearchKeeps == ASSUME LoaderInv, SearchInv, [Next]_vars PROVE SearchInv'
<1>1. CASE VerifyList
  BY <1>1, VerifySearches
<1>2. CASE Fault \/ SignatureFault
  <2>1. faults \in Nat /\ faults' = faults + 1 /\ UNCHANGED <<media, secure, verifying, loaded>>
    BY <1>2 DEF Fault, SignatureFault, SearchInv
  <2>2. faults' \in Nat /\ faults' # 0
    BY <2>1
  <2>3. pc' \in {"secureBoot", "db", "verify"} => pc = pc'
    BY <1>2 DEF Fault, SignatureFault
  <2> QED
    BY <2>1, <2>2, <2>3 DEF SearchInv, InstalledStarts, media
<1>3. CASE ReadDb
  <2>1. UNCHANGED <<media, secure, verifying, list, loaded, faults>> /\ pc = "db"
        /\ pc' \in {"verify", "reset"}
    BY <1>3 DEF ReadDb, Reset, Goto
  <2>2. secure = "yes" /\ secureBoot = 1 /\ verifying = "config" /\ list = 1
        /\ loaded[verifying] = file[verifying]
    BY <2>1 DEF LoaderInv, SearchInv
  <2>3. pc' = "reset" => ~ (WellFormed /\ db # <<>> /\ dbSize = "fits")
    BY <1>3, <2>1 DEF ReadDb, Reset, Goto, WellFormed
  <2>4. InstalledStarts'
    BY <2>1, <2>2, <2>3 DEF InstalledStarts, media, WellFormed
  <2>5. ASSUME pc' = "verify", Signed(verifying)
        PROVE  \E k \in Keys, i \in DOMAIN db :
                  /\ i >= 1 /\ [key |-> k, alg |-> "rsa"] \in db[i].certs
                  /\ signature[verifying][k] = loaded[verifying]
    <3>1. file[verifying] # None
      BY <2>1 DEF SearchInv
    <3>2. db # None
      BY <1>3, <2>5 DEF ReadDb, Reset, Goto
    <3>3. DOMAIN db = 1..Len(db) /\ Len(db) \in Nat
      BY <3>2 DEF LoaderInv, TypeOK
    <3>4. PICK k \in Keys : Certified(k) /\ signature[verifying][k] = file[verifying]
      BY <2>5, <3>1 DEF Signed
    <3>5. PICK i \in DOMAIN db : [key |-> k, alg |-> "rsa"] \in db[i].certs
      BY <3>4 DEF Certified
    <3> QED
      BY <2>2, <3>3, <3>4, <3>5
  <2> QED
    BY <2>1, <2>2, <2>4, <2>5 DEF SearchInv, media, Signed, Certified
<1>4. ASSUME NEW a \in Artifacts, NEW then, Load(a, then),
             then \in {"secureBoot", "initrd", "verify", "exec"},
             then = "verify" => secure = "yes" /\ db # None
      PROVE  SearchInv'
  <2>1. /\ UNCHANGED <<media, secure, faults>> /\ pc' = then /\ verifying' = a /\ list' = 1
        /\ loaded'[a] = file[a] /\ file[a] # None
    BY <1>4 DEF Load, LoaderInv, TypeOK
  <2>2. ASSUME then = "verify", Signed(a)
        PROVE  \E k \in Keys, i \in DOMAIN db :
                  /\ i >= 1 /\ [key |-> k, alg |-> "rsa"] \in db[i].certs
                  /\ signature[a][k] = loaded'[a]
    <3>1. DOMAIN db = 1..Len(db) /\ Len(db) \in Nat
      BY <1>4, <2>2 DEF LoaderInv, TypeOK
    <3> QED
      BY <2>1, <2>2, <3>1 DEF Signed, Certified
  <2>3. InstalledStarts'
    BY <1>4, <2>1 DEF InstalledStarts
  <2> QED
    BY <2>1, <2>2, <2>3 DEF SearchInv, media, Signed, Certified
<1>5. CASE LoadConfig
  <2>1. CASE Load("config", "secureBoot")
    BY <1>4, <2>1 DEF Artifacts
  <2>2. CASE file["config"] = None /\ Reset
    BY <2>2 DEF Reset, Goto, SearchInv, InstalledStarts, media
  <2> QED
    BY <1>5, <2>1, <2>2 DEF LoadConfig
<1>6. CASE LoadKernel
  <2>1. CASE Load("kernel", IF secure = "yes" THEN "verify" ELSE "initrd")
    BY <1>4, <1>6, <2>1 DEF Artifacts, LoadKernel, LoaderInv
  <2>2. CASE file["kernel"] = None /\ Reset
    BY <2>2 DEF Reset, Goto, SearchInv, InstalledStarts, media
  <2> QED
    BY <1>6, <2>1, <2>2 DEF LoadKernel
<1>7. CASE LoadInitrd
  <2>1. CASE Load("initrd", IF secure = "yes" THEN "verify" ELSE "exec")
    BY <1>4, <1>7, <2>1 DEF Artifacts, LoadInitrd, LoaderInv
  <2>2. CASE pc' = "exec" /\ UNCHANGED <<media, secure>> /\ faults' \in Nat
    BY <2>2 DEF SearchInv, InstalledStarts, media
  <2> QED
    BY <1>7, <2>1, <2>2 DEF LoadInitrd, Goto, SearchInv
<1>8. CASE ReadSecureBoot
  <2>1. /\ UNCHANGED <<media, verifying, list, loaded>> /\ pc = "secureBoot"
        /\ pc' \in {"db", "kernel"} /\ faults' \in Nat /\ (secure' = "yes" => secureBoot = 1)
    BY <1>8 DEF ReadSecureBoot, SearchInv
  <2> QED
    BY <2>1 DEF SearchInv, InstalledStarts, media
<1>9. CASE LinuxExec
  BY <1>9 DEF LinuxExec, Goto, SearchInv, InstalledStarts, media
<1>10. CASE UNCHANGED vars
  BY <1>10 DEF vars, media, SearchInv, InstalledStarts, WellFormed, Signed, Certified
<1> QED
  BY <1>1, <1>2, <1>3, <1>5, <1>6, <1>7, <1>8, <1>9, <1>10 DEF Next

(* A slot that is complete and signed starts, with every db that is well-   *)
(* formed and of any length, unless a call of the firmware fails.           *)
THEOREM InstalledSlotStarts == Spec => []InstalledStarts
<1>1. Init => SearchInv
  BY DEF Init, SearchInv, InstalledStarts
<1>2. LoaderInv /\ SearchInv /\ [Next]_vars => SearchInv'
  BY SearchKeeps
<1>3. SearchInv => InstalledStarts
  BY DEF SearchInv
<1> QED
  BY <1>1, <1>2, <1>3, LoaderInvariant, PTL DEF Spec

-----------------------------------------------------------------------------
(* Inductive: a digest is that of the content as long as it is used, since  *)
(* nobody writes to a file with fs-verity; only the verifier that builds    *)
(* the tree can take it away again.                                         *)
Measured == {"measured", "verify", "yes"}

VerifierInv(p) ==
    /\ pubKey[p] \in {None, "valid", "malformed"}
    /\ step[p] = "enabling" => verity = "building"
    /\ step[p] \in Measured => verity = "on" /\ digest[p] = content
    /\ step[p] = "verify" =>
          /\ pubKey[p] = None
          /\ \A c \in certs[p] : c.key \in Keys /\ (c.alg = "rsa" => Certified(c.key))
    /\ step[p] = "yes" => SignedFor(p, digest[p])

ImageInv ==
    /\ DOMAIN step = Verifiers /\ DOMAIN digest = Verifiers /\ DOMAIN certs = Verifiers
    /\ writer = "yes" => verity = "off"
    /\ \A p \in Verifiers : VerifierInv(p)
    /\ \A p, q \in Verifiers : step[p] = "enabling" /\ step[q] = "enabling" => p = q

(* What PID 1 reads from the db are certificates of the db.                 *)
LEMMA CertsOfDb ==
    ASSUME LoaderInv, db # None
    PROVE  \A c \in ParseEsl.certs : c.key \in Keys /\ (c.alg = "rsa" => Certified(c.key))
<1> SUFFICES ASSUME NEW c \in ParseEsl.certs
             PROVE  c.key \in Keys /\ (c.alg = "rsa" => Certified(c.key))
  OBVIOUS
<1>1. PICK i \in DOMAIN db : c \in db[i].certs
  BY DEF ParseEsl
<1>2. db[i] \in Lists
  BY DEF LoaderInv, TypeOK
<1>3. c \in [key : Keys, alg : {"rsa", "ec"}]
  BY <1>1, <1>2, ListsAssumption
<1>4. c = [key |-> c.key, alg |-> c.alg]
  BY <1>3
<1> QED
  BY <1>1, <1>3, <1>4 DEF Certified

(* The loader has ended when the image is verified, and stays as it is.     *)
LEMMA LoaderStays == ASSUME LoaderInv, [ImageNext]_all PROVE LoaderInv' /\ UNCHANGED media
<1>1. CASE [Next]_vars
  <2>1. UNCHANGED media
    BY <1>1 DEF Next, LoadConfig, ReadSecureBoot, ReadDb, LoadKernel, LoadInitrd, VerifyList,
       SignatureFault, LinuxExec, Fault, Load, Reset, Goto, NextList, vars
  <2> QED
    BY <1>1, <2>1, NextLoaderInv
<1>2. CASE \E p \in Verifiers : EnableFails(p)
  BY <1>2 DEF EnableFails, LoaderInv, TypeOK, Certified, media
<1> QED
  BY <1>1, <1>2 DEF ImageNext, Verify, Start, Measure, Enable, Enabled, CheckKey, ReadCerts, TryCert,
     OpenToWrite, Write, all

(* What was signed for whom does not change.                                *)
LEMMA SignedStays ==
    ASSUME UNCHANGED <<imageSig, plainSig, pubKey, db>>
    PROVE  /\ \A k : Certified(k) <=> Certified(k)'
           /\ \A p, d : SignedFor(p, d) <=> SignedFor(p, d)'
<1>1. \A k : Certified(k) <=> Certified(k)'
  BY DEF Certified
<1> QED
  BY <1>1 DEF SignedFor

(* A verifier that does nothing is disturbed only by a change of fs-verity. *)
LEMMA OtherVerifier ==
    ASSUME NEW q \in Verifiers, VerifierInv(q),
           UNCHANGED <<content, imageSig, plainSig, pubKey, db>>,
           step'[q] = step[q] /\ digest'[q] = digest[q] /\ certs'[q] = certs[q],
           verity' = verity \/ step[q] \notin Measured \cup {"enabling"}
    PROVE  VerifierInv(q)'
<1>1. \A k : Certified(k) <=> Certified(k)'
  BY SignedStays
<1>2. SignedFor(q, digest[q]) => SignedFor(q, digest[q])'
  BY SignedStays DEF SignedFor
<1>3. step[q] = "yes" => step[q] \in Measured
  BY DEF Measured
<1>4. step[q] = "verify" => step[q] \in Measured
  BY DEF Measured
<1> QED
  BY <1>1, <1>2, <1>3, <1>4 DEF VerifierInv

(* Each step of a verifier changes only its own entries.                    *)
LEMMA ImageKeeps ==
    ASSUME LoaderInv, ImageInv, NEW p \in Verifiers, Verify(p), UNCHANGED media
    PROVE  ImageInv'
<1> DEFINE Others == \A q \in Verifiers \ {p} :
                 step'[q] = step[q] /\ digest'[q] = digest[q] /\ certs'[q] = certs[q]
<1>0. /\ DOMAIN step' = Verifiers /\ DOMAIN digest' = Verifiers /\ DOMAIN certs' = Verifiers
      /\ Others /\ UNCHANGED <<content, imageSig, plainSig, pubKey, writer, db>>
  BY ZenonT(30) DEF Verify, Start, Measure, Enable, Enabled, EnableFails, CheckKey, ReadCerts, TryCert,
     Continue, Return, ImageInv, image, media
<1>a. VerifierInv(p) /\ pubKey[p] \in {None, "valid", "malformed"}
  BY ZenonT(30) DEF ImageInv, VerifierInv
<1>b. ASSUME verity' = verity, step'[p] # "enabling", VerifierInv(p)' PROVE ImageInv'
  <2>1. \A q \in Verifiers : VerifierInv(q)'
    BY <1>0, <1>b, OtherVerifier, ZenonT(30) DEF ImageInv
  <2> QED
    BY <1>0, <1>b, <2>1, ZenonT(30) DEF ImageInv
<1>c. ASSUME verity' = verity, step'[p] \notin Measured \cup {"enabling"} PROVE ImageInv'
  <2>1. VerifierInv(p)'
    BY <1>0, <1>a, <1>c, ZenonT(30) DEF VerifierInv, Measured
  <2> QED
    BY <1>b, <1>c, <2>1
<1>d. SignedFor(p, digest[p]) /\ digest'[p] = digest[p] => SignedFor(p, digest[p])'
  BY <1>0, SignedStays, ZenonT(30) DEF SignedFor
<1>1. CASE Start(p) \/ Measure(p)
  <2>1. verity' = verity
        /\ \/ step'[p] \in {"measure", "enable", "error"}
           \/ step'[p] = "measured" /\ verity = "on" /\ digest'[p] = content
    BY <1>1 DEF Start, Measure, Continue, Return, ImageInv, image
  <2>2. CASE step'[p] = "measured" /\ verity = "on" /\ digest'[p] = content
    <3>1. VerifierInv(p)'
      BY <1>0, <1>a, <2>1, <2>2 DEF VerifierInv
    <3> QED
      BY <1>b, <2>1, <2>2, <3>1
  <2> QED
    BY <1>c, <2>1, <2>2 DEF Measured
<1>2. CASE Enable(p)
  <2>1. CASE verity = "off" /\ writer = "no" /\ verity' = "building" /\ step'[p] = "enabling"
    <3>1. \A q \in Verifiers : step[q] \notin Measured \cup {"enabling"}
      BY <2>1 DEF ImageInv, VerifierInv
    <3>2. VerifierInv(p)'
      BY <1>0, <1>a, <2>1 DEF VerifierInv, Measured
    <3>3. \A q \in Verifiers : VerifierInv(q)'
      BY <1>0, <3>1, <3>2, OtherVerifier DEF ImageInv
    <3> QED
      BY <1>0, <2>1, <3>1, <3>3 DEF ImageInv
  <2>2. CASE verity' = verity /\ step'[p] = "error"
    BY <1>c, <2>2 DEF Measured
  <2> QED
    BY <1>2, <2>1, <2>2 DEF Enable, Continue, Return, ImageInv
<1>3. CASE Enabled(p) \/ EnableFails(p)
  <2>1. step[p] = "enabling" /\ step'[p] \in {"again", "error"}
    BY <1>3 DEF Enabled, EnableFails, Continue, Return, At, ImageInv
  <2>2. verity = "building"
    BY <1>a, <2>1 DEF VerifierInv
  <2>3. \A q \in Verifiers \ {p} : step[q] \notin Measured \cup {"enabling"}
    BY <2>1, <2>2 DEF ImageInv, VerifierInv
  <2>4. VerifierInv(p)'
    BY <1>0, <1>a, <2>1 DEF VerifierInv, Measured
  <2>5. \A q \in Verifiers : VerifierInv(q)'
    BY <1>0, <2>3, <2>4, OtherVerifier DEF ImageInv
  <2> QED
    BY <1>0, <2>1, <2>2, <2>3, <2>5 DEF ImageInv
<1>4. CASE ReadCerts(p)
  <2>1. verity' = verity /\ digest'[p] = digest[p] /\ step[p] = "measured"
        /\ \/ step'[p] = "error"
           \/ step'[p] = "verify" /\ pubKey[p] = None /\ db # None /\ certs'[p] = ParseEsl.certs
    BY <1>4 DEF ReadCerts, Continue, Return, At, ImageInv, image
  <2>2. CASE step'[p] = "verify" /\ pubKey[p] = None /\ db # None /\ certs'[p] = ParseEsl.certs
    <3>1. verity = "on" /\ digest[p] = content
      BY <1>a, <2>1 DEF VerifierInv, Measured
    <3>2. \A c \in certs'[p] : c.key \in Keys /\ (c.alg = "rsa" => Certified(c.key)')
      BY <1>0, <2>2, CertsOfDb, SignedStays
    <3>3. VerifierInv(p)'
      BY <1>0, <2>1, <2>2, <3>1, <3>2 DEF VerifierInv
    <3> QED
      BY <1>b, <2>1, <2>2, <3>3
  <2> QED
    BY <1>c, <2>1, <2>2 DEF Measured
<1>5. CASE TryCert(p)
  <2>1. verity' = verity /\ digest'[p] = digest[p] /\ step[p] = "verify"
    BY <1>5 DEF TryCert, Continue, Return, At, ImageInv, image
  <2>2. /\ verity = "on" /\ digest[p] = content /\ pubKey[p] = None
        /\ \A c \in certs[p] : c.key \in Keys /\ (c.alg = "rsa" => Certified(c.key))
    BY <1>a, <2>1 DEF VerifierInv, Measured
  <2>3. CASE step'[p] \in {"no", "error"}
    BY <1>c, <2>1, <2>3 DEF Measured
  <2>4. CASE step'[p] = "verify" /\ certs'[p] \subseteq certs[p]
    <3>1. \A c \in certs'[p] : c.key \in Keys /\ (c.alg = "rsa" => Certified(c.key)')
      BY <1>0, <2>2, <2>4, SignedStays
    <3>2. VerifierInv(p)'
      BY <1>0, <2>1, <2>2, <2>4, <3>1 DEF VerifierInv
    <3> QED
      BY <1>b, <2>1, <2>4, <3>2
  <2>5. CASE step'[p] = "yes" /\ \E c \in certs[p] : Verifies(p, c)
    <3>1. SignedFor(p, digest[p])
      BY <2>2, <2>5 DEF Verifies, SignedFor
    <3>2. VerifierInv(p)'
      BY <1>0, <1>a, <1>d, <2>1, <2>2, <2>5, <3>1, SMTT(30) DEF VerifierInv
    <3> QED
      BY <1>b, <2>1, <2>5, <3>2
  <2> QED
    BY <1>5, <2>3, <2>4, <2>5 DEF TryCert, Continue, Return, At, ImageInv
<1>6. CASE CheckKey(p)
  <2>1. verity' = verity /\ digest'[p] = digest[p] /\ step[p] = "measured"
    BY <1>6, ZenonT(30) DEF CheckKey, Return, At, ImageInv, image
  <2>2. verity = "on" /\ digest[p] = content
    BY <1>a, <2>1, ZenonT(30) DEF VerifierInv, Measured
  <2>3. CASE step'[p] \in {"no", "error"}
    BY <1>c, <2>1, <2>3 DEF Measured
  <2>4. CASE step'[p] = "yes" /\ pubKey[p] \notin {None, "malformed"} /\ plainSig = digest[p]
    <3>1. SignedFor(p, digest[p])
      BY <1>a, <2>4 DEF SignedFor
    <3>2. VerifierInv(p)'
      BY <1>0, <1>a, <1>d, <2>1, <2>2, <2>4, <3>1, ZenonT(30) DEF VerifierInv
    <3> QED
      BY <1>b, <2>1, <2>4, <3>2
  <2> QED
    BY <1>6, <2>3, <2>4, ZenonT(30) DEF CheckKey, Continue, Return, ImageInv
<1> QED
  BY <1>1, <1>2, <1>3, <1>4, <1>5, <1>6 DEF Verify

(* Together with the steps of the programs that write the image.            *)
LEMMA NextImageInv == ASSUME LoaderInv, ImageInv, [ImageNext]_all PROVE ImageInv'
<1>1. UNCHANGED media
  BY LoaderStays
<1>2. CASE \E p \in Verifiers : Verify(p)
  BY <1>1, <1>2, ImageKeeps
<1>3. CASE OpenToWrite \/ UNCHANGED <<image, verifier>>
  <2>1. /\ verity' = verity /\ (writer' = "yes" => writer = "yes" \/ verity = "off")
        /\ UNCHANGED <<verifier, content, imageSig, plainSig, pubKey, db>>
    BY <1>1, <1>3 DEF OpenToWrite, image, media
  <2>2. \A p \in Verifiers : VerifierInv(p)'
    BY <2>1, OtherVerifier DEF ImageInv, verifier
  <2> QED
    BY <2>1, <2>2 DEF ImageInv, verifier
<1>4. CASE Write
  <2>1. /\ verity = "off" /\ writer' = "no"
        /\ UNCHANGED <<verifier, verity, imageSig, plainSig, pubKey, db>>
    BY <1>1, <1>4 DEF Write, ImageInv, media
  <2>2. \A p \in Verifiers : step[p] \notin Measured \cup {"enabling"}
    BY <2>1 DEF ImageInv, VerifierInv
  <2>3. \A p \in Verifiers : VerifierInv(p)'
    BY <2>1, <2>2 DEF ImageInv, VerifierInv, verifier, Measured
  <2> QED
    BY <2>1, <2>3 DEF ImageInv, verifier
<1> QED
  BY <1>2, <1>3, <1>4 DEF ImageNext, all

LEMMA ImageInvariant == ImageSpec => [](LoaderInv /\ ImageInv)
<1>1. ImageInit => LoaderInv /\ ImageInv
  BY InitLoaderInv DEF ImageInit, ImageInv, VerifierInv, Measured
<1>2. LoaderInv /\ ImageInv /\ [ImageNext]_all => LoaderInv' /\ ImageInv'
  BY LoaderStays, NextImageInv
<1> QED
  BY <1>1, <1>2, PTL DEF ImageSpec

(* What a verifier accepts is and stays what its key or one of the db has   *)
(* signed, with any number of verifiers and of programs that write it.      *)
THEOREM AcceptedStaysSigned == ImageSpec => []AcceptedIsSigned
<1>1. ImageInv => AcceptedIsSigned
  BY DEF ImageInv, VerifierInv, Measured, AcceptedIsSigned
<1> QED
  BY <1>1, ImageInvariant, PTL

-----------------------------------------------------------------------------
(* What keeps InstalledIsAccepted: nobody writes to an image as installed,  *)
(* fs-verity is not taken away again, and the certificate whose key has     *)
(* signed stays among those that are still to be tried.                     *)
NeverRefused(p) ==
    /\ step[p] # "no"
    /\ step[p] = "error" => verity # "off"
    /\ step[p] = "again" => verity = "on"
    /\ step[p] = "verify" => \E c \in certs[p] : c.alg = "rsa" /\ imageSig[c.key] = content

AcceptInv ==
    /\ faults \in Nat /\ writes \in Nat
    /\ content \in Contents \cup {None}
    /\ writes = 0 => writer = "no"
    /\ Installed => \A p \in Verifiers : SignedFor(p, content) => NeverRefused(p)

(* An image as installed was one before the step, and with the same content *)
(* and the same signatures.                                                 *)
LEMMA InstalledBefore ==
    ASSUME LoaderInv, ImageInv, AcceptInv, [ImageNext]_all
    PROVE  /\ faults' \in Nat /\ writes' \in Nat
           /\ content' \in Contents \cup {None}
           /\ writes' = 0 => writer' = "no"
           /\ Installed' => Installed /\ content' = content
           /\ UNCHANGED <<imageSig, plainSig, pubKey, db, supported>>
<1>1. UNCHANGED <<imageSig, plainSig, pubKey, supported>>
  BY ZenonT(30) DEF ImageNext, Verify, Start, Measure, Enable, Enabled, EnableFails, CheckKey, ReadCerts,
     TryCert, OpenToWrite, Write, image, all
<1>2. UNCHANGED db
  BY LoaderStays DEF media
<1>3. faults' = faults \/ faults' = faults + 1
  BY ZenonT(30) DEF ImageNext, Verify, Start, Measure, Enable, Enabled, EnableFails, CheckKey, ReadCerts,
     TryCert, OpenToWrite, Write, all, vars, Next, LoadConfig, ReadSecureBoot, ReadDb, LoadKernel,
     LoadInitrd, VerifyList, SignatureFault, LinuxExec, Fault, Load, Reset, Goto, NextList
<1>4. CASE Write
  <2>1. writer = "yes" /\ writer' = "no" /\ writes' = writes /\ content' \in Contents
    BY <1>4 DEF Write
  <2>2. writes' # 0
    BY <2>1 DEF AcceptInv
  <2> QED
    BY <1>1, <1>2, <1>3, <2>1, <2>2 DEF AcceptInv, Installed
<1>5. CASE OpenToWrite
  <2>1. writes' = writes + 1 /\ content' = content
    BY <1>5 DEF OpenToWrite
  <2>2. writes' \in Nat /\ writes' # 0
    BY <2>1 DEF AcceptInv
  <2> QED
    BY <1>1, <1>2, <1>3, <2>1, <2>2 DEF AcceptInv, Installed
<1>6. CASE UNCHANGED <<content, writer, writes>>
  <2>1. faults' \in Nat /\ (faults' = 0 => faults = 0)
    BY <1>3 DEF AcceptInv
  <2> QED
    BY <1>1, <1>2, <1>6, <2>1 DEF AcceptInv, Installed, WellFormed
<1> QED
  BY <1>4, <1>5, <1>6, ZenonT(30) DEF ImageNext, Verify, Start, Measure, Enable, Enabled, EnableFails,
     CheckKey, ReadCerts, TryCert, image, all

(* A verifier that does nothing: fs-verity is only added.                   *)
LEMMA OtherNotRefused ==
    ASSUME NEW q \in Verifiers, NeverRefused(q), UNCHANGED <<content, imageSig>>,
           step'[q] = step[q], certs'[q] = certs[q],
           verity = "on" => verity' = "on", verity # "off" => verity' # "off"
    PROVE  NeverRefused(q)'
BY DEF NeverRefused

(* The steps of a verifier that the image is signed for.                    *)
LEMMA VerifierNotRefused ==
    ASSUME LoaderInv, ImageInv, AcceptInv, NEW p \in Verifiers, Verify(p), faults' = 0,
           UNCHANGED media, Installed, SignedFor(p, content), NeverRefused(p)
    PROVE  /\ NeverRefused(p)'
           /\ verity = "on" => verity' = "on"
           /\ verity # "off" => verity' # "off"
<1>1. /\ content \in Contents /\ content # None /\ writer = "no" /\ supported = "yes"
      /\ DOMAIN step = Verifiers /\ DOMAIN certs = Verifiers /\ DOMAIN digest = Verifiers
      /\ VerifierInv(p)
  BY ZenonT(30) DEF AcceptInv, Installed, ImageInv
<1>2. UNCHANGED <<content, imageSig>>
  BY ZenonT(30) DEF Verify, Start, Measure, Enable, Enabled, EnableFails, CheckKey, ReadCerts, TryCert, image
<1>3. ASSUME verity' = verity, step'[p] \in {"measure", "enable", "measured", "yes"}
      PROVE  NeverRefused(p)'
  BY <1>3 DEF NeverRefused
<1>4. CASE Start(p)
  BY <1>1, <1>3, <1>4 DEF Start, Continue, image
<1>5. CASE Measure(p)
  <2>1. verity' = verity
        /\ \/ step'[p] \in {"measured", "enable"}
           \/ step[p] = "again" /\ verity # "on"
    BY <1>1, <1>5 DEF Measure, At, Continue, Return, image
  <2> QED
    BY <1>3, <2>1 DEF NeverRefused
<1>6. CASE Enable(p)
  <2>1. \/ verity = "off" /\ verity' = "building" /\ step'[p] = "enabling"
        \/ verity # "off" /\ verity' = verity /\ step'[p] = "error"
    BY <1>1, <1>6 DEF Enable, Continue, Return
  <2> QED
    BY <2>1 DEF NeverRefused
<1>7. CASE Enabled(p)
  <2>1. verity' = "on" /\ step'[p] = "again"
    BY <1>1, <1>7 DEF Enabled, Continue
  <2> QED
    BY <2>1 DEF NeverRefused
<1>8. CASE EnableFails(p)
  <2>1. faults = 0 /\ faults' = faults + 1
    BY <1>8 DEF EnableFails, Installed
  <2> QED
    BY <2>1
<1>9. CASE CheckKey(p)
  <2>1. step[p] = "measured" /\ digest[p] = content /\ verity' = verity
    BY <1>1, <1>9, ZenonT(30) DEF CheckKey, At, VerifierInv, Measured, image
  <2>2. pubKey[p] = "valid" /\ plainSig = content
    BY <1>9, ZenonT(30) DEF CheckKey, SignedFor
  <2>3. step'[p] = "yes"
    BY <1>1, <1>9, <2>1, <2>2, SMTT(30) DEF CheckKey, Return, Continue, Contents
  <2> QED
    BY <1>3, <2>1, <2>3
<1>10. CASE ReadCerts(p)
  <2>1. verity' = verity /\ pubKey[p] = None
    BY <1>10 DEF ReadCerts, image
  <2>2. PICK k \in Keys : Certified(k) /\ imageSig[k] = content
    BY <2>1 DEF SignedFor
  <2>3. ParseEsl.error = "no" /\ [key |-> k, alg |-> "rsa"] \in ParseEsl.certs
    BY <2>2, ReaderIsComplete DEF Installed
  <2>4. step'[p] = "verify" /\ certs'[p] = ParseEsl.certs
    BY <1>1, <1>10, <2>3, ZenonT(30) DEF ReadCerts, Continue, Installed
  <2>5. \E c \in certs'[p] : c.alg = "rsa" /\ imageSig'[c.key] = content'
    BY <1>2, <2>2, <2>3, <2>4, SMTT(30)
  <2> QED
    BY <2>1, <2>4, <2>5, ZenonT(30) DEF NeverRefused
<1>11. CASE TryCert(p)
  <2>1. step[p] = "verify" /\ digest[p] = content /\ verity' = verity
        /\ \A c \in certs[p] : c.key \in Keys
    BY <1>1, <1>11, ZenonT(30) DEF TryCert, At, VerifierInv, Measured, image
  <2>2. PICK c \in certs[p] : c.alg = "rsa" /\ imageSig[c.key] = content
    BY <2>1 DEF NeverRefused
  <2>3. \A d \in certs[p] : ~ Unreadable(d)
    BY <2>1, ZenonT(30) DEF Unreadable, Installed
  <2>4. CASE step'[p] = "yes"
    BY <1>3, <2>1, <2>4
  <2>5. CASE step' = step /\ \E d \in certs[p] : ~ Verifies(p, d) /\ certs'[p] = certs[p] \ {d}
    <3>1. c \in certs'[p]
      BY <2>1, <2>2, <2>5 DEF Verifies
    <3> QED
      BY <1>2, <2>1, <2>2, <2>5, <3>1 DEF NeverRefused
  <2> QED
    BY <1>1, <1>11, <2>2, <2>3, <2>4, <2>5, ZenonT(30) DEF TryCert, Return, Continue
<1> QED
  BY <1>4, <1>5, <1>6, <1>7, <1>8, <1>9, <1>10, <1>11, ZenonT(30) DEF Verify, Start, Measure, CheckKey,
     ReadCerts, TryCert, image

(* The steps of the loader and of writers, and those of one verifier seen   *)
(* by all.                                                                  *)
LEMMA NextAcceptInv == ASSUME LoaderInv, ImageInv, AcceptInv, [ImageNext]_all PROVE AcceptInv'
<1>1. SUFFICES ASSUME Installed', NEW q \in Verifiers, SignedFor(q, content)'
               PROVE  NeverRefused(q)'
  BY InstalledBefore DEF AcceptInv
<1>2. /\ Installed /\ content' = content /\ faults' = 0 /\ writer = "no"
      /\ UNCHANGED <<imageSig, plainSig, pubKey, db, media>>
  BY <1>1, InstalledBefore, LoaderStays DEF Installed, AcceptInv
<1>3. \A p \in Verifiers : SignedFor(p, content)' => SignedFor(p, content)
  BY <1>2, SignedStays DEF SignedFor
<1>4. NeverRefused(q)
  BY <1>1, <1>2, <1>3 DEF AcceptInv
<1>5. CASE verity' = verity /\ UNCHANGED verifier
  BY <1>2, <1>4, <1>5, OtherNotRefused DEF verifier
<1>6. ASSUME NEW p \in Verifiers, Verify(p) PROVE NeverRefused(q)'
  <2>1. CASE p = q
    BY <1>1, <1>2, <1>3, <1>4, <1>6, <2>1, VerifierNotRefused
  <2>2. CASE p # q
    <3>1. step'[q] = step[q] /\ certs'[q] = certs[q]
      BY <1>6, <2>2, ZenonT(30) DEF Verify, Start, Measure, Enable, Enabled, EnableFails, CheckKey, ReadCerts,
         TryCert, Continue, Return, ImageInv
    <3>2. verity = "on" => verity' = "on"
      BY <1>6, ZenonT(30) DEF Verify, Start, Measure, Enable, Enabled, EnableFails, CheckKey, ReadCerts,
         TryCert, At, ImageInv, VerifierInv, image
    <3>3. verity # "off" => verity' # "off"
      <4>1. ~ EnableFails(p)
        BY <1>2 DEF EnableFails, Installed
      <4> QED
        BY <1>6, <4>1, ZenonT(30) DEF Verify, Start, Measure, Enable, Enabled, CheckKey, ReadCerts, TryCert, image
    <3> QED
      BY <1>2, <1>4, <3>1, <3>2, <3>3, OtherNotRefused
  <2> QED
    BY <2>1, <2>2
<1>7. ~ Write
  BY <1>2 DEF Write
<1> QED
  BY <1>5, <1>6, <1>7 DEF ImageNext, OpenToWrite, image, all

(* An image as installed is accepted by whoever it is signed for, however   *)
(* the verifiers interleave; an error leaves it with fs-verity or about to  *)
(* have it.                                                                 *)
THEOREM InstalledImageAccepted == ImageSpec => []InstalledIsAccepted
<1>1. ImageInit => AcceptInv
  BY SMTT(30) DEF ImageInit, Init, AcceptInv, NeverRefused
<1>2. LoaderInv /\ ImageInv /\ AcceptInv /\ [ImageNext]_all => AcceptInv'
  BY NextAcceptInv
<1>3. AcceptInv => InstalledIsAccepted
  BY DEF AcceptInv, NeverRefused, InstalledIsAccepted
<1> QED
  BY <1>1, <1>2, <1>3, ImageInvariant, PTL DEF ImageSpec

(* The verification of images does not disturb what holds of the loader.    *)
THEOREM LoaderInComposition == ImageSpec => [](StartedIsSigned /\ InitosAccepts /\ InstalledStarts)
<1>1. ImageInit => UsedInv /\ SearchInv
  BY SMTT(30) DEF ImageInit, Init, UsedInv, SearchInv, InstalledStarts
<1>2. LoaderInv /\ UsedInv /\ SearchInv /\ [ImageNext]_all => UsedInv' /\ SearchInv'
  <2> SUFFICES ASSUME LoaderInv, UsedInv, SearchInv, [ImageNext]_all PROVE UsedInv' /\ SearchInv'
    OBVIOUS
  <2>1. CASE [Next]_vars
    BY <2>1, UsedKeeps, SearchKeeps
  <2>2. CASE \E p \in Verifiers : EnableFails(p)
    <3>1. /\ UNCHANGED <<media, pc, secure, verifying, list, loaded, used>> /\ pc = "started"
          /\ faults' = faults + 1
      BY <2>2 DEF EnableFails, At
    <3>2. faults' \in Nat
      BY <3>1 DEF SearchInv
    <3> QED
      BY <3>1, <3>2 DEF UsedInv, Certified, SearchInv, InstalledStarts, media
  <2> QED
    BY <2>1, <2>2, ZenonT(30) DEF ImageNext, Verify, Start, Measure, Enable, Enabled, CheckKey, ReadCerts,
       TryCert, OpenToWrite, Write, all
<1>3. LoaderInv /\ UsedInv /\ SearchInv => StartedIsSigned /\ InitosAccepts /\ InstalledStarts
  BY ReaderIsComplete, ZenonT(30) DEF LoaderInv, StartedIsSigned, InitosAccepts, UsedInv, SearchInv
<1> QED
  BY <1>1, <1>2, <1>3, ImageInvariant, PTL DEF ImageSpec
=============================================================================
