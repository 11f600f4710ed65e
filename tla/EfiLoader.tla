------------------------------- MODULE EfiLoader ------------------------------
(***************************************************************************)
(* The EFI loader of a slot (src/src/bin/efi.rs): main reads the config,    *)
(* the kernel and the initrd from the boot partition, verifies each against *)
(* the RSA certificates of the UEFI db when SecureBoot is on, and starts    *)
(* the kernel; every failure resets the machine.  ParseEsl is the second    *)
(* reader of the db (src/src/efi.rs), which PID 1 uses for the images.      *)
(*                                                                          *)
(* Contents of files are abstract, and so are signatures: the content that  *)
(* was signed.  A file that can be opened is read whole.                    *)
(***************************************************************************)
EXTENDS Integers, Sequences

CONSTANTS Lists,       \* signature lists that the db may have
          MaxLists, Keys, MaxFaults, None

ASSUME LoaderAssumption == MaxLists \in Nat /\ None \notin {"config", "kernel", "initrd"}
                           /\ None \notin UNION {[1..n -> Lists] : n \in 0..MaxLists}

(* Only an X.509 list has certificates.                                     *)
ASSUME ListsAssumption ==
    \A l \in Lists : /\ l.certs \subseteq [key : Keys, alg : {"rsa", "ec"}]
                     /\ l.type # "x509" => l.certs = {}

Artifacts == {"config", "kernel", "initrd"}

VARIABLES secureBoot,  \* the variable: 0, 1 or None (it cannot be read)
          db, dbSize,  \* a sequence of lists; "fits" in 4096 bytes or not
          file,        \* the content of each artifact, or None
          signature,   \* signature[a][k]: what k has signed for a, or None
          header,      \* the setup header of the kernel: "valid" or not
          pc, secure,
          verifying,   \* the artifact that is being verified
          list,        \* and the signature list that is next
          loaded,      \* contents in memory
          used,        \* keys that have verified something
          faults

media == <<secureBoot, db, dbSize, file, signature, header>>
vars == <<media, pc, secure, verifying, list, loaded, used, faults>>

Dbs == UNION {[1..n -> Lists] : n \in 0..MaxLists}

Init ==
    /\ secureBoot \in {0, 1, None}
    /\ db \in Dbs \cup {None}
    /\ dbSize \in {"fits", "large"}
    /\ file \in [Artifacts -> {"released", None}]
    /\ signature \in [Artifacts -> [Keys -> {"released", "older", None}]]
    /\ header \in {"valid", "invalid"}
    /\ pc = "config" /\ secure = "no"
    /\ verifying = None /\ list = 0
    /\ loaded = [a \in Artifacts |-> None]
    /\ used = {}
    /\ faults = 0

-----------------------------------------------------------------------------
Goto(step) == pc' = step /\ UNCHANGED <<media, secure, verifying, list, loaded, used, faults>>

(* fail_and_reboot                                                          *)
Reset == Goto("reset")

(* A call of the firmware fails (read, allocate_pages, get_variable).       *)
Fault ==
    /\ pc \in {"config", "db", "kernel", "exec"}
    /\ faults < MaxFaults
    /\ pc' = "reset" /\ faults' = faults + 1
    /\ UNCHANGED <<media, secure, verifying, list, loaded, used>>

(* What comes after the artifact has been accepted.                         *)
After(a) == CASE a = "config" -> "kernel" [] a = "kernel" -> "initrd" [] a = "initrd" -> "exec"

(* load_file_to_memory, load_kernel_to_address                              *)
Load(a, step) ==
    /\ file[a] # None
    /\ loaded' = [loaded EXCEPT ![a] = file[a]]
    /\ pc' = step
    /\ verifying' = a /\ list' = 1
    /\ UNCHANGED <<media, secure, used, faults>>

LoadConfig ==
    /\ pc = "config"
    /\ \/ Load("config", "secureBoot")
       \/ file["config"] = None /\ Reset

(* A variable that cannot be read counts as off.                            *)
ReadSecureBoot ==
    /\ pc = "secureBoot"
    /\ \/ secure' = (IF secureBoot = 1 THEN "yes" ELSE "no") /\ UNCHANGED faults
       \/ secure' = "no" /\ faults < MaxFaults /\ faults' = faults + 1
    /\ pc' = IF secure' = "yes" THEN "db" ELSE "kernel"
    /\ UNCHANGED <<media, verifying, list, loaded, used>>

(* A db that is missing, empty or larger than the buffer is an error.       *)
ReadDb ==
    /\ pc = "db"
    /\ IF db \in {None, <<>>} \/ dbSize = "large" THEN Reset ELSE Goto("verify")

LoadKernel ==
    /\ pc = "kernel"
    /\ \/ Load("kernel", IF secure = "yes" THEN "verify" ELSE "initrd")
       \/ file["kernel"] = None /\ Reset

(* The initrd is optional, whatever the reason it was not loaded for.       *)
LoadInitrd ==
    /\ pc = "initrd"
    /\ \/ Load("initrd", IF secure = "yes" THEN "verify" ELSE "exec")
       \/ file["initrd"] = None /\ Goto("exec")
       \/ faults < MaxFaults /\ pc' = "exec" /\ faults' = faults + 1
          /\ UNCHANGED <<media, secure, verifying, list, loaded, used>>

(* mutation: the file is enough                                            *)
MatchingFile(l) ==
    {k \in Keys : [key |-> k, alg |-> "rsa"] \in l.certs /\ signature[verifying][k] # None}

(* The RSA certificates of a list for which there is a signature file with  *)
(* a signature of the content.                                              *)
Matching(l) ==
    {k \in Keys : [key |-> k, alg |-> "rsa"] \in l.certs
                  /\ signature[verifying][k] = loaded[verifying]}

NextList == list' = list + 1 /\ UNCHANGED <<media, pc, secure, verifying, loaded, used, faults>>

(* mutation: a list of size 0 is skipped, by 0 bytes                       *)
VerifyNoBreak ==
    /\ pc = "verify"
    /\ IF list > Len(db) \/ db[list].size \in {"bad", "overrun"} THEN Reset
       ELSE IF db[list].size = "zero" THEN UNCHANGED vars
       ELSE IF Matching(db[list]) = {} THEN NextList
       ELSE /\ pc' = After(verifying)
            /\ used' = used \cup Matching(db[list])
            /\ UNCHANGED <<media, secure, verifying, list, loaded, faults>>

(* mutation: only the first X.509 list is looked at                        *)
VerifyFirstList ==
    /\ pc = "verify"
    /\ IF list > Len(db) \/ db[list].size # "fits" THEN Reset
       ELSE IF db[list].type # "x509" THEN NextList
       ELSE IF Matching(db[list]) = {} THEN Reset
       ELSE /\ pc' = After(verifying)
            /\ used' = used \cup Matching(db[list])
            /\ UNCHANGED <<media, secure, verifying, list, loaded, faults>>

(* One turn of the loop of verify_data_signature.                           *)
VerifyList ==
    /\ pc = "verify"
    /\ IF list > Len(db) \/ db[list].size \in {"zero", "overrun"} THEN Reset
       ELSE IF db[list].type # "x509" THEN NextList
       ELSE IF db[list].size = "bad" THEN Reset
       ELSE IF Matching(db[list]) = {} THEN NextList
       ELSE /\ pc' = After(verifying)
            /\ used' = used \cup Matching(db[list])
            /\ UNCHANGED <<media, secure, verifying, list, loaded, faults>>

(* A signature file that cannot be read counts as missing.                  *)
SignatureFault ==
    /\ pc = "verify" /\ faults < MaxFaults
    /\ list <= Len(db) /\ db[list].type = "x509" /\ db[list].size = "fits"
    /\ list' = list + 1 /\ faults' = faults + 1
    /\ UNCHANGED <<media, pc, secure, verifying, loaded, used>>

(* linux_exec: the checks of the setup header, then the handover.           *)
LinuxExec ==
    /\ pc = "exec"
    /\ Goto(IF header = "valid" THEN "started" ELSE "reset")

Next ==
    \/ LoadConfig \/ ReadSecureBoot \/ ReadDb \/ LoadKernel \/ LoadInitrd
    \/ VerifyList \/ SignatureFault \/ LinuxExec \/ Fault

Spec == Init /\ [][Next]_vars

(* The loader is the only program that runs.                                *)
FairSpec == Spec /\ WF_vars(Next)

-----------------------------------------------------------------------------
(* mutation: the first list of another type ends the loop                  *)
ParseOnlyFirst ==
    [error |-> "no", certs |-> UNION {db[k].certs : k \in {1} \cap DOMAIN db}]

(* parse_esl of PID 1: the certificates of the X.509 lists up to the first  *)
(* list that is not sound, or an error.  It differs from the loader on      *)
(* lists of size 0 and on a list that overruns the db, of which it takes    *)
(* the certificates that are there.                                         *)
ParseEsl ==
    LET read == {k \in DOMAIN db : /\ \A j \in 1..(k - 1) : db[j].size = "fits"
                                   /\ db[k].type = "x509"} IN
    [error |-> IF \E k \in read : db[k].size \in {"zero", "bad"} THEN "yes" ELSE "no",
     certs |-> UNION {db[k].certs : k \in read}]

-----------------------------------------------------------------------------
(* The loader is in a well-formed state.                                    *)
TypeOK ==
    /\ pc \in {"config", "secureBoot", "db", "kernel", "initrd", "verify", "exec",
               "started", "reset"}
    /\ secure \in {"no", "yes"} /\ verifying \in Artifacts \cup {None}
    /\ list \in Nat /\ db \in Seq(Lists) \cup {None}
    /\ DOMAIN loaded = Artifacts

Certified(k) == \E i \in DOMAIN db : [key |-> k, alg |-> "rsa"] \in db[i].certs

(* When the loader has read SecureBoot as on, it starts a kernel only with  *)
(* a config, a kernel and, if there is one, an initrd each of which carries *)
(* a signature of what is in memory by an RSA key of the db, whatever the   *)
(* db looks like.                                                           *)
StartedIsSigned ==
    pc = "started" /\ secure = "yes" =>
        \A a \in Artifacts : loaded[a] # None =>
            \E k \in Keys : Certified(k) /\ signature[a][k] = loaded[a]

(* Inductive: what has been loaded is signed, except the artifact that is   *)
(* being verified; the config is not verified before the db is read.        *)
LoaderInv ==
    /\ TypeOK
    /\ pc \in {"config", "secureBoot"} => secure = "no"
    /\ pc \in {"config", "secureBoot", "db"} => loaded["kernel"] = None /\ loaded["initrd"] = None
    /\ pc \in {"secureBoot", "db"} => verifying = "config" /\ list = 1
    /\ pc = "db" => secure = "yes"
    /\ pc = "verify" => list > 0 /\ verifying # None /\ secure = "yes"
    /\ secure = "yes" /\ pc \notin {"db", "reset"} => db # None
    /\ secure = "yes" /\ pc \notin {"db", "reset"} =>
          \A a \in Artifacts : loaded[a] # None /\ ~ (pc = "verify" /\ verifying = a) =>
              \E k \in Keys : Certified(k) /\ signature[a][k] = loaded[a]

WellFormed == db # None /\ \A i \in DOMAIN db : db[i].size = "fits"

Signed(a) == file[a] # None => \E k \in Keys : Certified(k) /\ signature[a][k] = file[a]

(* An installed slot starts: the loader resets the machine without a fault  *)
(* only if the config or the kernel is missing, the header is invalid, or,  *)
(* with SecureBoot on, the db is malformed, empty or larger than 4096 bytes *)
(* or an artifact is not signed by one of its keys.                         *)
InstalledStarts ==
    pc = "reset" /\ faults = 0 =>
        \/ file["config"] = None \/ file["kernel"] = None \/ header # "valid"
        \/ secureBoot = 1 /\ ~ (WellFormed /\ db # <<>> /\ dbSize = "fits"
                                /\ \A a \in Artifacts : Signed(a))

(* The two readers of the db agree: PID 1 accepts the keys that the loader  *)
(* has used, if the db is well-formed.                                      *)
InitosAccepts ==
    pc = "started" /\ used # {} /\ WellFormed =>
        /\ ParseEsl.error = "no"
        /\ \A k \in used : [key |-> k, alg |-> "rsa"] \in ParseEsl.certs

(* The loader starts a kernel or resets the machine, also with a db that    *)
(* has a list of size 0.                                                    *)
LoaderEnds == <>(pc \in {"started", "reset"})
=============================================================================
