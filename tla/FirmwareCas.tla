----------------------------- MODULE FirmwareCas -----------------------------
(***************************************************************************)
(* The firmware store /z/img/composefs/objects that both slots share: the   *)
(* commands initos-upgrade firmware-fetch, initos-firmware-oci import and   *)
(* the part of initos-upgrade install that relies on the store.             *)
(*                                                                          *)
(* Commands run side by side, fail at any step and are cut off by power     *)
(* loss.  /z is one journalled ext4: what is on the disk is what was in     *)
(* memory at some earlier moment (the data and the verity flag of a file    *)
(* are on the disk before fsverity enable returns).                         *)
(***************************************************************************)
EXTENDS FiniteSets

CONSTANTS Digests, Revisions, Images, Bundles, Slots, Procs,
          Blobs,      \* the files of a Git revision
          Objects,    \* the objects that a composefs image refers to
          Payload,    \* the files of an OCI image: <<name, "good" or "wrong">>
          None

ASSUME InputsAssumption ==
    /\ Blobs \in [Revisions -> SUBSET Digests]
    /\ Objects \in [Images -> SUBSET Digests]
    /\ Payload \in [Bundles -> SUBSET (Digests \X {"good", "wrong"})]
    /\ None \notin Images
    /\ \A f \in Digests \X {"sealed", "wrong"} : f # None

VARIABLES cas,       \* the store, in memory
          tree,      \* firmware-objects/trees/REV of each slot: its links
          trees,     \* the slots that have a firmware-objects/trees
          firmware,  \* the composefs image of each slot
          dcas, dtree, dtrees, dfirmware,   \* the same on the disk
          pc, job,
          todo,      \* files not dealt with yet
          file,      \* a staged file with verity, about to be moved
          links      \* the links of the staged tree

memory == <<cas, tree, trees, firmware>>
disk == <<dcas, dtree, dtrees, dfirmware>>
procs == <<pc, job, todo, file, links>>
vars == <<memory, disk, procs>>

(* An object in the store has the content its name says and verity, or not. *)
Object == {"absent", "sealed", "wrong"}
Job == [image : Images, slot : Slots \cup {None}, rev : Revisions \cup {None}]
Trees == [Slots \X Revisions -> (SUBSET Digests) \cup {None}]

Init ==
    /\ cas = [d \in Digests |-> "absent"]
    /\ tree = [x \in Slots \X Revisions |-> None]
    /\ trees = {}
    /\ firmware = [s \in Slots |-> None]
    /\ dcas = cas /\ dtree = tree /\ dtrees = trees /\ dfirmware = firmware
    /\ pc = [p \in Procs |-> "idle"]
    /\ job = [p \in Procs |-> None]
    /\ todo = [p \in Procs |-> {}]
    /\ file = [p \in Procs |-> None]
    /\ links = [p \in Procs |-> {}]

Present == {d \in Digests : cas[d] # "absent"}

(* composefs-info missing-objects fails if an object is missing.            *)
NoneMissing(image) == Objects[image] \subseteq Present

(* A command begins with its own stage directory.                           *)
Begin(p, step, j, files) ==
    /\ pc[p] = "idle"
    /\ pc' = [pc EXCEPT ![p] = step]
    /\ job' = [job EXCEPT ![p] = j]
    /\ todo' = [todo EXCEPT ![p] = files]
    /\ UNCHANGED <<file, links>>

Goto(p, step) == pc' = [pc EXCEPT ![p] = step] /\ UNCHANGED <<job, todo, file, links>>

(* A command ends and its stage is removed.                                 *)
End(p) ==
    /\ pc' = [pc EXCEPT ![p] = "idle"]
    /\ job' = [job EXCEPT ![p] = None]
    /\ todo' = [todo EXCEPT ![p] = {}]
    /\ file' = [file EXCEPT ![p] = None]
    /\ links' = [links EXCEPT ![p] = {}]

(* An object is dealt with: on to the next one.                             *)
Handled(p, x) ==
    /\ todo' = [todo EXCEPT ![p] = @ \ {x}]
    /\ links' = [links EXCEPT ![p] = @ \cup {x[1]}]
    /\ file' = [file EXCEPT ![p] = None]
    /\ UNCHANGED <<pc, job>>

(* The staged file is on its way into the store.                            *)
Staged(p, d, content) ==
    /\ file' = [file EXCEPT ![p] = <<d, content>>]
    /\ UNCHANGED <<pc, job, todo, links>>

Store(p) ==
    /\ file[p] # None
    /\ cas' = [cas EXCEPT ![file[p][1]] = file[p][2]]
    /\ Handled(p, <<file[p][1], "good">>)
    /\ UNCHANGED <<tree, trees, firmware, disk>>

-----------------------------------------------------------------------------
(* initos-upgrade firmware-fetch.                                           *)

FetchStart(p) ==
    \E r \in Revisions, i \in Images, s \in Slots :
        /\ Begin(p, "fetch", [image |-> i, slot |-> s, rev |-> r], Blobs[r] \X {"good"})
        /\ trees' = trees \cup {s}
        /\ UNCHANGED <<cas, tree, firmware, disk>>

(* mutation: the link is made first, and the object moved later            *)
FetchLinksFirst(p) ==
    /\ pc[p] = "fetch" /\ file[p] = None
    /\ \E x \in todo[p] : Handled(p, x)
    /\ UNCHANGED <<memory, disk>>

(* The name is the digest of the blob.  A file that is in the store is kept *)
(* as it is; otherwise verity is enabled on the staged one.                 *)
FetchBlob(p) ==
    /\ pc[p] = "fetch" /\ file[p] = None
    /\ \E x \in todo[p] :
          IF cas[x[1]] # "absent" THEN Handled(p, x) ELSE Staged(p, x[1], "sealed")
    /\ UNCHANGED <<memory, disk>>

FetchMove(p) == pc[p] = "fetch" /\ Store(p)

FetchVerify(p) ==
    /\ pc[p] = "fetch" /\ todo[p] = {}
    /\ NoneMissing(job[p].image)
    /\ Goto(p, "tree")
    /\ UNCHANGED <<memory, disk>>

(* trees/REV is kept if it exists, even if another command has put it there *)
(* since; moving onto it only nests the new one in it.  The link current,   *)
(* which nothing else reads, is left out.                                   *)
FetchTree(p) ==
    LET x == <<job[p].slot, job[p].rev>> IN
    /\ pc[p] = "tree"
    /\ x[1] \in trees
    /\ tree' = IF tree[x] = None THEN [tree EXCEPT ![x] = links[p]] ELSE tree
    /\ End(p)
    /\ UNCHANGED <<cas, trees, firmware, disk>>

-----------------------------------------------------------------------------
(* initos-firmware-oci import.                                              *)

ImportStart(p) ==
    \E b \in Bundles, i \in Images :
        /\ Begin(p, "import", [image |-> i, slot |-> None, rev |-> None], Payload[b])
        /\ UNCHANGED <<memory, disk>>

(* mutation: the digest is not compared with the name                      *)
ImportUnchecked(p) ==
    /\ pc[p] = "import" /\ file[p] = None
    /\ \E x \in todo[p] :
          IF cas[x[1]] = "absent"
          THEN Staged(p, x[1], IF x[2] = "good" THEN "sealed" ELSE "wrong")
          ELSE cas[x[1]] = "sealed" /\ Handled(p, x)
    /\ UNCHANGED <<memory, disk>>

(* The digest must be the name, of the file and of what is in the store.    *)
ImportObject(p) ==
    /\ pc[p] = "import" /\ file[p] = None
    /\ \E x \in todo[p] :
          /\ x[2] = "good"
          /\ IF cas[x[1]] = "absent" THEN Staged(p, x[1], "sealed")
             ELSE cas[x[1]] = "sealed" /\ Handled(p, x)
    /\ UNCHANGED <<memory, disk>>

ImportMove(p) == pc[p] = "import" /\ Store(p)

ImportVerify(p) ==
    /\ pc[p] = "import" /\ todo[p] = {}
    /\ NoneMissing(job[p].image)
    /\ End(p)
    /\ UNCHANGED <<memory, disk>>

-----------------------------------------------------------------------------
(* initos-upgrade install.                                                  *)

(* mutation: the store is not looked at                                    *)
InstallUnchecked(p) ==
    /\ \E i \in Images, s \in Slots :
          Begin(p, "install", [image |-> i, slot |-> s, rev |-> None], {})
    /\ UNCHANGED <<memory, disk>>

InstallCheck(p) ==
    /\ \E i \in Images, s \in Slots :
          /\ NoneMissing(i)
          /\ Begin(p, "install", [image |-> i, slot |-> s, rev |-> None], {})
    /\ UNCHANGED <<memory, disk>>

(* The new slot directory comes with its image and without the trees of the *)
(* old one.  A fetch into this slot loses what it has staged: a file, for   *)
(* good; its links, as mkdir -p makes a new stage for the next ones.        *)
InstallPlace(p) ==
    LET s == job[p].slot
        lost == {q \in Procs : pc[q] \in {"fetch", "tree"} /\ job[q].slot = s} IN
    /\ pc[p] = "install"
    /\ firmware' = [firmware EXCEPT ![s] = job[p].image]
    /\ tree' = [x \in Slots \X Revisions |-> IF x[1] = s THEN None ELSE tree[x]]
    /\ trees' = trees \ {s}
    /\ pc' = [q \in Procs |-> IF q = p THEN "idle"
                              ELSE IF q \in lost /\ (file[q] # None \/ todo[q] = {})
                              THEN "failing" ELSE pc[q]]
    /\ links' = [q \in Procs |-> IF q \in lost THEN {} ELSE links[q]]
    /\ job' = [job EXCEPT ![p] = None]
    /\ UNCHANGED <<cas, disk, todo, file>>

-----------------------------------------------------------------------------
(* mutation: a command that fails takes back what it has added             *)
AbortRollsBack(p) ==
    /\ pc[p] # "idle"
    /\ cas' = [d \in Digests |-> IF d \in links[p] THEN "absent" ELSE cas[d]]
    /\ End(p)
    /\ UNCHANGED <<tree, trees, firmware, disk>>

(* set -e and the EXIT trap: the stage goes, what is in the store stays.    *)
Abort(p) ==
    /\ pc[p] # "idle"
    /\ End(p)
    /\ UNCHANGED <<memory, disk>>

(* The journal commits.                                                     *)
Commit ==
    /\ dcas' = cas /\ dtree' = tree /\ dtrees' = trees /\ dfirmware' = firmware
    /\ UNCHANGED <<memory, procs>>

PowerLoss ==
    /\ cas' = dcas /\ tree' = dtree /\ trees' = dtrees /\ firmware' = dfirmware
    /\ pc' = [p \in Procs |-> "idle"]
    /\ job' = [p \in Procs |-> None]
    /\ todo' = [p \in Procs |-> {}]
    /\ file' = [p \in Procs |-> None]
    /\ links' = [p \in Procs |-> {}]
    /\ UNCHANGED disk

Next ==
    \/ \E p \in Procs :
          \/ FetchStart(p) \/ FetchBlob(p) \/ FetchMove(p) \/ FetchVerify(p)
          \/ FetchTree(p)
          \/ ImportStart(p) \/ ImportObject(p) \/ ImportMove(p) \/ ImportVerify(p)
          \/ InstallCheck(p) \/ InstallPlace(p) \/ Abort(p)
    \/ Commit
    \/ PowerLoss

Spec == Init /\ [][Next]_vars

-----------------------------------------------------------------------------
(* The store, the trees and the commands are in well-formed states.         *)
TypeOK ==
    /\ cas \in [Digests -> Object] /\ dcas \in [Digests -> Object]
    /\ tree \in Trees /\ dtree \in Trees
    /\ trees \subseteq Slots /\ dtrees \subseteq Slots
    /\ firmware \in [Slots -> Images \cup {None}]
    /\ dfirmware \in [Slots -> Images \cup {None}]
    /\ pc \in [Procs -> {"idle", "fetch", "tree", "import", "install", "failing"}]
    /\ job \in [Procs -> Job \cup {None}]
    /\ todo \in [Procs -> SUBSET (Digests \X {"good", "wrong"})]
    /\ file \in [Procs -> (Digests \X {"sealed", "wrong"}) \cup {None}]
    /\ links \in [Procs -> SUBSET Digests]

(* Whatever commands run side by side, fail or are cut off, each object in  *)
(* the store, in memory and on the disk, has the content that its name says *)
(* and verity enabled: firmware-fetch relies on it when it keeps an object  *)
(* that exists without measuring it.                                        *)
CasSound == \A d \in Digests : {cas[d], dcas[d]} \subseteq {"absent", "sealed"}

(* A slot that was installed finds every object of its firmware image, also *)
(* after a power loss, and after any later command on the store: install    *)
(* checks the objects long before it moves the slot into place.             *)
SlotFirmwareComplete ==
    \A s \in Slots :
        /\ firmware[s] # None => NoneMissing(firmware[s])
        /\ dfirmware[s] # None =>
              Objects[dfirmware[s]] \subseteq {d \in Digests : dcas[d] # "absent"}

(* No link in a tree that firmware-fetch has published dangles, in memory   *)
(* or on the disk, even if the slot was replaced during the fetch.          *)
NoDanglingLinks ==
    \A x \in Slots \X Revisions :
        /\ tree[x] # None => tree[x] \subseteq Present
        /\ dtree[x] # None => dtree[x] \subseteq {d \in Digests : dcas[d] # "absent"}

(* The store on the disk only grows: no command, failure or power loss      *)
(* removes or replaces an object (docs: "append-only fs-verity firmware     *)
(* CAS").                                                                   *)
AppendOnly == [][\A d \in Digests : dcas[d] # "absent" => dcas'[d] = dcas[d]]_vars

(* What a command has dealt with, staged or checked is in order.            *)
CommandInv(p) ==
    /\ links[p] \subseteq Present
    /\ file[p] # None => file[p][2] = "sealed"
    /\ pc[p] \in {"fetch", "tree"} => job[p] \in Job /\ job[p].slot \in Slots
                                      /\ job[p].rev \in Revisions
    /\ pc[p] = "install" => job[p] \in Job /\ job[p].slot \in Slots
                            /\ NoneMissing(job[p].image)

(* Inductive: the disk is never ahead of the memory, and the links and the  *)
(* image that a fetch or an install is about to publish are in the store.   *)
CasInv ==
    /\ TypeOK
    /\ \A d \in Digests : dcas[d] # "absent" => cas[d] = dcas[d]
    /\ \A p \in Procs : CommandInv(p)
    /\ CasSound
    /\ SlotFirmwareComplete
    /\ NoDanglingLinks
=============================================================================
