----------------------------- MODULE ImageVerify -----------------------------
(***************************************************************************)
(* What follows the loader: the kernel is up, and PID 1 and commands like   *)
(* initos verify check the fs-verity digest of an image against the db that *)
(* the loader has used (src/src/verify.rs, src/src/verity.rs).  A file that *)
(* has no fs-verity yet gets it on the way, while other programs verify the *)
(* same file or still write to it.                                          *)
(*                                                                          *)
(* A digest stands for the content that it was computed from, a signature   *)
(* for the content that was signed.                                         *)
(***************************************************************************)
EXTENDS EfiLoader

CONSTANTS Verifiers,
          MaxWrites     \* bound on the programs that open the image to write

ASSUME VerifyAssumption == MaxWrites \in Nat

VARIABLES content,      \* what the image holds, or None
          verity,       \* fs-verity of the image: "off", "building", "on"
          supported,    \* the file system is writable and has fs-verity
          imageSig,     \* IMAGE.KEYID.db.sig: None, "unreadable" or what was signed
          plainSig,     \* IMAGE.sig: None, "malformed" or what was signed
          pubKey,       \* INITOS_PUB_KEY of each verifier: None, "valid", "malformed"
          writer,       \* whether a program has the image open to write
          writes,
          step,         \* the step of each verifier
          digest,       \* the digest that it has measured
          certs         \* the certificates that it has not yet tried

image == <<content, verity, supported, imageSig, plainSig, pubKey, writer, writes>>
verifier == <<step, digest, certs>>
all == <<vars, image, verifier>>

Contents == {"released", "older"}

ImageInit ==
    /\ Init
    /\ content \in Contents \cup {None}
    /\ verity \in {"off", "on"}
    /\ content = None => verity = "off"
    /\ supported \in {"yes", "no"}
    /\ imageSig \in [Keys -> Contents \cup {None, "unreadable"}]
    /\ plainSig \in Contents \cup {None, "malformed"}
    /\ pubKey \in [Verifiers -> {None, "valid", "malformed"}]
    /\ writer = "no" /\ writes = 0
    /\ step = [p \in Verifiers |-> "idle"]
    /\ digest = [p \in Verifiers |-> None]
    /\ certs = [p \in Verifiers |-> {}]

-----------------------------------------------------------------------------
At(p, s) == pc = "started" /\ step[p] = s
Continue(p, s) == step' = [step EXCEPT ![p] = s]
Return(p, result) ==
    /\ Continue(p, result)
    /\ certs' = [certs EXCEPT ![p] = {}]
    /\ UNCHANGED digest

Start(p) ==
    /\ pc = "started" /\ step[p] \in {"idle", "yes", "no", "error"}
    /\ Continue(p, "measure")
    /\ digest' = [digest EXCEPT ![p] = None] /\ certs' = [certs EXCEPT ![p] = {}]
    /\ UNCHANGED <<vars, image>>

(* mutation: a file without fs-verity is hashed instead                    *)
MeasureContent(p) ==
    /\ \/ At(p, "measure") \/ At(p, "again")
    /\ IF content # None
       THEN Continue(p, "measured") /\ digest' = [digest EXCEPT ![p] = content] /\ UNCHANGED certs
       ELSE Return(p, "error")
    /\ UNCHANGED <<vars, image>>

(* FS_IOC_MEASURE_VERITY, which needs a complete tree.  The second time its *)
(* error is that of the command; the first time fs-verity is enabled.       *)
Measure(p) ==
    /\ At(p, "measure") \/ At(p, "again")
    /\ IF verity = "on"
       THEN Continue(p, "measured") /\ digest' = [digest EXCEPT ![p] = content] /\ UNCHANGED certs
       ELSE IF step[p] = "measure" /\ content # None
       THEN Continue(p, "enable") /\ UNCHANGED <<digest, certs>>
       ELSE Return(p, "error")
    /\ UNCHANGED <<vars, image>>

(* FS_IOC_ENABLE_VERITY: refused while the file is open to write, while     *)
(* another program enables it, and once it is enabled.                      *)
Enable(p) ==
    /\ At(p, "enable")
    /\ \/ /\ supported = "yes" /\ writer = "no" /\ verity = "off"
          /\ verity' = "building" /\ Continue(p, "enabling")
          /\ UNCHANGED <<digest, certs>>
       \/ /\ supported = "no" \/ writer = "yes" \/ verity # "off"
          /\ Return(p, "error") /\ UNCHANGED verity
    /\ UNCHANGED <<vars, content, supported, imageSig, plainSig, pubKey, writer, writes>>

(* The tree is complete, or could not be written.                           *)
Enabled(p) ==
    /\ At(p, "enabling")
    /\ verity' = "on"
    /\ Continue(p, "again")
    /\ UNCHANGED <<vars, content, supported, imageSig, plainSig, pubKey, writer, writes, digest, certs>>

EnableFails(p) ==
    /\ At(p, "enabling") /\ faults < MaxFaults
    /\ faults' = faults + 1
    /\ verity' = "off"
    /\ Return(p, "error")
    /\ UNCHANGED <<media, pc, secure, verifying, list, loaded, used>>
    /\ UNCHANGED <<content, supported, imageSig, plainSig, pubKey, writer, writes>>

(* verify_signature: an Ed25519 key given to the command replaces the db.   *)
CheckKey(p) ==
    /\ At(p, "measured") /\ pubKey[p] # None
    /\ Return(p, IF plainSig \in {None, "malformed"} \/ pubKey[p] = "malformed" THEN "error"
                 ELSE IF plainSig = digest[p] THEN "yes" ELSE "no")
    /\ UNCHANGED <<vars, image>>

(* read_db: the certificates of PID 1's reader.                             *)
ReadCerts(p) ==
    /\ At(p, "measured") /\ pubKey[p] = None
    /\ IF db # None /\ ParseEsl.error = "no"
       THEN /\ Continue(p, "verify") /\ certs' = [certs EXCEPT ![p] = ParseEsl.certs]
            /\ UNCHANGED digest
       ELSE Return(p, "error")
    /\ UNCHANGED <<vars, image>>

(* Signature files are read for RSA keys only.                              *)
Unreadable(c) == c.alg = "rsa" /\ imageSig[c.key] = "unreadable"

(* The key is one for RSA, and has signed the digest.                       *)
Verifies(p, c) == c.alg = "rsa" /\ imageSig[c.key] = digest[p]

(* mutation: a key that has not signed ends the loop                       *)
TryOneCert(p) ==
    /\ At(p, "verify")
    /\ \E c \in certs[p] : Return(p, IF Verifies(p, c) THEN "yes" ELSE "no")
    /\ UNCHANGED <<vars, image>>

(* One turn of the loop over the certificates: no signature file, or not    *)
(* one of this digest, leads to the next.                                   *)
TryCert(p) ==
    /\ At(p, "verify")
    /\ \/ certs[p] = {} /\ Return(p, "no")
       \/ \E c \in certs[p] :
            \/ Unreadable(c) /\ Return(p, "error")
            \/ Verifies(p, c) /\ Return(p, "yes")
            \/ /\ ~ Unreadable(c) /\ ~ Verifies(p, c)
               /\ certs' = [certs EXCEPT ![p] = @ \ {c}]
               /\ UNCHANGED <<step, digest>>
    /\ UNCHANGED <<vars, image>>

-----------------------------------------------------------------------------
(* Another program that writes the image: the kernel lets it open a file    *)
(* only without fs-verity.                                                  *)
OpenToWrite ==
    /\ pc = "started" /\ content # None
    /\ verity = "off" /\ writer = "no" /\ writes < MaxWrites
    /\ writer' = "yes" /\ writes' = writes + 1
    /\ UNCHANGED <<vars, verifier, content, verity, supported, imageSig, plainSig, pubKey>>

Write ==
    /\ writer = "yes"
    /\ content' \in Contents /\ writer' = "no"
    /\ UNCHANGED <<vars, verifier, verity, supported, imageSig, plainSig, pubKey, writes>>

Verify(p) ==
    \/ Start(p) \/ Measure(p) \/ Enable(p) \/ Enabled(p) \/ EnableFails(p)
    \/ CheckKey(p) \/ ReadCerts(p) \/ TryCert(p)

ImageNext ==
    \/ Next /\ UNCHANGED <<image, verifier>>
    \/ \E p \in Verifiers : Verify(p)
    \/ OpenToWrite \/ Write

ImageSpec == ImageInit /\ [][ImageNext]_all

-----------------------------------------------------------------------------
(* What a verifier asks of an image: a signature by its own key if it has   *)
(* one, and by an RSA key of the db otherwise.                              *)
SignedFor(p, what) ==
    IF pubKey[p] = None THEN \E k \in Keys : Certified(k) /\ imageSig[k] = what
    ELSE pubKey[p] = "valid" /\ plainSig = what

(* An image that a verifier has accepted holds, from then on, a content     *)
(* that was signed for this verifier, although the file may have been       *)
(* written and enabled by others while it was verified.                     *)
AcceptedIsSigned ==
    \A p \in Verifiers : step[p] = "yes" => verity = "on" /\ SignedFor(p, content)

(* An image as it is installed, with readable signatures and a db that both *)
(* readers understand.                                                      *)
Installed ==
    /\ db # None /\ WellFormed /\ supported = "yes" /\ faults = 0 /\ writes = 0
    /\ \A k \in Keys : imageSig[k] # "unreadable"
    /\ content # None

(* No verifier that such an image is signed for rejects it.  One that loses *)
(* the race to enable fs-verity ends with an error, and leaves an image on  *)
(* which the next verification needs no enabling.                           *)
InstalledIsAccepted ==
    Installed => \A p \in Verifiers : SignedFor(p, content) =>
        /\ step[p] # "no"
        /\ step[p] = "error" => verity # "off"
=============================================================================
