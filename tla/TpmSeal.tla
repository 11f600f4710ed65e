------------------------------- MODULE TpmSeal -------------------------------
(***************************************************************************)
(* The sealed secret in the TPM, over many boots: the commands seal,        *)
(* unseal, primary and lock_tpm of src/src/main.rs, which may run side by   *)
(* side (the resource manager /dev/tpmrm0 gives each its own session and    *)
(* transient objects), and the unlock by PID 1 in src/src/boot.rs.          *)
(*                                                                          *)
(* PCR 7 is <<sb, n>>: the firmware measures the Secure Boot setting sb,    *)
(* n = 0; an extend with 32 random bytes makes it a value never seen        *)
(* before, n > 0.  Every TPM command can fail, after the retries of         *)
(* tpm_transact or at once, and the machine can be reset between any two.   *)
(***************************************************************************)
EXTENDS Naturals

CONSTANTS Procs,        \* processes that run commands
          Secrets,      \* what may be sealed
          MaxExtends,   \* bound on the extends of PCR 7 in a behaviour
          None

ASSUME MaxExtendsAssumption == MaxExtends \in Nat

VARIABLES sb,        \* the Secure Boot setting of the firmware
          pcr7,
          extends,   \* extends so far
          object,    \* what is persistent at each handle
          stage,     \* "pid1" until PID 1 has dealt with /z/c, then "up"
          locked,    \* an extend of PCR 7 was reported in this boot
          pc,        \* the step of each process
          job,       \* its command, with the arguments resolved
          session,   \* the PCR 7 that its policy session has seen
          secret,    \* what PID 1 has unsealed in this boot
          printed,   \* what the step just taken has printed
          held,      \* handles that have held an object
          torn       \* handles emptied by a command that then did not finish

vars == <<sb, pcr7, extends, object, stage, locked, pc, job, session, secret,
          printed, held, torn>>

Modes == {"dev", "secure"}
Settings == {"on", "off"}
Pcr == Settings \X (0..MaxExtends)
Firmware(s) == <<s, 0>>

(* SealMode::persistent_handle, 0x81001002 and 0x81001003, and              *)
(* DEFAULT_PRIMARY_HANDLE, 0x81000000.                                      *)
Handles == Modes \cup {"primary"}
Sealed == [mode : Modes, key : Secrets, pcr : Pcr]

ASSUME NoneAssumption == None \notin Sealed \cup {"key"}

Job == [cmd : {"seal", "unseal"}, mode : Modes, handle : Modes, key : Secrets]
           \cup [cmd : {"primary"}, handle : {"primary"}]

Init ==
    /\ sb \in Settings
    /\ pcr7 = Firmware(sb)
    /\ extends = 0
    /\ object = [h \in Handles |-> None]
    /\ stage = "pid1"
    /\ locked = "no"
    /\ pc = [p \in Procs |-> "idle"]
    /\ job = [p \in Procs |-> None]
    /\ session = [p \in Procs |-> None]
    /\ secret = None
    /\ printed = None
    /\ held = {}
    /\ torn = {}

(* detect_seal_mode: an unreadable SecureBoot variable means Dev.           *)
DetectSealMode(readable) == IF readable /\ sb = "on" THEN "secure" ELSE "dev"

(* parse_seal_args and parse_unseal_args: --dev, --secure or neither, and   *)
(* --handle or the one of the mode.                                         *)
Arguments ==
    (Modes \X Modes) \cup {<<DetectSealMode(r), DetectSealMode(r)>> : r \in BOOLEAN}

(* Unseal: the policy session still describes PCR 7, and satisfies the      *)
(* policy of the object.                                                    *)
Satisfies(h, seen) == object[h] # None /\ seen = pcr7 /\ object[h].pcr = seen

(* mutation: the prefix is not looked at                                   *)
PrefixIgnored(h, mode) == TRUE

(* strip_tpm_prefix: "devc:" or "secc:" in front of what was sealed.        *)
PrefixMatches(h, mode) == object[h].mode = mode

Extended == <<sb, extends + 1>>

(* A process has emptied the handle, and not filled it yet.                 *)
Evicting(p, h) == pc[p] = "evicted" /\ job[p].handle = h

-----------------------------------------------------------------------------
(* PID 1.                                                                   *)

(* unlock_c_with_tpm and its fallback to the password.  The extend may fail *)
(* or its response be lost, and is skipped when the secret does not open    *)
(* /z/c.                                                                    *)
Unlock ==
    LET mode == IF sb = "on" THEN "secure" ELSE "dev" IN
    /\ stage = "pid1"
    /\ stage' = "up"
    /\ \/ /\ Satisfies(mode, pcr7) /\ PrefixMatches(mode, mode)
          /\ secret' = object[mode]
          /\ \/ /\ extends < MaxExtends
                /\ pcr7' = Extended
                /\ extends' = extends + 1
                /\ locked' \in {"no", "yes"}
             \/ UNCHANGED <<pcr7, extends, locked>>
       \/ UNCHANGED <<secret, pcr7, extends, locked>>
    /\ UNCHANGED <<sb, object, pc, job, session, held, torn>>

(* The machine is reset, and its Secure Boot setting may be changed.        *)
Reset ==
    /\ sb' \in Settings
    /\ pcr7' = Firmware(sb')
    /\ stage' = "pid1"
    /\ locked' = "no"
    /\ torn' = torn \cup {h \in Handles : object[h] = None /\ \E p \in Procs : Evicting(p, h)}
    /\ pc' = [p \in Procs |-> "idle"]
    /\ job' = [p \in Procs |-> None]
    /\ session' = [p \in Procs |-> None]
    /\ secret' = None
    /\ UNCHANGED <<extends, object, held>>

-----------------------------------------------------------------------------
(* The commands.                                                            *)

(* A seal or an unseal begins with a policy session and PolicyPCR.          *)
Start(p) ==
    /\ stage = "up" /\ pc[p] = "idle"
    /\ \E cmd \in {"seal", "unseal"}, a \in Arguments, k \in Secrets :
          job' = [job EXCEPT ![p] = [cmd |-> cmd, mode |-> a[1], handle |-> a[2], key |-> k]]
    /\ pc' = [pc EXCEPT ![p] = "policy"]
    /\ session' = [session EXCEPT ![p] = pcr7]
    /\ UNCHANGED <<sb, pcr7, extends, object, stage, locked, secret, held, torn>>

Return(p) == /\ pc' = [pc EXCEPT ![p] = "idle"]
             /\ job' = [job EXCEPT ![p] = None]
             /\ session' = [session EXCEPT ![p] = None]

(* unseal_key_from_handle and cmd_unseal: the secret, if the policy is      *)
(* satisfied and the prefix is the one of the mode.                         *)
Unseal(p) ==
    /\ pc[p] = "policy" /\ job[p].cmd = "unseal"
    /\ Satisfies(job[p].handle, session[p])
    /\ PrefixMatches(job[p].handle, job[p].mode)
    /\ printed' = object[job[p].handle]
    /\ Return(p)
    /\ UNCHANGED <<sb, pcr7, extends, object, stage, locked, secret, held, torn>>

(* mutation: the old object goes before the new one exists                 *)
EvictBeforeCreate(p) ==
    /\ pc[p] = "policy" /\ job[p].cmd = "seal"
    /\ object' = [object EXCEPT ![job[p].handle] = None]
    /\ pc' = [pc EXCEPT ![p] = "loaded"]
    /\ UNCHANGED <<sb, pcr7, extends, stage, locked, job, session, secret, held, torn>>

(* mutation: the primary key is persisted at a handle of the sealed secret *)
PrimaryAtSealed(p) ==
    /\ stage = "up" /\ pc[p] = "idle"
    /\ job' = [job EXCEPT ![p] = [cmd |-> "primary", handle |-> "dev"]]
    /\ pc' = [pc EXCEPT ![p] = "loaded"]
    /\ UNCHANGED <<sb, pcr7, extends, object, stage, locked, session, secret, held, torn>>

(* cmd_primary: the same key is derived from the seed of the TPM each time, *)
(* so what was sealed under the old one stays loadable.                     *)
CreatePrimary(p) ==
    /\ stage = "up" /\ pc[p] = "idle"
    /\ job' = [job EXCEPT ![p] = [cmd |-> "primary", handle |-> "primary"]]
    /\ pc' = [pc EXCEPT ![p] = "loaded"]
    /\ UNCHANGED <<sb, pcr7, extends, object, stage, locked, session, secret, held, torn>>

(* cmd_seal: create and load under the primary key, bound to the policy     *)
(* digest of the session.                                                   *)
Create(p) ==
    /\ pc[p] = "policy" /\ job[p].cmd = "seal"
    /\ object["primary"] # None
    /\ pc' = [pc EXCEPT ![p] = "loaded"]
    /\ UNCHANGED <<sb, pcr7, extends, object, stage, locked, job, session,
                   secret, held, torn>>

(* try_evict_persistent, whose errors are ignored.                          *)
Evict(p) ==
    /\ pc[p] = "loaded"
    /\ \/ object' = [object EXCEPT ![job[p].handle] = None]
       \/ object' = object
    /\ pc' = [pc EXCEPT ![p] = "evicted"]
    /\ UNCHANGED <<sb, pcr7, extends, stage, locked, job, session, secret, held, torn>>

(* evict_control with the loaded object; an occupied handle is an error.    *)
Persist(p) ==
    /\ pc[p] = "evicted"
    /\ LET h == job[p].handle IN
       /\ object[h] = None
       /\ object' = [object EXCEPT ![h] =
             IF job[p].cmd = "primary" THEN "key"
             ELSE [mode |-> job[p].mode, key |-> job[p].key, pcr |-> session[p]]]
       /\ held' = held \cup {h}
       /\ torn' = torn \ {h}
    /\ Return(p)
    /\ UNCHANGED <<sb, pcr7, extends, stage, locked, secret>>

(* Any command of the TPM fails, and with it the process.                   *)
Fails(p) ==
    /\ pc[p] # "idle"
    /\ torn' = torn \cup {h \in Handles : Evicting(p, h) /\ object[h] = None}
    /\ Return(p)
    /\ UNCHANGED <<sb, pcr7, extends, object, stage, locked, secret, held>>

(* mutation: another PCR is extended                                       *)
LockAnotherPcr ==
    /\ stage = "up"
    /\ locked' = "yes"
    /\ UNCHANGED <<sb, pcr7, extends, object, stage, pc, job, session, secret, held, torn>>

(* cmd_lock_tpm: the extend may be done and its response lost.             *)
LockTpm ==
    /\ stage = "up"
    /\ extends < MaxExtends
    /\ pcr7' = Extended
    /\ extends' = extends + 1
    /\ locked' \in {locked, "yes"}
    /\ UNCHANGED <<sb, object, stage, pc, job, session, secret, held, torn>>

(* Everything but unseal prints nothing of what was sealed.                 *)
Silent ==
    \/ Unlock \/ Reset \/ LockTpm
    \/ \E p \in Procs : \/ Start(p) \/ CreatePrimary(p) \/ Create(p)
                        \/ Evict(p) \/ Persist(p) \/ Fails(p)

Next ==
    \/ \E p \in Procs : Unseal(p)
    \/ Silent /\ printed' = None

Spec == Init /\ [][Next]_vars

-----------------------------------------------------------------------------
(* The TPM, PID 1 and the processes are in well-formed states.              *)
TypeOK ==
    /\ sb \in Settings
    /\ pcr7 \in Pcr
    /\ extends \in 0..MaxExtends
    /\ \A h \in Modes : object[h] \in Sealed \cup {None}
    /\ object["primary"] \in {"key", None} /\ DOMAIN object = Handles
    /\ stage \in {"pid1", "up"}
    /\ locked \in {"no", "yes"}
    /\ pc \in [Procs -> {"idle", "policy", "loaded", "evicted"}]
    /\ job \in [Procs -> Job \cup {None}]
    /\ session \in [Procs -> Pcr \cup {None}]
    /\ secret \in Sealed \cup {None}
    /\ printed \in Sealed \cup {None}
    /\ held \subseteq Handles
    /\ torn \subseteq Handles

(* Once a lock of PCR 7 has been reported, by PID 1 after its unlock or by  *)
(* lock_tpm, no process gets a secret that a later boot could unlock /z/c   *)
(* with, not even one whose policy session is older than the lock.          *)
LockHolds ==
    [][locked = "yes" /\ printed' # None
          => printed'.pcr \notin {Firmware(s) : s \in Settings}]_vars

(* PID 1 takes from the TPM only a secret that was sealed for its own mode  *)
(* (the prefix) in a boot with the same Secure Boot setting, before that    *)
(* boot had been locked (the PCR 7 policy).                                 *)
UnlocksOwnMode ==
    secret # None =>
        /\ secret.mode = IF sb = "on" THEN "secure" ELSE "dev"
        /\ secret.pcr = Firmware(sb)

(* A command that fails leaves what it was to replace: a handle that held   *)
(* an object is empty only between the two EvictControl of a seal or a      *)
(* primary, or because that one was cut short right there.                  *)
EmptyOnlyInBetween ==
    \A h \in held \ torn : object[h] = None => \E p \in Procs : Evicting(p, h)

(* What a process is at follows from its command and its session.           *)
ProcInv(p) ==
    /\ pc[p] # "idle" => stage = "up" /\ job[p] \in Job
    /\ pc[p] = "policy" => job[p].cmd # "primary"
    /\ pc[p] \in {"loaded", "evicted"} => job[p].cmd # "unseal"
    /\ pc[p] # "idle" /\ job[p].cmd # "primary" => session[p] \in Pcr

(* Inductive: until PID 1 is done PCR 7 is what the firmware measured, a    *)
(* reported lock shows in PCR 7, and each process of a seal, unseal or      *)
(* primary has the arguments and the session that its step uses.            *)
TpmInv ==
    /\ TypeOK
    /\ stage = "pid1" => pcr7 = Firmware(sb)
    /\ locked = "yes" => pcr7[2] # 0
    /\ \A p \in Procs : ProcInv(p)
    /\ UnlocksOwnMode
    /\ EmptyOnlyInBetween
=============================================================================
