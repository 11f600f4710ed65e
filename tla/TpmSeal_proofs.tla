---------------------------- MODULE TpmSeal_proofs ----------------------------
(***************************************************************************)
(* TpmInv is inductive, for any number of processes, secrets and extends;   *)
(* what PID 1 takes, the lock and the replacement of an object follow.      *)
(***************************************************************************)
EXTENDS TpmSeal, TLAPS

(* What an action leaves alone keeps its part of the invariant.             *)
LEMMA UnlockKeeps == TpmInv /\ Unlock /\ printed' = None => TpmInv'
<1> SUFFICES ASSUME TpmInv, Unlock, printed' = None PROVE TpmInv'
  OBVIOUS
<1>1. TypeOK'
  BY MaxExtendsAssumption DEF TpmInv, TypeOK, Unlock, Extended, Pcr, Satisfies, Modes, Settings
<1>2. locked' = "yes" => pcr7'[2] # 0
  BY MaxExtendsAssumption DEF TpmInv, TypeOK, Unlock, Extended
<1>3. UnlocksOwnMode'
  BY DEF TpmInv, TypeOK, UnlocksOwnMode, Unlock, Satisfies, PrefixMatches, Modes, Sealed, Settings
<1>4. \A p \in Procs : ProcInv(p)'
  BY DEF TpmInv, ProcInv, Unlock
<1>5. EmptyOnlyInBetween'
  BY DEF TpmInv, EmptyOnlyInBetween, Evicting, Unlock
<1> QED
  BY <1>1, <1>2, <1>3, <1>4, <1>5 DEF TpmInv, Unlock

(* The machine starts again with idle processes.                            *)
LEMMA ResetKeeps == ASSUME TpmInv, Reset, printed' = None PROVE TpmInv'
<1>1. TypeOK'
  BY MaxExtendsAssumption DEF TpmInv, TypeOK, Reset, Firmware, Pcr
<1>2. \A p \in Procs : ProcInv(p)'
  BY DEF ProcInv, Reset
<1>3. EmptyOnlyInBetween'
  BY DEF TpmInv, TypeOK, EmptyOnlyInBetween, Evicting, Reset
<1> QED
  BY <1>1, <1>2, <1>3 DEF TpmInv, UnlocksOwnMode, Reset

(* An extend of PCR 7, reported or not, leaves a value above zero.          *)
LEMMA LockTpmKeeps == ASSUME TpmInv, LockTpm, printed' = None PROVE TpmInv'
<1>1. TypeOK'
  BY MaxExtendsAssumption DEF TpmInv, TypeOK, LockTpm, Extended, Pcr
<1>2. pcr7'[2] # 0
  BY DEF TpmInv, TypeOK, LockTpm, Extended
<1>3. \A p \in Procs : ProcInv(p)'
  BY DEF TpmInv, ProcInv, LockTpm
<1>4. UnlocksOwnMode' /\ EmptyOnlyInBetween'
  BY DEF TpmInv, UnlocksOwnMode, EmptyOnlyInBetween, Evicting, LockTpm
<1> QED
  BY <1>1, <1>2, <1>3, <1>4 DEF TpmInv, LockTpm

(* A command that begins has arguments and a session.                       *)
LEMMA StartKeeps ==
    ASSUME NEW p \in Procs, TpmInv, Start(p), printed' = None PROVE TpmInv'
<1>1. PICK cmd \in {"seal", "unseal"}, a \in Arguments, k \in Secrets :
          job' = [job EXCEPT ![p] = [cmd |-> cmd, mode |-> a[1], handle |-> a[2], key |-> k]]
  BY ZenonT(30) DEF Start
<1>2. a[1] \in Modes /\ a[2] \in Modes
  BY DEF Arguments, DetectSealMode, Modes
<1>3. job'[p] \in Job /\ job'[p].cmd = cmd
  BY <1>1, <1>2 DEF TpmInv, TypeOK, Job
<1>4. TypeOK'
  BY <1>1, <1>3 DEF TpmInv, TypeOK, Start
<1>5. ProcInv(p)'
  BY <1>3 DEF TpmInv, TypeOK, ProcInv, Start
<1>6. ASSUME NEW q \in Procs, q # p PROVE ProcInv(q)'
  BY <1>1, <1>6 DEF TpmInv, TypeOK, ProcInv, Start
<1>7. UnlocksOwnMode'
  BY DEF TpmInv, UnlocksOwnMode, Start
<1>8. ASSUME NEW q \in Procs, NEW h, Evicting(q, h) PROVE Evicting(q, h)'
  BY <1>1, <1>8 DEF TpmInv, TypeOK, Evicting, Start
<1>9. EmptyOnlyInBetween'
  BY <1>8 DEF TpmInv, EmptyOnlyInBetween, Start
<1> QED
  BY <1>4, <1>5, <1>6, <1>7, <1>9 DEF TpmInv, Start

(* A command that ends touches no other process.                            *)
LEMMA ReturnKeeps ==
    ASSUME NEW p \in Procs, TpmInv, Return(p), stage' = stage
    PROVE  /\ pc' \in [Procs -> {"idle", "policy", "loaded", "evicted"}]
           /\ job' \in [Procs -> Job \cup {None}]
           /\ session' \in [Procs -> Pcr \cup {None}]
           /\ \A q \in Procs : ProcInv(q)'
           /\ \A q \in Procs, h \in Handles :
                 q # p /\ Evicting(q, h) => Evicting(q, h)'
<1>1. ProcInv(p)'
  BY DEF TpmInv, TypeOK, ProcInv, Return
<1>2. ASSUME NEW q \in Procs, q # p PROVE ProcInv(q)'
  BY <1>2 DEF TpmInv, TypeOK, ProcInv, Return
<1> QED
  BY <1>1, <1>2 DEF TpmInv, TypeOK, Return, Evicting

(* unseal only prints.                                                      *)
LEMMA UnsealKeeps == ASSUME NEW p \in Procs, TpmInv, Unseal(p) PROVE TpmInv'
<1>1. printed' \in Sealed
  <2>1. job[p] \in Job /\ job[p].cmd = "unseal"
    BY DEF TpmInv, ProcInv, Unseal
  <2>2. job[p].handle \in Modes
    BY <2>1 DEF Job
  <2> QED
    BY <2>2 DEF TpmInv, TypeOK, Unseal, Satisfies
<1>2. TypeOK' /\ \A q \in Procs : ProcInv(q)'
  BY <1>1, ReturnKeeps DEF TpmInv, TypeOK, Unseal
<1>3. UnlocksOwnMode'
  BY DEF TpmInv, UnlocksOwnMode, Unseal
<1>4. ASSUME NEW q \in Procs, NEW h \in Handles, Evicting(q, h) PROVE Evicting(q, h)'
  BY <1>4, ReturnKeeps DEF Evicting, Unseal
<1>5. EmptyOnlyInBetween'
  BY <1>4 DEF TpmInv, TypeOK, EmptyOnlyInBetween, Unseal
<1> QED
  BY <1>2, <1>3, <1>5 DEF TpmInv, Unseal

(* primary begins without a session.                                        *)
LEMMA CreatePrimaryKeeps ==
    ASSUME NEW p \in Procs, TpmInv, CreatePrimary(p), printed' = None PROVE TpmInv'
<1>1. job'[p] = [cmd |-> "primary", handle |-> "primary"] /\ pc'[p] = "loaded"
  BY DEF TpmInv, TypeOK, CreatePrimary
<1>2. job'[p] \in Job /\ job'[p].cmd = "primary"
  BY <1>1 DEF Job
<1>3. TypeOK'
  BY <1>2 DEF TpmInv, TypeOK, CreatePrimary
<1>4. ProcInv(p)'
  BY <1>1, <1>2 DEF ProcInv, CreatePrimary
<1>5. ASSUME NEW q \in Procs, q # p PROVE ProcInv(q)'
  BY <1>5 DEF TpmInv, TypeOK, ProcInv, CreatePrimary
<1>6. UnlocksOwnMode'
  BY DEF TpmInv, UnlocksOwnMode, CreatePrimary
<1>7. ASSUME NEW q \in Procs, NEW h, Evicting(q, h) PROVE Evicting(q, h)'
  BY <1>7 DEF TpmInv, TypeOK, Evicting, CreatePrimary
<1>8. EmptyOnlyInBetween'
  BY <1>7 DEF TpmInv, EmptyOnlyInBetween, CreatePrimary
<1> QED
  BY <1>3, <1>4, <1>5, <1>6, <1>8 DEF TpmInv, CreatePrimary

(* The new object exists beside the old one.                                *)
LEMMA CreateKeeps ==
    ASSUME NEW p \in Procs, TpmInv, Create(p), printed' = None PROVE TpmInv'
<1>1. TypeOK'
  BY DEF TpmInv, TypeOK, Create
<1>2. ASSUME NEW q \in Procs PROVE ProcInv(q)'
  BY DEF TpmInv, TypeOK, ProcInv, Create
<1>3. UnlocksOwnMode'
  BY DEF TpmInv, UnlocksOwnMode, Create
<1>4. ASSUME NEW q \in Procs, NEW h, Evicting(q, h) PROVE Evicting(q, h)'
  BY <1>4 DEF TpmInv, TypeOK, Evicting, Create
<1>5. EmptyOnlyInBetween'
  BY <1>4 DEF TpmInv, EmptyOnlyInBetween, Create
<1> QED
  BY <1>1, <1>2, <1>3, <1>5 DEF TpmInv, Create

(* The handle that Evict empties is the one of the process.                 *)
LEMMA EvictKeeps ==
    ASSUME NEW p \in Procs, TpmInv, Evict(p), printed' = None PROVE TpmInv'
<1>1. /\ DOMAIN object' = Handles
      /\ \A h \in Handles : object'[h] \in {object[h], None}
      /\ \A h \in Handles : h # job[p].handle => object'[h] = object[h]
  BY DEF TpmInv, TypeOK, Evict
<1>2. TypeOK'
  BY <1>1 DEF TpmInv, TypeOK, Evict, Handles
<1>3. ASSUME NEW q \in Procs PROVE ProcInv(q)'
  BY DEF TpmInv, TypeOK, ProcInv, Evict
<1>4. UnlocksOwnMode'
  BY DEF TpmInv, UnlocksOwnMode, Evict
<1>5. ASSUME NEW q \in Procs, NEW h, Evicting(q, h) PROVE Evicting(q, h)'
  BY <1>5 DEF TpmInv, TypeOK, Evicting, Evict
<1>6. pc'[p] = "evicted" /\ job' = job
  BY DEF TpmInv, TypeOK, Evict
<1>7. EmptyOnlyInBetween'
  <2> SUFFICES ASSUME NEW h \in held' \ torn', object'[h] = None
               PROVE  \E q \in Procs : Evicting(q, h)'
    BY DEF EmptyOnlyInBetween
  <2>1. h \in held \ torn /\ h \in Handles
    BY DEF TpmInv, TypeOK, Evict
  <2>2. CASE h = job[p].handle
    BY <1>6, <2>2 DEF Evicting
  <2>3. CASE h # job[p].handle
    BY <1>1, <1>5, <2>1, <2>3 DEF TpmInv, EmptyOnlyInBetween
  <2> QED
    BY <2>2, <2>3
<1> QED
  BY <1>2, <1>3, <1>4, <1>7 DEF TpmInv, Evict

(* What Persist stores has the type of its handle, and fills it.            *)
LEMMA PersistKeeps ==
    ASSUME NEW p \in Procs, TpmInv, Persist(p), printed' = None PROVE TpmInv'
<1> DEFINE h == job[p].handle
           new == IF job[p].cmd = "primary" THEN "key"
                  ELSE [mode |-> job[p].mode, key |-> job[p].key, pcr |-> session[p]]
<1>1. /\ object' = [object EXCEPT ![h] = new] /\ object[h] = None
      /\ held' = held \cup {h} /\ torn' = torn \ {h} /\ Return(p) /\ stage' = stage
  BY DEF Persist
<1>2. job[p] \in Job /\ job[p].cmd # "unseal"
  BY DEF TpmInv, ProcInv, Persist
<1>3. /\ h \in Handles
      /\ h \in Modes => new \in Sealed
      /\ h = "primary" => new = "key"
  <2>1. CASE job[p].cmd = "primary"
    BY <1>2, <2>1 DEF Job, Handles, Modes
  <2>2. CASE job[p].cmd = "seal"
    <3>1. session[p] \in Pcr
      BY <2>2 DEF TpmInv, ProcInv, Persist
    <3>2. job[p].mode \in Modes /\ job[p].key \in Secrets /\ h \in Modes
      BY <1>2, <2>2 DEF Job
    <3> QED
      BY <2>2, <3>1, <3>2 DEF Sealed, Handles, Modes
  <2> QED
    BY <1>2, <2>1, <2>2 DEF Job
<1>4. new # None
  BY <1>3, NoneAssumption DEF Handles
<1>5. TypeOK'
  <2>1. \A g \in Modes : object'[g] \in Sealed \cup {None}
    BY <1>1, <1>3 DEF TpmInv, TypeOK, Handles
  <2>2. object'["primary"] \in {"key", None} /\ DOMAIN object' = Handles
    BY <1>1, <1>3 DEF TpmInv, TypeOK, Handles
  <2> QED
    BY <1>1, <1>3, <2>1, <2>2, ReturnKeeps DEF TpmInv, TypeOK, Persist
<1>6. \A q \in Procs : ProcInv(q)'
  BY <1>1, ReturnKeeps
<1>7. UnlocksOwnMode'
  BY DEF TpmInv, UnlocksOwnMode, Persist
<1>8. EmptyOnlyInBetween'
  <2> SUFFICES ASSUME NEW g \in held' \ torn', object'[g] = None
               PROVE  \E q \in Procs : Evicting(q, g)'
    BY DEF EmptyOnlyInBetween
  <2>1. g # h /\ g \in held \ torn /\ g \in Handles
    BY <1>1, <1>3, <1>4 DEF TpmInv, TypeOK
  <2>2. PICK q \in Procs : Evicting(q, g)
    BY <1>1, <2>1 DEF TpmInv, TypeOK, EmptyOnlyInBetween
  <2>3. q # p
    BY <2>1, <2>2 DEF Evicting
  <2> QED
    BY <1>1, <2>1, <2>2, <2>3, ReturnKeeps
<1> QED
  BY <1>5, <1>6, <1>7, <1>8 DEF TpmInv, Persist

(* A command that fails after it emptied its handle is remembered in torn.  *)
LEMMA FailsKeeps ==
    ASSUME NEW p \in Procs, TpmInv, Fails(p), printed' = None PROVE TpmInv'
<1>1. Return(p) /\ stage' = stage /\ object' = object /\ held' = held
  BY DEF Fails
<1>2. TypeOK' /\ \A q \in Procs : ProcInv(q)'
  BY <1>1, ReturnKeeps DEF TpmInv, TypeOK, Fails
<1>3. UnlocksOwnMode'
  BY DEF TpmInv, UnlocksOwnMode, Fails
<1>4. EmptyOnlyInBetween'
  <2> SUFFICES ASSUME NEW g \in held' \ torn', object'[g] = None
               PROVE  \E q \in Procs : Evicting(q, g)'
    BY DEF EmptyOnlyInBetween
  <2>1. g \in held \ torn /\ g \in Handles /\ ~ Evicting(p, g)
    BY <1>1 DEF TpmInv, TypeOK, Fails
  <2>2. PICK q \in Procs : Evicting(q, g)
    BY <1>1, <2>1 DEF TpmInv, EmptyOnlyInBetween
  <2> QED
    BY <1>1, <2>1, <2>2, ReturnKeeps
<1> QED
  BY <1>2, <1>3, <1>4 DEF TpmInv, Fails

(* The commands of main.rs and the unlock of PID 1 keep TpmInv, over any    *)
(* number of boots.                                                         *)
THEOREM TpmInvariant == Spec => []TpmInv
<1>1. Init => TpmInv
  <2> SUFFICES ASSUME Init PROVE TpmInv
    OBVIOUS
  <2>1. TypeOK
    BY MaxExtendsAssumption DEF Init, TypeOK, Firmware, Pcr, Handles, Modes
  <2> QED
    BY <2>1 DEF Init, TpmInv, ProcInv, UnlocksOwnMode, EmptyOnlyInBetween
<1>2. TpmInv /\ [Next]_vars => TpmInv'
  <2> SUFFICES ASSUME TpmInv, [Next]_vars PROVE TpmInv'
    OBVIOUS
  <2>1. CASE \E p \in Procs : Unseal(p)
    BY <2>1, UnsealKeeps
  <2>2. CASE Silent /\ printed' = None
    BY <2>2, UnlockKeeps, ResetKeeps, LockTpmKeeps, StartKeeps, CreatePrimaryKeeps,
       CreateKeeps, EvictKeeps, PersistKeeps, FailsKeeps DEF Silent
  <2>3. CASE UNCHANGED vars
    BY <2>3 DEF vars, TpmInv, TypeOK, ProcInv, UnlocksOwnMode, EmptyOnlyInBetween, Evicting
  <2> QED
    BY <2>1, <2>2, <2>3 DEF Next
<1> QED
  BY <1>1, <1>2, PTL DEF Spec

(* unlock_c_with_tpm takes only a secret sealed for its own mode, in a boot *)
(* with the same Secure Boot setting that had not been locked.              *)
THEOREM OwnMode == Spec => []UnlocksOwnMode
<1>1. TpmInv => UnlocksOwnMode
  BY DEF TpmInv
<1> QED
  BY <1>1, TpmInvariant, PTL

(* seal and primary leave a handle empty only where they were cut short     *)
(* between their two EvictControl.                                          *)
THEOREM ReplacedInPlace == Spec => []EmptyOnlyInBetween
<1>1. TpmInv => EmptyOnlyInBetween
  BY DEF TpmInv
<1> QED
  BY <1>1, TpmInvariant, PTL

(* After a reported extend of PCR 7, unseal prints nothing that was sealed  *)
(* to a PCR 7 of the firmware, whenever its policy session was started.     *)
THEOREM LockIsFinal == Spec => LockHolds
<1> DEFINE Step == locked = "yes" /\ printed' # None
                      => printed'.pcr \notin {Firmware(s) : s \in Settings}
<1>1. TpmInv /\ [Next]_vars => [Step]_vars
  <2> SUFFICES ASSUME TpmInv, Next, locked = "yes", printed' # None
               PROVE  printed'.pcr \notin {Firmware(s) : s \in Settings}
    BY DEF vars
  <2>1. PICK p \in Procs : Unseal(p)
    BY DEF Next
  <2>2. printed'.pcr = pcr7
    BY <2>1 DEF Unseal, Satisfies
  <2> QED
    BY <2>2 DEF TpmInv, Firmware
<1> QED
  BY <1>1, TpmInvariant, PTL DEF Spec, LockHolds
=============================================================================
