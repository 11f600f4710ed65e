-------------------------- MODULE StateKey_proofs --------------------------
(***************************************************************************)
(* KeyInv is an invariant of StateKey for all texts, identities, generated  *)
(* keys and key sizes.  The three properties of the run follow from it, and *)
(* which texts the trims of the code treat alike.                           *)
(***************************************************************************)
EXTENDS StateKey, TLAPS

(* The two copies of the padding, in cmd.rs and in boot.rs, agree.          *)
LEMMA PadAgree == \A raw : Pad(raw) = FscryptKey(raw)
BY DEF Pad, FscryptKey

(* A generated key is a sequence that is not empty.                         *)
LEMMA DrawsType == \A s \in Draws : s \in Seq(Nat) /\ s # <<>> /\ s \in Material
BY GeneratedAssumption DEF Draws, Material, MaxSetups

(* A generated key goes through echo and trim_end unchanged.                *)
LEMMA DrawsSurvive == \A s \in Draws : TrimEnd(EchoUnquoted(s)) = s
<1> SUFFICES ASSUME NEW s \in Draws PROVE TrimEnd(EchoUnquoted(s)) = s
  OBVIOUS
<1>1. s \in Seq(Nat) /\ Len(s) \in Nat /\ Len(s) > 0 /\ DOMAIN s = 1..Len(s)
  BY DrawsType
<1>2. \A i \in 1..Len(s) : s[i] \notin {Space, Blank}
  BY GeneratedAssumption
<1>3. {i \in DOMAIN s : s[i] # Space} = DOMAIN s
  BY <1>1, <1>2
<1>4. EchoUnquoted(s) = s
  BY <1>3 DEF EchoUnquoted
<1>5. {i \in DOMAIN s : s[i] \notin {Space, Blank}} = 1..Len(s)
  BY <1>1, <1>2
<1>6. 1..Len(s) # {} /\ (CHOOSE i \in 1..Len(s) : \A j \in 1..Len(s) : j <= i) = Len(s)
  BY <1>1
<1>7. SubSeq(s, 1, Len(s)) = s
  BY <1>1
<1> QED
  BY <1>4, <1>5, <1>6, <1>7, ZenonT(30) DEF TrimEnd
LEMMA InitKeyInv == Init => KeyInv
<1> SUFFICES ASSUME Init PROVE KeyInv
  OBVIOUS
<1>1. MaxSetups \in Nat
  BY GeneratedAssumption DEF MaxSetups
<1>2. Nothing \in Gift
  BY TextsAssumption DEF Nothing, Gift
<1>3. TypeOK
  BY <1>1, <1>2, TextsAssumption DEF Init, TypeOK, NoJob, Done, YesNo, Pcr, Job, Steps, Directory
<1>4. ShellInv
  BY DEF Init, ShellInv
<1> QED
  BY <1>3, <1>4 DEF Init, KeyInv, SealedOpens

(* A new policy or home leaves the rest of /z/c.                            *)
LEMMA DirectoryUpdate ==
    /\ \A d \in Directory, k \in Keys : LET e == [d EXCEPT !.key = k] IN
         e \in Directory /\ e.key = k /\ e.home = d.home /\ e.made = d.made
    /\ \A d \in Directory, yn \in YesNo : LET h == [d EXCEPT !.home = yn] IN
         h \in Directory /\ h.key = d.key /\ h.home = yn /\ h.made = d.made
    /\ \A d \in Directory, yn \in YesNo : LET m == [d EXCEPT !.made = yn] IN
         m \in Directory /\ m.key = d.key /\ m.home = d.home /\ m.made = yn
BY DEF Directory

(* The fields of the job and of /z/c.                                       *)
LEMMA Fields ==
    /\ \A j \in Job : /\ j.cmd \in {None, "init_c", "rewrap", "setup"}
                     /\ j.raw \in Material \cup {<<>>} /\ j.given \in Gift
                     /\ j.ids \subseteq Identities
    /\ \A d \in Directory : d.made \in YesNo /\ d.key \in Keys \cup {None} /\ d.home \in YesNo
BY DEF Job, Directory

(* Each action keeps the types.                                            *)
LEMMA NextType == TypeOK /\ ShellInv /\ Next => TypeOK'
<1> SUFFICES ASSUME TypeOK, ShellInv, Next PROVE TypeOK'
  OBVIOUS
<1> USE DEF TypeOK, history, disk, shell, YesNo, Pcr
<1>a. MaxSetups \in Nat
  BY GeneratedAssumption DEF MaxSetups
<1>b. Nothing \in Gift
  BY TextsAssumption DEF Nothing, Gift
<1>c. NoJob \in Job
  BY <1>b, TextsAssumption DEF NoJob, Job
<1>1. CASE InitC
  <2>1. c' \in Directory
    BY <1>1, DirectoryUpdate, ZenonT(30) DEF InitC
  <2>2. setups + 1 \in 1..MaxSetups
    BY <1>1, <1>a DEF InitC
  <2>3. Generated[setups + 1] \in Material
    BY <2>2, DrawsType DEF Draws
  <2>4. PICK t \in Texts :
           job' = [cmd |-> "init_c", raw |-> Generated[setups + 1], key |-> ShellRead(t),
                   ids |-> {}, given |-> [text |-> t, how |-> "init_c"]]
    BY <1>1, ZenonT(30) DEF InitC
  <2>5. [text |-> t, how |-> "init_c"] \in Gift
    BY DEF Gift
  <2>6. job' \in Job
    BY <2>3, <2>4, <2>5 DEF Job
  <2> QED
    BY <1>1, <1>a, <2>1, <2>6 DEF InitC, Steps
<1>2. CASE Rewrap
  <2>1. age.secret \in Material
    BY <1>2, DrawsType DEF Rewrap
  <2>2. PICK key \in Texts, ids \in SUBSET Identities :
          \E t \in IF key = <<>> /\ ids # {} THEN ids ELSE {key} :
             job' = [cmd |-> "rewrap", raw |-> age.secret, key |-> key, ids |-> ids,
                     given |-> [text |-> t, how |-> "env"]]
    BY <1>2, ZenonT(30) DEF Rewrap
  <2>3. PICK t \in Texts :
             job' = [cmd |-> "rewrap", raw |-> age.secret, key |-> key, ids |-> ids,
                     given |-> [text |-> t, how |-> "env"]]
    BY <2>2, TextsAssumption
  <2>4. [text |-> t, how |-> "env"] \in Gift
    BY DEF Gift
  <2>5. job' \in Job
    BY <2>1, <2>3, <2>4 DEF Job
  <2> QED
    BY <1>2, <2>5 DEF Rewrap, Steps
<1>3. CASE Redirect
  BY <1>3, Fields DEF Redirect, Torn, Steps
<1>4. CASE Encrypt
  BY <1>4, <1>c, Fields DEF Encrypt, Encrypted, ShellInv, Done, Steps
<1>5. CASE Setup
  <2>1. c' \in Directory
    BY <1>5, DirectoryUpdate, ZenonT(30) DEF Setup
  <2>2. PICK t \in Texts, how \in {"env", "prompt"} :
          /\ KeyMaterial(t, how) # <<>>
          /\ job' = [cmd |-> "setup", raw |-> KeyMaterial(t, how), key |-> <<>>,
                     ids |-> {}, given |-> [text |-> t, how |-> how]]
    BY <1>5, ZenonT(30) DEF Setup
  <2>3. KeyMaterial(t, how) \in Material
    BY <2>2 DEF KeyMaterial, Material
  <2>4. [text |-> t, how |-> how] \in Gift
    BY DEF Gift
  <2>5. job' \in Job
    BY <2>2, <2>3, <2>4, TextsAssumption DEF Job
  <2> QED
    BY <1>5, <1>a, <2>1, <2>5 DEF Setup, Steps
<1>6. CASE AddKey
  BY <1>6 DEF AddKey, Steps
<1>7. CASE SetPolicy
  <2>1. FscryptKey(job.raw) \in Keys
    BY <1>7, Fields DEF SetPolicy, ShellInv, Keys
  <2>2. c' \in Directory /\ chosen' \in Gift
    BY <1>7, <2>1, DirectoryUpdate, Fields DEF SetPolicy
  <2> QED
    BY <1>7, <2>2 DEF SetPolicy, Steps
<1>8. CASE MakeHome
  <2>1. c' \in Directory
    BY <1>8, DirectoryUpdate, Fields, ZenonT(30) DEF MakeHome
  <2> QED
    BY <1>8, <1>c, <2>1 DEF MakeHome, Done, Steps
<1>9. CASE SealFromAge
  BY <1>9 DEF SealFromAge, SealedAs
<1>10. CASE SealByHand
  BY <1>10 DEF SealByHand, SealedAs
<1>11. CASE LockTpm
  BY <1>11 DEF LockTpm
<1>12. CASE Fscrypt
  BY <1>12 DEF Fscrypt
<1>13. CASE Reboot
  BY <1>13, <1>c DEF Reboot, Boots, Done, Steps
<1>14. CASE PowerLoss
  BY <1>14, <1>c DEF PowerLoss, Boots, Done, Steps
<1>15. CASE Writeback
  BY <1>15 DEF Writeback
<1>16. CASE Check
  BY <1>16 DEF Check
<1>17. CASE UnlockWithTpm
  BY <1>17 DEF UnlockWithTpm
<1>18. CASE \E t \in Texts : Password(t)
  BY <1>18 DEF Password, Attempt
<1> QED
  BY <1>1, <1>2, <1>3, <1>4, <1>5, <1>6, <1>7, <1>8, <1>9, <1>10, <1>11, <1>12, <1>13, <1>14, <1>15, <1>16, <1>17, <1>18, ZenonT(30) DEF Next
(* Each action keeps what is known of the running command.                  *)
LEMMA NextShell == KeyInv /\ Next => ShellInv'
<1> SUFFICES ASSUME KeyInv, Next PROVE ShellInv'
  OBVIOUS
<1> USE DEF history, disk, shell
<1>a. TypeOK /\ ShellInv
  BY DEF KeyInv
<1>1. CASE InitC
  <2>1. Generated[setups + 1] \in Draws
    <3>1. MaxSetups \in Nat /\ setups \in 0..MaxSetups /\ setups < MaxSetups
      BY <1>1, <1>a, GeneratedAssumption DEF InitC, TypeOK, MaxSetups
    <3>2. setups + 1 \in 1..MaxSetups
      BY <3>1
    <3> QED
      BY <3>2 DEF Draws
  <2> QED
    BY <1>1, <2>1, DrawsType DEF InitC, Running, ShellInv
<1>2. CASE Rewrap
  <2>1. age.secret \in Draws
    BY <1>2, <1>a DEF Rewrap, TypeOK
  <2>2. intact = "yes" => c.home = "yes" /\ c.key = Pad(age.secret)
    BY <1>2 DEF Rewrap, KeyInv, Matches
  <2> QED
    BY <1>2, <2>1, <2>2, DrawsType DEF Rewrap, Running, ShellInv
<1>3. CASE Redirect
  BY <1>3, <1>a DEF Redirect, ShellInv
<1>4. CASE Encrypt
  <2>1. CASE job.cmd = "init_c"
    <3>1. age' # Torn => age'.secret = job.raw /\ age' # NoFile /\ Scrypt(job.key) \subseteq age'.to
      BY <1>4, ZenonT(30) DEF Encrypt, Encrypted, Torn, NoFile
    <3>2. age' # Torn => Scrypt(job.key) # {}
      BY <1>4, <1>a, <2>1 DEF Encrypt, Encrypted, ShellInv
    <3>3. age' # Torn => OpensAge(job.given)'
      BY <1>4, <1>a, <2>1, <3>1, <3>2 DEF Encrypt, ShellInv, OpensAge
    <3> QED
      BY <1>4, <1>a, <2>1, <3>1, <3>3 DEF Encrypt, ShellInv
  <2>2. CASE job.cmd # "init_c"
    BY <1>4, <2>2 DEF Encrypt, Done, ShellInv
  <2> QED
    BY <2>1, <2>2
<1>5. CASE Setup
  BY <1>5, <1>a DEF Setup, Running, ShellInv, IsMaterial
<1>6. CASE AddKey
  BY <1>6, <1>a, PadAgree DEF AddKey, ShellInv, OpensAge
<1>7. CASE SetPolicy
  <2>1. FscryptKey(job.raw) \in Keys
    BY <1>7, <1>a, Fields DEF SetPolicy, ShellInv, Keys, TypeOK
  <2>2. CASE c.key = None /\ c.home = "no"
    <3>1. c' = [c EXCEPT !.key = FscryptKey(job.raw)]
      BY <1>7, <2>2 DEF SetPolicy
    <3>2. c'.key = Pad(job.raw)
      BY <1>a, <2>1, <3>1, DirectoryUpdate, PadAgree DEF TypeOK
    <3>3. /\ pc' = "home" /\ ok' = ok /\ job' = job /\ age' = age /\ ring' = ring
          /\ chosen' = job.given /\ intact' = intact /\ at' = at
      BY <1>7, <2>2 DEF SetPolicy
    <3>4. OpensAge(job.given) => OpensAge(job.given)'
      BY <3>3 DEF OpensAge
    <3> QED
      BY <1>7, <1>a, <3>2, <3>3, <3>4 DEF SetPolicy, ShellInv
  <2>3. CASE ~(c.key = None /\ c.home = "no")
    BY <1>7, <1>a, <2>3 DEF SetPolicy, ShellInv, OpensAge
  <2> QED
    BY <2>2, <2>3
<1>8. CASE MakeHome
  BY <1>8 DEF MakeHome, Done, ShellInv
<1>9. CASE Reboot \/ PowerLoss
  BY <1>9 DEF Reboot, PowerLoss, Boots, Done, ShellInv
<1>10. CASE SealFromAge \/ SealByHand \/ LockTpm \/ Fscrypt
  BY <1>10, <1>a DEF SealFromAge, SealByHand, LockTpm, Fscrypt, Running, ShellInv
<1>11. CASE Writeback
  BY <1>11, <1>a DEF Writeback, ShellInv, OpensAge
<1>12. CASE Check \/ UnlockWithTpm \/ \E t \in Texts : Password(t)
  <2>1. pc = "idle" /\ pc' = pc
    BY <1>12, <1>a DEF Check, UnlockWithTpm, Password, Attempt, ShellInv
  <2> QED
    BY <2>1 DEF ShellInv
<1> QED
  BY <1>1, <1>2, <1>3, <1>4, <1>5, <1>6, <1>7, <1>8, <1>9, <1>10, <1>11, <1>12 DEF Next
(* Typed again, what was given at an intact setup opens /z/c.               *)
LEMMA RightOpens ==
    ASSUME KeyInv, NEW t \in Texts, Password(t), t = chosen.text, intact = "yes",
           SurvivesTrim(chosen)
    PROVE  at' = "up" /\ right' = "no"
<1> DEFINE pass == Trim(t)
           raw == IF pass = <<>> THEN <<>> ELSE KeyFrom(pass)
<1>1. Attempt(t, raw)
  BY DEF Password
<1>2. c.home = "yes" /\ c.key # None /\ TypeOK /\ Matches
  BY DEF KeyInv, Matches
<1>3. CASE OpensAge(chosen) /\ c.key = Pad(age.secret)
  <2>1. age.secret # <<>>
    BY <1>2, <1>3, DrawsType DEF TypeOK, OpensAge, NoFile, Torn
  <2>2. ASSUME chosen.how = "init_c" PROVE raw = age.secret
    <3>1. ShellRead(t) = pass /\ Scrypt(pass) \cap age.to # {}
      BY <1>3, <2>2 DEF SurvivesTrim, OpensAge
    <3>2. pass # <<>> /\ Opens(Scrypt(pass) \cup X25519(pass))
      BY <1>3, <3>1 DEF Opens, OpensAge, Scrypt
    <3> QED
      BY <1>3, <3>2 DEF KeyFrom, OpensAge
  <2>3. ASSUME chosen.how = "env" PROVE raw = age.secret
    <3>1. t = pass /\ (Scrypt(pass) \cup X25519(pass)) \cap age.to # {}
      BY <1>3, <2>3 DEF SurvivesTrim, OpensAge
    <3>2. pass # <<>>
      BY <3>1, TextsAssumption DEF Scrypt, X25519
    <3>3. Opens(Scrypt(pass) \cup X25519(pass))
      BY <1>3, <3>1 DEF Opens, OpensAge
    <3> QED
      BY <1>3, <3>2, <3>3 DEF KeyFrom, OpensAge
  <2>4. raw = age.secret
    BY <1>3, <2>2, <2>3 DEF OpensAge
  <2> QED
    BY <1>1, <1>2, <1>3, <2>1, <2>4 DEF Attempt, UnlockedBy
<1>4. CASE age = NoFile /\ \E m \in Material : IsMaterial(chosen, m) /\ c.key = Pad(m)
  <2>1. PICK m \in Material : IsMaterial(chosen, m) /\ c.key = Pad(m)
    BY <1>4
  <2>2. m = pass /\ m # <<>>
    BY <2>1 DEF IsMaterial, KeyMaterial, SurvivesTrim, Material
  <2>3. raw = m
    BY <1>4, <2>2 DEF KeyFrom
  <2> QED
    BY <1>1, <1>2, <2>1, <2>2, <2>3 DEF Attempt, UnlockedBy
<1> QED
  BY <1>2, <1>3, <1>4 DEF Matches

(* No action but a setup and an encryption touches what matches.            *)
LEMMA MatchesStays ==
    ASSUME Matches, age' = age, chosen' = chosen, c'.key = c.key, c'.home = c.home
    PROVE  Matches'
BY DEF Matches, OpensAge

(* After each action what was given still leads to the key of an intact c.  *)
LEMMA NextMatches == KeyInv /\ Next => (intact' = "yes" => Matches')
<1> SUFFICES ASSUME KeyInv, Next, intact' = "yes" PROVE Matches'
  OBVIOUS
<1> USE DEF history, disk, shell
<1>a. TypeOK /\ ShellInv /\ (intact = "yes" => Matches)
  BY DEF KeyInv
<1>1. CASE InitC \/ Setup
  <2>1. c' = [c EXCEPT !.made = "yes"] /\ age' = age /\ chosen' = chosen /\ intact' = intact
    BY <1>1 DEF InitC, Setup
  <2>2. c'.key = c.key /\ c'.home = c.home
    BY <1>a, <2>1, DirectoryUpdate DEF TypeOK, YesNo
  <2> QED
    BY <1>a, <2>1, <2>2, MatchesStays
<1>2. CASE Redirect
  BY <1>2 DEF Redirect
<1>3. CASE Encrypt
  <2>1. CASE job.cmd = "init_c"
    BY <1>3, <1>a, <2>1 DEF Encrypt, ShellInv
  <2>2. CASE job.cmd # "init_c"
    <3>1. age' # Torn /\ ok = "yes"
      BY <1>3, <2>2 DEF Encrypt
    <3>2. /\ job.cmd = "rewrap" /\ job.given.how = "env" /\ chosen = job.given
          /\ job.given.text \in IF job.key = <<>> /\ job.ids # {} THEN job.ids ELSE {job.key}
          /\ c.home = "yes" /\ c.key = Pad(job.raw) /\ job.raw # <<>>
      BY <1>3, <1>a, <2>2, <3>1 DEF Encrypt, ShellInv
    <3>3. /\ age' = [is |-> "file", to |-> Scrypt(job.key) \cup UNION {X25519(i) : i \in job.ids},
                    secret |-> job.raw]
          /\ Scrypt(job.key) \cup UNION {X25519(i) : i \in job.ids} # {}
      BY <1>3, <3>1 DEF Encrypt, Encrypted
    <3>4. c.key # None
      BY <1>a, <3>2, PadAgree, Fields, NoneAssumption DEF Keys, TypeOK
    <3>5. (Scrypt(chosen.text) \cup X25519(chosen.text)) \cap age'.to # {}
      <4>1. CASE job.key # <<>>
        BY <3>2, <3>3, <4>1, ZenonT(30) DEF Scrypt
      <4>2. CASE job.key = <<>>
        <5>1. job.ids # {} /\ chosen.text \in job.ids
          BY <3>2, <3>3, <4>2 DEF Scrypt
        <5>2. X25519(chosen.text) # {} /\ X25519(chosen.text) \subseteq age'.to
          BY <1>a, <3>3, <5>1, Fields, ZenonT(30) DEF X25519, TypeOK
        <5> QED
          BY <5>2
      <4> QED
        BY <4>1, <4>2
    <3>6. c' = c /\ chosen' = chosen /\ age' # NoFile
      BY <1>3, <3>3 DEF Encrypt, NoFile
    <3> QED
      BY <3>2, <3>3, <3>4, <3>5, <3>6 DEF Matches, OpensAge
  <2> QED
    BY <2>1, <2>2
<1>4. CASE SetPolicy
  <2>1. intact = "yes" /\ age' = age
    BY <1>4 DEF SetPolicy
  <2>2. c' = c /\ chosen' = chosen
    BY <1>4, <1>a, <2>1 DEF SetPolicy, Matches
  <2> QED
    BY <1>a, <2>1, <2>2, MatchesStays
<1>5. CASE MakeHome
  <2>1. age' = age /\ chosen' = chosen
    BY <1>5 DEF MakeHome
  <2>2. /\ c'.key = c.key
        /\ c'.home = IF c.key = None \/ c.key \in ring THEN "yes" ELSE c.home
    BY <1>5, <1>a, DirectoryUpdate, Fields DEF MakeHome, TypeOK, YesNo
  <2>3. CASE ok = "yes"
    <3>1. c.key = Pad(job.raw) /\ c.key \in ring /\ chosen = job.given /\ job.raw \in Material
      BY <1>5, <1>a, <2>3, Fields DEF MakeHome, ShellInv, TypeOK
    <3>2. c.key # None /\ c'.home = "yes"
      BY <2>2, <3>1, PadAgree, NoneAssumption DEF Keys
    <3>3. \/ OpensAge(job.given) /\ age.secret = job.raw
          \/ age = NoFile /\ IsMaterial(job.given, job.raw)
      BY <1>5, <1>a, <2>3 DEF MakeHome, ShellInv
    <3> QED
      BY <2>1, <2>2, <3>1, <3>2, <3>3 DEF Matches, OpensAge
  <2>4. CASE ok # "yes"
    <3>1. intact = "yes"
      BY <1>5, <2>4 DEF MakeHome
    <3>2. c'.home = c.home
      BY <1>a, <2>2, <3>1 DEF Matches
    <3> QED
      BY <1>a, <2>1, <2>2, <3>1, <3>2, MatchesStays
  <2> QED
    BY <2>3, <2>4
<1>6. CASE Reboot \/ PowerLoss
  <2>1. c' = c /\ age' = age /\ chosen' = chosen /\ intact' = intact
    BY <1>6 DEF Reboot, PowerLoss, Boots
  <2> QED
    BY <1>a, <2>1, MatchesStays
<1>7. CASE Rewrap \/ AddKey \/ SealFromAge \/ SealByHand \/ LockTpm \/ Fscrypt \/ Writeback
            \/ Check \/ UnlockWithTpm \/ \E t \in Texts : Password(t)
  <2>1. c' = c /\ age' = age /\ chosen' = chosen /\ intact' = intact
    BY <1>7 DEF Rewrap, AddKey, SealFromAge, SealByHand, LockTpm, Fscrypt, Writeback, Check,
                UnlockWithTpm, Password, Attempt
  <2> QED
    BY <1>a, <2>1, MatchesStays
<1> QED
  BY <1>1, <1>2, <1>3, <1>4, <1>5, <1>6, <1>7 DEF Next
(* A good sealed secret stays the key of /z/c.                              *)
LEMMA NextSealed ==
    KeyInv /\ Next
       => (sealed' # None /\ sealed'.good = "yes" => c'.home = "yes" /\ c'.key = Pad(sealed'.secret))
<1> SUFFICES ASSUME KeyInv, Next, sealed' # None, sealed'.good = "yes"
             PROVE  c'.home = "yes" /\ c'.key = Pad(sealed'.secret)
  OBVIOUS
<1> USE DEF history, disk, shell
<1>a. TypeOK /\ (intact = "yes" => Matches)
  BY DEF KeyInv
<1>b. sealed # None /\ sealed.good = "yes" => c.home = "yes" /\ c.key = Pad(sealed.secret)
  BY DEF KeyInv
<1>1. CASE InitC \/ Setup
  <2>1. c' = [c EXCEPT !.made = "yes"] /\ sealed' = sealed
    BY <1>1 DEF InitC, Setup
  <2>2. c'.key = c.key /\ c'.home = c.home
    BY <1>a, <2>1, DirectoryUpdate DEF TypeOK, YesNo
  <2> QED
    BY <1>b, <2>1, <2>2
<1>2. CASE SetPolicy
  <2>1. sealed' = sealed
    BY <1>2 DEF SetPolicy
  <2>2. c' = c
    BY <1>2, <1>b, <2>1 DEF SetPolicy
  <2> QED
    BY <1>b, <2>1, <2>2
<1>3. CASE MakeHome
  <2>1. sealed' = sealed
    BY <1>3 DEF MakeHome
  <2>2. /\ c'.key = c.key
        /\ c'.home = IF c.key = None \/ c.key \in ring THEN "yes" ELSE c.home
    BY <1>3, <1>a, DirectoryUpdate, Fields DEF MakeHome, TypeOK, YesNo
  <2> QED
    BY <1>b, <2>1, <2>2
<1>4. CASE SealFromAge
  <2>1. age \notin {NoFile, Torn} /\ c' = c
    BY <1>4 DEF SealFromAge
  <2>2. TrimEnd(EchoUnquoted(age.secret)) = age.secret
    BY <1>a, <2>1, DrawsSurvive DEF TypeOK
  <2>3. sealed' = sealed \/ (intact = "yes" /\ sealed'.secret = age.secret)
    BY <1>4, <2>2 DEF SealFromAge, SealedAs
  <2>4. intact = "yes" => c.home = "yes" /\ c.key = Pad(age.secret)
    BY <1>a, <2>1 DEF Matches
  <2> QED
    BY <1>b, <2>1, <2>3, <2>4
<1>5. CASE SealByHand
  <2>1. PICK secret : SealedAs(secret, IF age = NoFile /\ chosen = [text |-> secret, how |-> "env"]
                                       THEN intact ELSE "no")
    BY <1>5 DEF SealByHand
  <2>2. c' = c
    BY <1>5 DEF SealByHand
  <2>3. \/ sealed' = sealed
        \/ /\ sealed'.secret = secret /\ intact = "yes" /\ age = NoFile
           /\ chosen = [text |-> secret, how |-> "env"]
    BY <2>1 DEF SealedAs
  <2>4. intact = "yes" /\ age = NoFile /\ chosen = [text |-> secret, how |-> "env"]
           => c.home = "yes" /\ c.key = Pad(secret)
    BY <1>a DEF Matches, OpensAge, IsMaterial, KeyMaterial
  <2> QED
    BY <1>b, <2>2, <2>3, <2>4
<1>6. CASE Reboot \/ PowerLoss
  BY <1>6, <1>b DEF Reboot, PowerLoss, Boots
<1>7. CASE Rewrap \/ AddKey \/ LockTpm \/ Fscrypt \/ Writeback \/ Redirect \/ Encrypt
            \/ Check \/ UnlockWithTpm \/ \E t \in Texts : Password(t)
  <2>1. c' = c /\ sealed' = sealed
    BY <1>7 DEF Rewrap, AddKey, LockTpm, Fscrypt, Writeback, Redirect, Encrypt, Check,
                UnlockWithTpm, Password, Attempt
  <2> QED
    BY <1>b, <2>1
<1> QED
  BY <1>1, <1>2, <1>3, <1>4, <1>5, <1>6, <1>7 DEF Next

(* Outside of a boot nothing has been typed; inside, only PID 1 acts.       *)
LEMMA NextPid1 ==
    KeyInv /\ Next =>
       /\ right' = "yes" => at' \in {"password", "failed"}
       /\ at' \in {"tpm", "password"} => ~UnlockedBy({})'
       /\ right' = "yes" /\ intact' = "yes" => ~SurvivesTrim(chosen)'
       /\ SealedOpens'
<1> SUFFICES ASSUME KeyInv, Next
             PROVE  /\ right' = "yes" => at' \in {"password", "failed"}
                    /\ at' \in {"tpm", "password"} => ~UnlockedBy({})'
                    /\ right' = "yes" /\ intact' = "yes" => ~SurvivesTrim(chosen)'
                    /\ SealedOpens'
  OBVIOUS
<1> USE DEF history, disk, shell
<1>a. /\ TypeOK /\ ShellInv /\ SealedOpens
      /\ right = "yes" => at \in {"password", "failed"}
      /\ at \in {"tpm", "password"} => ~UnlockedBy({})
      /\ right = "yes" /\ intact = "yes" => ~SurvivesTrim(chosen)
      /\ sealed # None /\ sealed.good = "yes" => c.home = "yes" /\ c.key = Pad(sealed.secret)
  BY DEF KeyInv
<1>1. CASE \/ InitC \/ Rewrap \/ Redirect \/ Encrypt \/ Setup \/ AddKey \/ SetPolicy \/ MakeHome
           \/ SealFromAge \/ SealByHand \/ LockTpm \/ Fscrypt
  <2>1. at = "up"
    BY <1>1, <1>a DEF InitC, Rewrap, Redirect, Encrypt, Setup, AddKey, SetPolicy, MakeHome,
                      SealFromAge, SealByHand, LockTpm, Fscrypt, Running, ShellInv
  <2>2. at' = at /\ right' = right
    BY <1>1 DEF InitC, Rewrap, Redirect, Encrypt, Setup, AddKey, SetPolicy, MakeHome,
                SealFromAge, SealByHand, LockTpm, Fscrypt
  <2> QED
    BY <1>a, <2>1, <2>2 DEF SealedOpens
<1>2. CASE Reboot \/ PowerLoss
  BY <1>2 DEF Reboot, PowerLoss, Boots, SealedOpens
<1>3. CASE Writeback
  BY <1>3, <1>a DEF Writeback, SealedOpens, UnlockedBy, SurvivesTrim
<1>4. CASE Check
  BY <1>4, <1>a, Fields DEF Check, SealedOpens, UnlockedBy, TypeOK, YesNo
<1>5. CASE UnlockWithTpm
  <2>1. right # "yes" /\ right' = right /\ c' = c /\ sealed' = sealed /\ ~UnlockedBy({})
    BY <1>5, <1>a DEF UnlockWithTpm
  <2>2. sealed # None /\ sealed.good = "yes" /\ sealed.pcr = "boot" => at' = "up"
    BY <1>5, <1>a DEF UnlockWithTpm, UnlockedBy
  <2>3. at' \in {"up", "password"}
    BY <1>5 DEF UnlockWithTpm
  <2> QED
    BY <2>1, <2>2, <2>3 DEF SealedOpens, UnlockedBy
<1>6. ASSUME NEW t \in Texts, Password(t)
      PROVE  /\ right' = "yes" => at' \in {"password", "failed"}
             /\ at' \in {"tpm", "password"} => ~UnlockedBy({})'
             /\ right' = "yes" /\ intact' = "yes" => ~SurvivesTrim(chosen)'
             /\ SealedOpens'
  <2>1. /\ at = "password" /\ c' = c /\ sealed' = sealed /\ intact' = intact /\ chosen' = chosen
        /\ at' \in {"up", "password", "failed"}
    BY <1>6 DEF Password, Attempt
  <2>2. at' = "up" => right' = "no"
    BY <1>6 DEF Password, Attempt
  <2>3. right' = "yes" => t = chosen.text \/ right = "yes"
    BY <1>6 DEF Password, Attempt
  <2>4. t = chosen.text /\ intact = "yes" /\ SurvivesTrim(chosen) => right' = "no"
    BY <1>6, RightOpens
  <2>5. right' = "yes" /\ intact' = "yes" => ~SurvivesTrim(chosen)'
    BY <1>a, <2>1, <2>3, <2>4 DEF SurvivesTrim
  <2> QED
    BY <1>a, <2>1, <2>2, <2>5 DEF SealedOpens, UnlockedBy
<1> QED
  BY <1>1, <1>2, <1>3, <1>4, <1>5, <1>6 DEF Next

(* The invariant is inductive.                                              *)
LEMMA NextKeyInv == KeyInv /\ [Next]_vars => KeyInv'
<1> SUFFICES ASSUME KeyInv, [Next]_vars PROVE KeyInv'
  OBVIOUS
<1>1. CASE Next
  BY <1>1, NextType, NextShell, NextMatches, NextSealed, NextPid1 DEF KeyInv
<1>2. CASE UNCHANGED vars
  BY <1>2 DEF vars, KeyInv, TypeOK, ShellInv, OpensAge, Matches, UnlockedBy, SurvivesTrim,
              SealedOpens
<1> QED
  BY <1>1, <1>2

(* KeyInv holds for all texts, identities and generated keys.               *)
THEOREM SpecKeyInv == Spec => []KeyInv
BY InitKeyInv, NextKeyInv, PTL DEF Spec

(* Typing again what was given at the setup of /z/c opens it.               *)
THEOREM SpecRightPasswordOpens == Spec => []RightPasswordOpens
<1>1. KeyInv => RightPasswordOpens
  BY DEF KeyInv, RightPasswordOpens
<1> QED
  BY <1>1, SpecKeyInv, PTL

(* A secret that was sealed in time opens /z/c without a prompt.            *)
THEOREM SpecSealedOpens == Spec => []SealedOpens
<1>1. KeyInv => SealedOpens
  BY DEF KeyInv
<1> QED
  BY <1>1, SpecKeyInv, PTL

(* In verified mode PID 1 accepts an existing /z/c only when a key that was *)
(* added in this boot has opened it.                                        *)
THEOREM SpecVerifiedIsEncrypted == Spec => VerifiedIsEncrypted
<1>1. KeyInv /\ [Next]_vars
        => [at # "up" /\ at' = "up" /\ verified = "yes" /\ c.made = "yes"
              => c.key # None /\ c.key \in ring']_vars
  <2> SUFFICES ASSUME KeyInv, Next, at # "up", at' = "up", verified = "yes", c.made = "yes"
               PROVE  c.key # None /\ c.key \in ring'
    OBVIOUS
  <2> USE DEF history, disk, shell
  <2>a. ShellInv /\ (at \in {"tpm", "password"} => ~UnlockedBy({}))
    BY DEF KeyInv
  <2>1. \/ Check \/ UnlockWithTpm \/ \E t \in Texts : Password(t)
    BY <2>a DEF Next, InitC, Rewrap, Redirect, Encrypt, Setup, AddKey, SetPolicy, MakeHome,
           SealFromAge, SealByHand, LockTpm, Fscrypt, Running, ShellInv, Reboot, PowerLoss,
           Boots, Writeback
  <2>2. CASE Check
    BY <2>2 DEF Check, UnlockedBy
  <2>3. CASE UnlockWithTpm
    BY <2>3, <2>a DEF UnlockWithTpm, UnlockedBy
  <2>4. CASE \E t \in Texts : Password(t)
    BY <2>4, <2>a DEF Password, Attempt, UnlockedBy
  <2> QED
    BY <2>1, <2>2, <2>3, <2>4
<1> QED
  BY <1>1, SpecKeyInv, PTL DEF Spec, VerifiedIsEncrypted

-----------------------------------------------------------------------------
(* A text that neither begins nor ends with whitespace is its own Strip.    *)
LEMMA StripKeeps ==
    ASSUME NEW S, NEW t \in Seq(S), NEW ws, t # <<>>, t[1] \notin ws, t[Len(t)] \notin ws
    PROVE  Strip(t, ws) = t
<1> DEFINE solid == {i \in DOMAIN t : t[i] \notin ws}
<1>1. Len(t) \in Nat /\ DOMAIN t = 1..Len(t) /\ 1 \in DOMAIN t /\ Len(t) \in DOMAIN t
  OBVIOUS
<1>2. /\ 1 \in solid /\ Len(t) \in solid
      /\ \A j \in solid : j \in Nat /\ 1 <= j /\ j <= Len(t)
  BY <1>1
<1>3. Strip(t, ws) = IF solid = {} THEN <<>>
                     ELSE SubSeq(t, CHOOSE i \in solid : \A j \in solid : i <= j,
                                    CHOOSE i \in solid : \A j \in solid : j <= i)
  BY DEF Strip
<1> HIDE DEF solid
<1>4. (CHOOSE i \in solid : \A j \in solid : i <= j) = 1
  BY <1>2
<1>5. (CHOOSE i \in solid : \A j \in solid : j <= i) = Len(t)
  BY <1>1, <1>2
<1>6. SubSeq(t, 1, Len(t)) = t
  BY <1>1
<1> QED
  BY <1>2, <1>3, <1>4, <1>5, <1>6

(* read -r and str::trim only differ on the whitespace that the shell does  *)
(* not know.                                                                *)
LEMMA TrimsAgree ==
    ASSUME NEW t, \A i \in DOMAIN t : t[i] # Blank PROVE ShellRead(t) = Trim(t)
<1> DEFINE Solid(ws) == {i \in DOMAIN t : t[i] \notin ws}
           Between(solid) == IF solid = {} THEN <<>>
                             ELSE SubSeq(t, CHOOSE i \in solid : \A j \in solid : i <= j,
                                            CHOOSE i \in solid : \A j \in solid : j <= i)
<1>1. ShellRead(t) = Between(Solid({Space})) /\ Trim(t) = Between(Solid({Space, Blank}))
  BY DEF ShellRead, Trim, Strip
<1>2. Solid({Space}) = Solid({Space, Blank})
  OBVIOUS
<1> HIDE DEF Solid, Between
<1> QED
  BY <1>1, <1>2

(* Which passwords can lock an operator out who types them again: one that  *)
(* was given to init_c with whitespace in it that the shell does not know,  *)
(* and one that was given in the environment with whitespace at its ends.   *)
(* Any other one opens /z/c in every boot.                                  *)
OnlyWhitespaceLocksOut ==
    at = "failed" /\ right = "yes" /\ intact = "yes" =>
        \/ chosen.how = "init_c" /\ \E i \in DOMAIN chosen.text : chosen.text[i] = Blank
        \/ /\ chosen.how = "env" /\ chosen.text # <<>>
           /\ {chosen.text[1], chosen.text[Len(chosen.text)]} \cap {Space, Blank} # {}

(* The trims of setup-initos-host, get_fscrypt_key and read_secret agree on *)
(* every other text.                                                        *)
THEOREM PlainPasswordOpens == Spec => []OnlyWhitespaceLocksOut
<1>1. KeyInv => OnlyWhitespaceLocksOut
  <2> SUFFICES ASSUME KeyInv, at = "failed", right = "yes", intact = "yes"
               PROVE  \/ chosen.how = "init_c" /\ \E i \in DOMAIN chosen.text : chosen.text[i] = Blank
                      \/ /\ chosen.how = "env" /\ chosen.text # <<>>
                         /\ {chosen.text[1], chosen.text[Len(chosen.text)]} \cap {Space, Blank} # {}
    BY DEF OnlyWhitespaceLocksOut
  <2>1. ~ SurvivesTrim(chosen) /\ chosen.text \in Texts
    BY DEF KeyInv, TypeOK, Gift
  <2>2. \/ chosen.how = "init_c" /\ ShellRead(chosen.text) # Trim(chosen.text)
        \/ chosen.how = "env" /\ chosen.text # Trim(chosen.text)
    BY <2>1 DEF SurvivesTrim
  <2>3. CASE chosen.how = "init_c" /\ ShellRead(chosen.text) # Trim(chosen.text)
    BY <2>3, TrimsAgree
  <2>4. CASE chosen.how = "env" /\ chosen.text # Trim(chosen.text)
    <3>1. chosen.text \in Seq({chosen.text[i] : i \in DOMAIN chosen.text})
      BY <2>1, TextsAssumption
    <3>2. Trim(<<>>) = <<>>
      BY DEF Trim, Strip
    <3>3. chosen.text # <<>>
      BY <2>4, <3>2
    <3>4. ~ (chosen.text[1] \notin {Space, Blank} /\ chosen.text[Len(chosen.text)] \notin {Space, Blank})
      BY <2>4, <3>1, <3>3, StripKeeps DEF Trim
    <3> QED
      BY <2>4, <3>3, <3>4, ZenonT(30)
  <2> QED
    BY <2>2, <2>3, <2>4
<1> QED
  BY <1>1, SpecKeyInv, PTL
=============================================================================
