------------------------------ MODULE StateKey ------------------------------
(***************************************************************************)
(* The key of the encrypted directory /z/c, from its setup to the boots     *)
(* that need it: init_c of src/sidecar/bin/setup-initos-host, the commands  *)
(* encrypt, decrypt, fscrypt, fscrypt-setup and seal, and the unlock by     *)
(* PID 1 (unlock_state_c of src/src/boot.rs).                               *)
(*                                                                          *)
(* The same secret passes through the shell, the environment, a prompt, an  *)
(* age file and the TPM, and each of them trims it in its own way.  A text  *)
(* is therefore a sequence of characters; a key of fscrypt is a text        *)
(* repeated up to KeySize.  Encryption with age is a pair of a recipient    *)
(* and the text, encryption by the TPM and the policy of PCR 7 are those of *)
(* TpmSeal, reduced to "PCR 7 was extended in the boot of the seal".        *)
(***************************************************************************)
EXTENDS Naturals, Sequences, FiniteSets, SequencesExt

CONSTANTS Texts,      \* what is typed or set in the environment, with <<>>
          Identities, \* the texts that parse as an age x25519 identity
          Generated,  \* the random key of each init_c
          Space,      \* whitespace of the shell
          Blank,      \* other whitespace, such as U+00A0, that Rust trims too
          KeySize,    \* length of an fscrypt key, 64 in the code
          None

MaxSetups == Len(Generated)
Draws == {Generated[n] : n \in 1..MaxSetups}

VARIABLES verified,  \* Secure Boot is on: "yes" or "no"
          c,         \* /z/c: whether it exists, the key of its policy, home
          age,       \* /z/initos/c.age: NoFile, Torn, or recipients and secret
          dirty,     \* c.age is not on the disk yet
          sealed,    \* the secret in the TPM, with PCR 7 of the seal
          pcr7,      \* "boot" or "extended"
          ring,      \* the keys in the keyring of the file system
          pc,        \* the next command of the shell
          job,       \* what it works on
          ok,        \* no command of it has failed yet
          at,        \* where the machine is
          attempt,   \* of the password prompt
          setups,    \* setups so far
          chosen,    \* history: what the operator gave as the password
          intact,    \* history: no error since, /z/c and c.age belong together
          right      \* history: it was typed again in this boot

vars == <<verified, c, age, dirty, sealed, pcr7, ring, pc, job, ok, at, attempt,
          setups, chosen, intact, right>>

disk == <<c, age, dirty, sealed>>
history == <<setups, chosen, intact>>
shell == <<pc, job, ok>>

(* An empty or cut file: nobody can decrypt it.                             *)
Torn == [is |-> "file", to |-> {}, secret |-> <<>>]
NoFile == [is |-> "absent", to |-> {}, secret |-> <<>>]
Nothing == [text |-> <<>>, how |-> "nothing"]
NoJob == [cmd |-> None, raw |-> <<>>, key |-> <<>>, ids |-> {}, given |-> Nothing]

-----------------------------------------------------------------------------
(* What happens to a text on its way.                                       *)

(* s without the characters of ws at its ends                               *)
Strip(s, ws) ==
    LET solid == {i \in DOMAIN s : s[i] \notin ws} IN
    IF solid = {} THEN <<>>
    ELSE SubSeq(s, CHOOSE i \in solid : \A j \in solid : i <= j,
                   CHOOSE i \in solid : \A j \in solid : j <= i)

(* str::trim, in read_secret and decrypt_age_with_key                       *)
Trim(s) == Strip(s, {Space, Blank})

(* str::trim_end, in read_secret_input                                      *)
TrimEnd(s) ==
    SubSeq(s, 1, LET solid == {i \in DOMAIN s : s[i] \notin {Space, Blank}} IN
                 IF solid = {} THEN 0 ELSE CHOOSE i \in solid : \A j \in solid : j <= i)

(* read -r KEY of the shell                                                 *)
ShellRead(s) == Strip(s, {Space})

(* echo -n $pass, unquoted: the words, with one space between two           *)
EchoUnquoted(s) ==
    LET word == {i \in DOMAIN s : s[i] # Space}
        kept == word \cup {i \in DOMAIN s : i - 1 \in word /\ \E j \in word : j > i}
        nth == SetToSortSeq(kept, <) IN
    IF word = DOMAIN s THEN s ELSE [k \in DOMAIN nth |-> s[nth[k]]]

(* mutation: the key is padded with zeroes in one of the two places        *)
PadZeroes(raw) == [i \in 0..(KeySize - 1) |-> IF i < Len(raw) THEN raw[i + 1] ELSE 0]

(* add_fscrypt_key of boot.rs                                               *)
Pad(raw) == [i \in 0..(KeySize - 1) |-> raw[(i % Len(raw)) + 1]]

(* get_fscrypt_key of cmd.rs, which has its own copy of the padding         *)
FscryptKey(raw) == [i \in 0..(KeySize - 1) |-> raw[(i % Len(raw)) + 1]]

(* An age recipient is made of a passphrase or an x25519 key.               *)
Scrypt(s) == IF s = <<>> THEN {} ELSE {<<"scrypt", s>>}
X25519(s) == IF s \in Identities THEN {<<"x25519", s>>} ELSE {}

(* cmd_encrypt: KEY and the recipients of the command line.  age does not   *)
(* mix a passphrase with others.  Torn is the empty file that the           *)
(* redirection has made.                                                    *)
Encrypted(key, ids, secret) ==
    LET to == Scrypt(key) \cup UNION {X25519(i) : i \in ids} IN
    IF to = {} \/ (Scrypt(key) # {} /\ Cardinality(to) > 1)
    THEN Torn ELSE [is |-> "file", to |-> to, secret |-> secret]

(* cmd_decrypt with c.age as its input file: the first source that gives an *)
(* identity decides: -i, KEY, ID, KEY_FILE, and only then the prompt.       *)
DecryptIdentities(i, key, id, file, typed) ==
    LET sources == <<X25519(i), Scrypt(key), X25519(id), X25519(Trim(file)), Scrypt(Trim(typed))>>
        some == {n \in DOMAIN sources : sources[n] # {}} IN
    IF (i # <<>> /\ X25519(i) = {}) \/ some = {} THEN {}
    ELSE sources[CHOOSE n \in some : \A m \in some : n <= m]

Opens(identities) == age # NoFile /\ identities \cap age.to # {}

(* c_is_unlocked: home is a directory.  Without the key the names in an     *)
(* encrypted directory are not the real ones.                               *)
UnlockedBy(keys) == c.home = "yes" /\ (c.key = None \/ c.key \in keys)

-----------------------------------------------------------------------------
Init ==
    /\ verified \in {"yes", "no"}
    /\ c = [made |-> "no", key |-> None, home |-> "no"]
    /\ age = NoFile /\ dirty = "no"
    /\ sealed = None
    /\ pcr7 = "boot"
    /\ ring = {}
    /\ pc = "idle" /\ job = NoJob /\ ok = "no"
    /\ at = "up"
    /\ attempt = 1
    /\ setups = 0
    /\ chosen = Nothing
    /\ intact = "no"
    /\ right = "no"

-----------------------------------------------------------------------------
(* Setup.  No command of init_c is checked: after an error the next runs.   *)

Running == at = "up" /\ pc = "idle"
Done == pc' = "idle" /\ job' = NoJob /\ ok' = "no"

(* init_c: mkdir, a random key, read of the password.                       *)
InitC ==
    /\ Running /\ setups < MaxSetups
    /\ setups' = setups + 1
    /\ c' = [c EXCEPT !.made = "yes"]
    /\ \E t \in Texts :
          job' = [cmd |-> "init_c", raw |-> Generated[setups + 1], key |-> ShellRead(t),
                  ids |-> {}, given |-> [text |-> t, how |-> "init_c"]]
    /\ pc' = "redirect" /\ ok' = "yes"
    /\ UNCHANGED <<verified, age, dirty, sealed, pcr7, ring, at, attempt, chosen, intact, right>>

(* c.age is written anew, for another password or for x25519 recipients, by *)
(* somebody who has decrypted it.                                           *)
Rewrap ==
    /\ Running
    /\ age \notin {NoFile, Torn}
    /\ \E key \in Texts, ids \in SUBSET Identities :
       \E t \in IF key = <<>> /\ ids # {} THEN ids ELSE {key} :
          job' = [cmd |-> "rewrap", raw |-> age.secret, key |-> key, ids |-> ids,
                  given |-> [text |-> t, how |-> "env"]]
    /\ pc' = "redirect" /\ ok' = intact
    /\ UNCHANGED <<verified, disk, pcr7, ring, at, attempt, history, right>>

(* The shell empties c.age before encrypt runs.                             *)
Redirect ==
    /\ pc = "redirect"
    /\ age' = Torn
    /\ dirty' = "yes"
    /\ chosen' = job.given
    /\ intact' = "no"
    /\ pc' = "encrypt" /\ UNCHANGED <<job, ok>>
    /\ UNCHANGED <<verified, c, sealed, pcr7, ring, at, attempt, setups, right>>

(* cmd_encrypt                                                              *)
Encrypt ==
    /\ pc = "encrypt"
    /\ age' = Encrypted(job.key, job.ids, job.raw)
    /\ LET success == IF age' = Torn THEN "no" ELSE ok IN
       IF job.cmd = "init_c"
       THEN pc' = "addkey" /\ ok' = success /\ UNCHANGED <<job, intact>>
       ELSE Done /\ intact' = success
    /\ UNCHANGED <<verified, c, dirty, sealed, pcr7, ring, at, attempt, setups, chosen, right>>

(* get_fscrypt_key: the environment as it is, or the prompt.                *)
KeyMaterial(t, how) == IF how = "env" THEN t ELSE Trim(t)

(* fscrypt-setup by hand, without c.age.                                    *)
Setup ==
    /\ Running /\ setups < MaxSetups
    /\ setups' = setups + 1
    /\ c' = [c EXCEPT !.made = "yes"]
    /\ \E t \in Texts, how \in {"env", "prompt"} :
          /\ KeyMaterial(t, how) # <<>>
          /\ job' = [cmd |-> "setup", raw |-> KeyMaterial(t, how), key |-> <<>>,
                     ids |-> {}, given |-> [text |-> t, how |-> how]]
    /\ pc' = "addkey" /\ ok' = IF age = NoFile THEN "yes" ELSE "no"
    /\ UNCHANGED <<verified, age, dirty, sealed, pcr7, ring, at, attempt, chosen, intact, right>>

(* cmd_fscrypt_setup: add_key.  An error ends fscrypt-setup, not the job. *)
AddKey ==
    /\ pc = "addkey"
    /\ \/ /\ ring' = ring \cup {FscryptKey(job.raw)}
          /\ pc' = "policy" /\ UNCHANGED ok
       \/ /\ ring' = ring
          /\ pc' = "home" /\ ok' = "no"
    /\ UNCHANGED <<verified, disk, pcr7, job, at, attempt, history, right>>

(* mutation: an encrypted directory gets another policy                    *)
SetPolicyAgain ==
    /\ pc = "policy"
    /\ c' = [c EXCEPT !.key = FscryptKey(job.raw)]
    /\ chosen' = job.given
    /\ pc' = "home" /\ UNCHANGED ok
    /\ UNCHANGED <<verified, age, dirty, sealed, pcr7, ring, job, at, attempt, setups, intact, right>>

(* set_policy, on a directory that is empty and not encrypted yet.          *)
SetPolicy ==
    /\ pc = "policy"
    /\ IF c.key = None /\ c.home = "no"
       THEN /\ c' = [c EXCEPT !.key = FscryptKey(job.raw)]
            /\ chosen' = job.given
            /\ pc' = "home" /\ UNCHANGED ok
       ELSE /\ pc' = "home" /\ ok' = "no"
            /\ UNCHANGED <<c, chosen>>
    /\ UNCHANGED <<verified, age, dirty, sealed, pcr7, ring, job, at, attempt, setups, intact, right>>

(* mkdir -p c/home/root, which an encrypted directory without its key       *)
(* refuses.                                                                 *)
MakeHome ==
    /\ pc = "home"
    /\ c' = [c EXCEPT !.home = IF c.key = None \/ c.key \in ring THEN "yes" ELSE c.home]
    /\ intact' = IF ok = "yes" THEN "yes" ELSE intact
    /\ Done
    /\ UNCHANGED <<verified, age, dirty, sealed, pcr7, ring, at, attempt, setups, chosen, right>>

-----------------------------------------------------------------------------
(* The other commands.                                                      *)

(* cmd_seal, with the history of whether text is the key of /z/c; an empty  *)
(* secret is refused.                                                       *)
SealedAs(text, good) ==
    sealed' = IF text = <<>> THEN sealed ELSE [secret |-> text, pcr |-> pcr7, good |-> good]

(* mutation: the line of decrypt is sealed with its newline                *)
SealUntrimmed ==
    /\ Running /\ age \notin {NoFile, Torn}
    /\ \E i, key, id, file, typed \in Texts : Opens(DecryptIdentities(i, key, id, file, typed))
    /\ SealedAs(Append(age.secret, Space), intact)
    /\ UNCHANGED <<verified, c, age, dirty, pcr7, ring, shell, at, attempt, history, right>>

(* docs/usage-nix.md: pass=$(initos decrypt c.age); echo -n $pass | initos  *)
(* seal.  read_secret_input reads the standard input.                       *)
SealFromAge ==
    /\ Running /\ age \notin {NoFile, Torn}
    /\ \E i, key, id, file, typed \in Texts : Opens(DecryptIdentities(i, key, id, file, typed))
    /\ SealedAs(TrimEnd(EchoUnquoted(age.secret)), intact)
    /\ UNCHANGED <<verified, c, age, dirty, pcr7, ring, shell, at, attempt, history, right>>

(* INITOS_SECRET=... initos seal, or a file.                                *)
SealByHand ==
    /\ Running
    /\ \E t \in Texts : \E secret \in {t, TrimEnd(t)} :
          SealedAs(secret, IF age = NoFile /\ chosen = [text |-> secret, how |-> "env"]
                           THEN intact ELSE "no")
    /\ UNCHANGED <<verified, c, age, dirty, pcr7, ring, shell, at, attempt, history, right>>

(* cmd_lock_tpm                                                             *)
LockTpm ==
    /\ Running
    /\ pcr7' = "extended"
    /\ UNCHANGED <<verified, disk, ring, shell, at, attempt, history, right>>

(* cmd_fscrypt.  A key that is not the one of the policy opens nothing, and *)
(* is left out.                                                             *)
Fscrypt ==
    /\ Running
    /\ \E t \in Texts, how \in {"env", "prompt"} :
          /\ KeyMaterial(t, how) # <<>>
          /\ FscryptKey(KeyMaterial(t, how)) = c.key
          /\ ring' = ring \cup {c.key}
    /\ UNCHANGED <<verified, disk, pcr7, shell, at, attempt, history, right>>

-----------------------------------------------------------------------------
(* Restarts.                                                                *)

Boots == /\ at' = "check" /\ attempt' = 1 /\ right' = "no"
         /\ ring' = {} /\ pcr7' = "boot" /\ Done
         /\ UNCHANGED <<verified, c, sealed, setups, chosen>>

(* An orderly reboot, or a machine that failed to boot and is restarted.    *)
Reboot ==
    /\ Running \/ at = "failed"
    /\ Boots
    /\ dirty' = "no"
    /\ UNCHANGED <<age, intact>>

(* The contents of c.age reach the disk later than its name.  A setup that  *)
(* is cut short is not intact.                                              *)
PowerLoss ==
    /\ Boots
    /\ dirty' = "no"
    /\ age' \in IF dirty = "yes" THEN {age, Torn} ELSE {age}
    /\ intact' = IF age' = age THEN intact ELSE "no"

Writeback ==
    /\ dirty = "yes"
    /\ dirty' = "no"
    /\ UNCHANGED <<verified, c, age, sealed, pcr7, ring, shell, at, attempt, history, right>>

-----------------------------------------------------------------------------
(* PID 1: unlock_state_c.                                                   *)

(* mutation: a directory that is open already is accepted in every mode    *)
CheckOpenAccepted ==
    /\ at = "check"
    /\ at' = IF c.made = "no" \/ UnlockedBy({}) THEN "up" ELSE "tpm"
    /\ UNCHANGED <<verified, disk, pcr7, ring, shell, attempt, history, right>>

Check ==
    /\ at = "check"
    /\ at' = CASE c.made = "no" -> "up"
               [] c.made = "yes" /\ UnlockedBy({}) /\ verified = "yes" -> "failed"
               [] c.made = "yes" /\ UnlockedBy({}) /\ verified = "no" -> "up"
               [] OTHER -> "tpm"
    /\ UNCHANGED <<verified, disk, pcr7, ring, shell, attempt, history, right>>

(* unlock_c_with_tpm; without a TPM sealed is None.                         *)
UnlockWithTpm ==
    /\ at = "tpm"
    /\ IF sealed # None /\ sealed.pcr = "boot"
       THEN /\ ring' = {Pad(sealed.secret)}
            /\ IF UnlockedBy(ring')
               THEN at' = "up" /\ pcr7' = "extended"
               ELSE at' = "password" /\ UNCHANGED pcr7
       ELSE at' = "password" /\ UNCHANGED <<pcr7, ring>>
    /\ UNCHANGED <<verified, disk, shell, attempt, history, right>>

(* The key that a password leads to: of c.age, if there is one, or the      *)
(* password itself.  <<>> is an error.                                      *)
KeyFrom(pass) ==
    CASE age = NoFile -> pass
      [] age # NoFile /\ Opens(Scrypt(pass) \cup X25519(pass)) -> age.secret
      [] OTHER -> <<>>

(* One more attempt with raw key material; <<>> stands for an error.        *)
Attempt(t, raw) ==
    /\ at = "password"
    /\ ring' = IF raw = <<>> THEN ring ELSE ring \cup {Pad(raw)}
    /\ IF raw # <<>> /\ UnlockedBy(ring')
       THEN at' = "up" /\ attempt' = 1 /\ right' = "no"
       ELSE /\ right' = IF t = chosen.text THEN "yes" ELSE right
            /\ IF attempt < 3 THEN attempt' = attempt + 1 /\ UNCHANGED at
               ELSE at' = "failed" /\ attempt' = 1
    /\ UNCHANGED <<verified, disk, pcr7, shell, history>>

(* mutation: what is typed is not trimmed                                  *)
PasswordAsTyped(t) == Attempt(t, IF t = <<>> THEN <<>> ELSE KeyFrom(t))

(* unlock_c_with_password: three attempts, of which an empty password is    *)
(* one.                                                                     *)
Password(t) == Attempt(t, IF Trim(t) = <<>> THEN <<>> ELSE KeyFrom(Trim(t)))

Next ==
    \/ InitC \/ Rewrap \/ Redirect \/ Encrypt
    \/ Setup \/ AddKey \/ SetPolicy \/ MakeHome
    \/ SealFromAge \/ SealByHand \/ LockTpm \/ Fscrypt
    \/ Reboot \/ PowerLoss \/ Writeback
    \/ Check \/ UnlockWithTpm \/ \E t \in Texts : Password(t)

Spec == Init /\ [][Next]_vars

-----------------------------------------------------------------------------
YesNo == {"yes", "no"}
Pcr == {"boot", "extended"}
Material == (Texts \cup {Trim(t) : t \in Texts} \cup Draws) \ {<<>>}
Keys == {FscryptKey(raw) : raw \in Material}
Gift == [text : Texts, how : {"nothing", "init_c", "env", "prompt"}]
Directory == [made : YesNo, key : Keys \cup {None}, home : YesNo]
Steps == {"idle", "redirect", "encrypt", "addkey", "policy", "home"}
Job == [cmd : {None, "init_c", "rewrap", "setup"}, raw : Material \cup {<<>>},
        key : Texts \cup {ShellRead(t) : t \in Texts}, ids : SUBSET Identities, given : Gift]

(* tr -dc a-zA-Z0-9: a random key is not empty and has no whitespace.       *)
ASSUME GeneratedAssumption ==
    /\ Generated \in Seq(Seq(Nat))
    /\ \A s \in Draws : s # <<>> /\ \A i \in 1..Len(s) : s[i] \notin {Space, Blank}
ASSUME TextsAssumption ==
    /\ <<>> \in Texts /\ <<>> \notin Identities /\ Identities \subseteq Texts
    /\ \A t \in Texts : t \in Seq({t[i] : i \in DOMAIN t})
ASSUME NoneAssumption == None \notin Keys

(* The storage, the shell and PID 1 are in well-formed states.              *)
TypeOK ==
    /\ verified \in YesNo /\ dirty \in YesNo /\ intact \in YesNo /\ right \in YesNo
    /\ c \in Directory
    /\ age \in {NoFile, Torn} \/ age.secret \in Draws
    /\ sealed = None \/ (sealed.secret # <<>> /\ sealed.pcr \in Pcr /\ sealed.good \in YesNo)
    /\ pcr7 \in Pcr
    /\ pc \in Steps /\ ok \in YesNo /\ job \in Job
    /\ at \in {"up", "check", "tpm", "password", "failed"}
    /\ attempt \in 1..3
    /\ setups \in 0..MaxSetups
    /\ chosen \in Gift

(* In verified mode PID 1 goes on with an existing /z/c only when it is     *)
(* encrypted, and opened by a key that was added in this boot.              *)
VerifiedIsEncrypted ==
    [][at # "up" /\ at' = "up" /\ verified = "yes" /\ c.made = "yes"
          => c.key # None /\ c.key \in ring']_vars

(* What is typed survives the way it was stored: read trims less than the   *)
(* prompt, and the environment is not trimmed at all.                       *)
SurvivesTrim(given) ==
    CASE given.how = "init_c" -> ShellRead(given.text) = Trim(given.text)
      [] given.how = "env" -> given.text = Trim(given.text)
      [] OTHER -> TRUE

(* Whoever types at one of the three prompts exactly what was given at the  *)
(* setup of /z/c, or at the last change of c.age, gets in: no useless       *)
(* secret of the TPM, no wrong attempt before it and no trimming stands in  *)
(* the way.                                                                 *)
RightPasswordOpens ==
    at = "failed" /\ right = "yes" /\ intact = "yes" => ~SurvivesTrim(chosen)

(* A secret that was sealed from c.age, or given to seal and fscrypt-setup  *)
(* alike, before PCR 7 was extended, opens /z/c without a prompt in every   *)
(* later boot, whatever has happened to c.age since.                        *)
SealedOpens ==
    at = "password" => ~(sealed # None /\ sealed.good = "yes" /\ sealed.pcr = "boot")

(* What was given opens c.age.                                              *)
OpensAge(given) ==
    /\ age # NoFile
    /\ \/ given.how = "init_c" /\ Scrypt(ShellRead(given.text)) \cap age.to # {}
       \/ given.how = "env" /\ (Scrypt(given.text) \cup X25519(given.text)) \cap age.to # {}

(* What was given is the key itself.                                        *)
IsMaterial(given, raw) ==
    given.how \in {"env", "prompt"} /\ raw = KeyMaterial(given.text, given.how)

(* What the running command has done so far, and what it will do.           *)
ShellInv ==
    /\ pc # "idle" => at = "up" /\ job.raw # <<>>
    /\ pc \in {"redirect", "encrypt"} =>
         /\ job.raw \in Draws
         /\ \/ /\ job.cmd = "init_c" /\ job.ids = {} /\ job.given.how = "init_c"
               /\ job.key = ShellRead(job.given.text)
            \/ /\ job.cmd = "rewrap" /\ job.given.how = "env"
               /\ job.given.text \in IF job.key = <<>> /\ job.ids # {}
                                       THEN job.ids ELSE {job.key}
               /\ ok = "yes" => c.home = "yes" /\ c.key = Pad(job.raw)
    /\ pc \in {"addkey", "policy", "home"} => job.cmd \in {"init_c", "setup"}
    /\ pc = "encrypt" \/ (pc \in {"addkey", "policy", "home"} /\ job.cmd = "init_c")
         => intact = "no" /\ chosen = job.given
    /\ pc \in {"addkey", "policy", "home"} /\ ok = "yes" =>
         \/ job.cmd = "init_c" /\ OpensAge(job.given) /\ age.secret = job.raw
         \/ job.cmd = "setup" /\ age = NoFile /\ IsMaterial(job.given, job.raw)
    /\ pc = "policy" => Pad(job.raw) \in ring
    /\ pc = "home" /\ ok = "yes" =>
         c.key = Pad(job.raw) /\ c.key \in ring /\ chosen = job.given

(* /z/c has a home, and what was given leads to its key.                    *)
Matches ==
    /\ c.home = "yes" /\ c.key # None
    /\ \/ OpensAge(chosen) /\ c.key = Pad(age.secret)
       \/ age = NoFile /\ \E raw \in Material : IsMaterial(chosen, raw) /\ c.key = Pad(raw)

(* Inductive: an intact /z/c has a home and the key that c.age, or the text *)
(* given at its setup, leads to; a good sealed secret is that key; and the  *)
(* right text, once typed in vain, was not one that survives trimming.      *)
KeyInv ==
    /\ TypeOK
    /\ ShellInv
    /\ right = "yes" => at \in {"password", "failed"}
    /\ at \in {"tpm", "password"} => ~UnlockedBy({})
    /\ intact = "yes" => Matches
    /\ sealed # None /\ sealed.good = "yes" => c.home = "yes" /\ c.key = Pad(sealed.secret)
    /\ right = "yes" /\ intact = "yes" => ~SurvivesTrim(chosen)
    /\ SealedOpens
=============================================================================
