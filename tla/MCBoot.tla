------------------------------- MODULE MCBoot -------------------------------
(***************************************************************************)
(* BootSequence for TLC.  The machines are an installation as sign.sh and   *)
(* initos-upgrade leave it, with Secure Boot on or off, and every machine   *)
(* that differs from it in one or two places.                               *)
(***************************************************************************)
EXTENDS BootSequence

Installed(sb) ==
    [secureBoot |-> sb,
     bootPart   |-> "N",
     image      |-> [p \in Images |->
                       IF p \in {"img/N/root", "img/N/firmware", "img/N/modules"}
                       THEN "signed" ELSE "absent"],
     rootDirs   |-> {},
     cdir       |-> "locked",
     tpm        |-> TRUE,
     sealed     |-> [m \in {"dev", "verified"} |-> "key"],
     objects    |-> "shared",
     devTree    |-> FALSE,
     libDirs    |-> {"lib/firmware", "lib/modules"},
     cPaths     |-> {"home", "home/root", "nix"},
     inits      |-> [i \in Inits |-> IF i \in {"sbin", "initos"} THEN "file" ELSE "absent"],
     fallback   |-> {"initrd", "sysroot"}]

Deviations(m) ==
    {[m EXCEPT !.secureBoot = "unreadable"], [m EXCEPT !.bootPart = None],
     [m EXCEPT !.tpm = FALSE], [m EXCEPT !.devTree = TRUE],
     [m EXCEPT !.libDirs = {"lib/firmware"}], [m EXCEPT !.cPaths = {"home"}]}
    \cup {[m EXCEPT !.image[p] = s] : p \in Images, s \in ImageStatus}
    \cup {[m EXCEPT !.rootDirs = @ \cup {d}] : d \in RootDirs}
    \cup {[m EXCEPT !.cdir = s] : s \in {"absent", "open"}}
    \cup {[m EXCEPT !.sealed = [x \in {"dev", "verified"} |-> s]] : s \in {"none", "other"}}
    \cup {[m EXCEPT !.objects = o] : o \in {"none", "legacy"}}
    \cup {[m EXCEPT !.inits[i] = s] : i \in Inits, s \in InitStatus}
    \cup {[m EXCEPT !.fallback = @ \ {w}] : w \in {"initrd", "sysroot"}}

OneAway == UNION {{Installed(sb)} \cup Deviations(Installed(sb)) : sb \in {"on", "off"}}
TwoAway == OneAway \cup UNION {Deviations(m) : m \in OneAway}
=============================================================================
