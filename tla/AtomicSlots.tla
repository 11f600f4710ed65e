----------------------------- MODULE AtomicSlots -----------------------------
(***************************************************************************)
(* What an installation promises about the slots, without its steps: each   *)
(* slot is empty or holds one whole release, and a release gives way only   *)
(* to another whole release, in one step.                                   *)
(***************************************************************************)
CONSTANTS Slots, Versions, None

VARIABLE current    \* the release that each slot holds

Init == current \in [Slots -> Versions \cup {None}]

Replace ==
    /\ current' \in [Slots -> Versions \cup {None}]
    /\ \A s \in Slots : current'[s] # current[s] => current'[s] \in Versions

Spec == Init /\ [][Replace]_current
=============================================================================
