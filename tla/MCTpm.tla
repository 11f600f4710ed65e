-------------------------------- MODULE MCTpm ---------------------------------
(* Two processes that run commands side by side, over any number of boots.  *)
EXTENDS TpmSeal, TLC

CONSTANTS p1, p2

Symmetric == Permutations({p1, p2})
===============================================================================
