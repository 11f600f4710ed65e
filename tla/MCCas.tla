-------------------------------- MODULE MCCas ---------------------------------
(* Two commands side by side on one slot: two revisions and images that     *)
(* share an object, and a bundle with a file that is not what its name says *)
EXTENDS FirmwareCas, TLC

CONSTANTS d1, d2, r1, r2, i1, i2, good, bad, p1, p2

BlobsDef == (r1 :> {d1}) @@ (r2 :> {d1, d2})
ObjectsDef == (i1 :> {d1}) @@ (i2 :> {d2})
PayloadDef == (good :> {<<d1, "good">>, <<d2, "good">>})
                  @@ (bad :> {<<d1, "good">>, <<d2, "wrong">>})
Symmetric == Permutations({p1, p2})
===============================================================================
