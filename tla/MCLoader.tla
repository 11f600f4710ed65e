------------------------------- MODULE MCLoader -------------------------------
(* A db of at most two signature lists of every shape; each artifact is     *)
(* signed by one of two keys, in another version, or not; at most one       *)
(* artifact is missing, and one of the header and the size is wrong.  On a  *)
(* machine whose artifacts are all signed by the first key, two programs    *)
(* verify an image; elsewhere there is none.  The second of them may have a *)
(* key of its own.                                                          *)
EXTENDS ImageVerify, FiniteSets

CONSTANTS k1, k2, p1, p2

X509(size, with) == [type |-> "x509", size |-> size, certs |-> with]
Rsa(k) == [key |-> k, alg |-> "rsa"]
Ec(k) == [key |-> k, alg |-> "ec"]

ListsDef ==
    {X509("fits", {Rsa(k1)}), X509("fits", {Ec(k1), Rsa(k2)}), X509("zero", {}),
     X509("bad", {}), X509("overrun", {Rsa(k2)})}
    \cup [type : {"sha256"}, size : {"fits", "zero", "overrun"}, certs : {{}}]

Signer(k, what) == [j \in Keys |-> IF j = k THEN what ELSE None]

Canonical ==
    /\ secureBoot = 1 /\ header = "valid" /\ dbSize = "fits"
    /\ \A a \in Artifacts : file[a] # None /\ signature[a] = Signer(k1, "released")

MCInit ==
    /\ signature \in [Artifacts -> {Signer(k1, "released"), Signer(k2, "released"),
                                    Signer(k1, "older"), Signer(k1, None)}]
    /\ file \in [Artifacts -> {"released", None}]
    /\ Cardinality({a \in Artifacts : file[a] = None}) <= 1
    /\ db \in Dbs \cup {None}
    /\ secureBoot \in {0, 1, None}
    /\ secureBoot # 1 => db = None
    /\ header \in {"valid", "invalid"}
    /\ dbSize \in IF header = "valid" THEN {"fits", "large"} ELSE {"fits"}
    /\ content \in Contents \cup {None}
    /\ \/ Canonical
       \/ ~ Canonical /\ content = None /\ imageSig = Signer(k1, None) /\ supported = "no"
    /\ \/ pubKey = [p \in Verifiers |-> None] /\ plainSig = None
       \/ /\ Canonical /\ imageSig \in {Signer(k1, "released"), Signer(k2, "released")}
          /\ \E key \in {"valid", "malformed"} :
                pubKey = [p \in Verifiers |-> IF p = p2 THEN key ELSE None]
    /\ ImageInit

MCSpec == MCInit /\ [][ImageNext]_all /\ WF_vars(Next)
=============================================================================
