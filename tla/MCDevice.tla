------------------------------- MODULE MCDevice -------------------------------
(* A boot disk with the partitions 1 and 101, and a second disk that has    *)
(* the partition number 101 as well.                                        *)
EXTENDS DataDevice, SequencesExt

CONSTANTS a1, a101, b101, A, B

DiskDef == (a1 :> A) @@ (a101 :> A) @@ (b101 :> B)
NumberDef == (a1 :> 1) @@ (a101 :> 101) @@ (b101 :> 101)

Node(len) == [hd |-> "no", len |-> len]
HardDriveNode(len, scheme) ==
    [hd |-> "yes", len |-> len, number |-> 101, guid |-> a101, format |-> scheme, sigtype |-> scheme]

(* A controller and a node without a length; a hard drive node for GPT, for *)
(* MBR, cut off after the number and before it.                             *)
Nodes == {Node(6), Node(0), HardDriveNode(42, 2), HardDriveNode(42, 1),
          HardDriveNode(30, 2), HardDriveNode(6, 2)}

Size(nodes) == FoldLeft(LAMBDA sum, n : sum + n.len, 0, nodes)

(* At most two nodes, with a controller before them or not.                 *)
Paths == LET short == SeqOf(Nodes, 2) IN short \cup {<<Node(6)>> \o nodes : nodes \in short}

(* The path is in a list that holds it, or that is too short.               *)
EntriesDef ==
    {[vars |-> "ok", shape |-> "ok", size |-> size, nodes |-> nodes] :
        <<nodes, size>> \in UNION {{path} \X {Size(path), Size(path) - 4} : path \in Paths}}
    \cup {[vars |-> v, shape |-> s, size |-> 42, nodes |-> <<HardDriveNode(42, 2)>>] :
              v \in {"ok", "unreadable"}, s \in {"ok", "short", "unterminated", "overrun"}}
===============================================================================
