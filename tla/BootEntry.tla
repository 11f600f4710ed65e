------------------------------ MODULE BootEntry ------------------------------
(***************************************************************************)
(* The two readers of the load option that has started the machine          *)
(* (src/src/efi.rs): both walk the device path of the Boot#### variable     *)
(* that BootCurrent names, node by node, to its hard drive node.            *)
(*                                                                          *)
(* An entry is [vars, shape, size, nodes]: whether both variables can be    *)
(* read, what is wrong with the payload before the device path, and the     *)
(* length of the path in bytes, with its nodes in order.  A node has a      *)
(* length as it is written there; of a hard drive node (hd), the partition  *)
(* number, the GUID, the format and the type of the signature matter.       *)
(***************************************************************************)
EXTENDS Integers, Sequences

CONSTANT None

HeaderSize == 4
NumberEnd == 8             \* the last byte of the partition number
HardDriveSize == 42        \* a complete hard drive node

(* The payload leads to a device path; otherwise there is None, or an error *)
(* that cmd_boot treats as None.                                            *)
Readable(e) == e.vars = "ok" /\ e.shape = "ok"

(* The offset of each node, as long as the lengths before it are sound.     *)
Starts(e) ==
    LET at[k \in 1..Len(e.nodes)] == IF k = 1 THEN 0 ELSE at[k - 1] + e.nodes[k - 1].len
    IN at

(* mutation: a node that ends with the list is taken for one that overruns *)
InListShort(e, k) ==
    /\ e.nodes[k].len >= HeaderSize
    /\ Starts(e)[k] + e.nodes[k].len < e.size

(* The loop goes past a node, or stops there.                               *)
InList(e, k) ==
    /\ Starts(e)[k] + HeaderSize <= e.size
    /\ e.nodes[k].len >= HeaderSize
    /\ Starts(e)[k] + e.nodes[k].len <= e.size

(* The first hard drive node with that many bytes, if the walk gets there.  *)
HardDrive(e, least) ==
    LET drives == {k \in DOMAIN e.nodes :
                      /\ e.nodes[k].hd = "yes" /\ e.nodes[k].len >= least
                      /\ \A j \in 1..k : InList(e, j)}
    IN {k \in drives : Readable(e) /\ \A j \in drives : k <= j}

(* extract_boot_partition_id skips nodes that are too short.                *)
PartitionId(e) == {e.nodes[k].number : k \in HardDrive(e, HardDriveSize)}

(* extract_boot_device_info takes the first node, however short; the number *)
(* of one that ends before it is made of the bytes of the next node, and is *)
(* the number of no partition (0).                                          *)
NoInfo == [known |-> "no", number |-> 0, guid |-> None]

DeviceInfo(e, k) ==
    LET n == e.nodes[k] IN
    [known  |-> "yes",
     number |-> IF n.len >= NumberEnd THEN n.number ELSE 0,
     guid   |-> IF n.len >= HardDriveSize /\ n.format = 2 /\ n.sigtype = 2
                THEN n.guid ELSE None]

(* The number is read beyond the end of the list.                           *)
Panics(e, k) == Starts(e)[k] + NumberEnd > e.size

(* A load option as UEFI describes it: the nodes fill the device path, and  *)
(* one of them is a hard drive node, complete.                              *)
WellFormed(e) ==
    /\ Readable(e)
    /\ \A k \in DOMAIN e.nodes : e.nodes[k].len >= HeaderSize
    /\ e.nodes # <<>> /\ e.size = Starts(e)[Len(e.nodes)] + e.nodes[Len(e.nodes)].len
    /\ \E k \in DOMAIN e.nodes : e.nodes[k].hd = "yes" /\ e.nodes[k].len = HardDriveSize
    /\ \A k, j \in DOMAIN e.nodes : e.nodes[k].hd = "yes" /\ e.nodes[j].hd = "yes" => k = j
=============================================================================
