------------------------------ MODULE MCAbSplit ------------------------------
(***************************************************************************)
(* Walks the length of a receiver list through 0 .. MaxReceivers and       *)
(* evaluates the split and the chunking at each.                           *)
(***************************************************************************)
EXTENDS AbSplit, FiniteSets

CONSTANTS
    MaxReceivers,   \* bound: the length of the list
    ChunkSizes      \* the sizes of the chunks to try

ASSUME SizesAssumption == MaxReceivers \in Nat /\ ChunkSizes \subseteq Nat \ {0}

VARIABLE size

Init == size = 0
Next == size' = (size + 1) % (MaxReceivers + 1)
Spec == Init /\ [][Next]_size

(***************************************************************************)
(* The three slices sendAbTestMessage takes are a partition of the         *)
(* receivers: nobody is in two of them, so nobody gets two variants, and   *)
(* nobody is left out of all three although everybody is paid for.  The    *)
(* lengths the billing uses are the sizes of these slices.                 *)
(***************************************************************************)
SplitIsPartition ==
    /\ ATestReceiver(size) \cup BTestReceiver(size) \cup RemainReceiver(size) = 1..size
    /\ ATestReceiver(size) \cap BTestReceiver(size) = {}
    /\ (ATestReceiver(size) \cup BTestReceiver(size)) \cap RemainReceiver(size) = {}
    /\ Cardinality(ATestReceiver(size)) = ACount(size)
    /\ Cardinality(BTestReceiver(size)) = BCount(size)
    /\ Cardinality(RemainReceiver(size)) = RemainCount(size)

(***************************************************************************)
(* The comparison of clicks is fair and the winner has somebody to go to:  *)
(* from two receivers on both test groups have the same size, and from     *)
(* three on the remainder is not empty.                                    *)
(***************************************************************************)
TestIsFair ==
    /\ size >= 2 => ACount(size) = BCount(size)
    /\ size >= 3 => ACount(size) > 0 /\ RemainCount(size) > 0

(***************************************************************************)
(* The chunk loop hands every receiver to NCP in exactly one chunk, and no *)
(* chunk is empty (NCP refuses a request without receivers).               *)
(***************************************************************************)
ChunksCoverOnce ==
    \A c \in ChunkSizes :
        LET passes == 0..(ChunkCount(size, c) - 1) IN
        /\ \A i \in passes : Chunk(size, c, i) # {}
        /\ \A k \in 1..size : Cardinality({i \in passes : k \in Chunk(size, c, i)}) = 1
=============================================================================
