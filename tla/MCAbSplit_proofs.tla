--------------------------- MODULE MCAbSplit_proofs ---------------------------
(***************************************************************************)
(* The walk of MCAbSplit with any bound on the length of the list and any  *)
(* chunk sizes: its three invariants, from what AbSplit_proofs shows of    *)
(* one list.                                                               *)
(***************************************************************************)
EXTENDS MCAbSplit, AbSplit_proofs, FiniteSetTheorems

LEMMA WalkTypes == Spec => [](size \in Nat)
<1>1. Init => size \in Nat
  BY DEF Init
<1>2. size \in Nat /\ [Next]_size => (size \in Nat)'
  <2> SUFFICES ASSUME size \in Nat, Next PROVE size' \in Nat
    OBVIOUS
  <2>1. size + 1 \in Nat /\ MaxReceivers + 1 \in Nat \ {0}
    BY SizesAssumption
  <2> DEFINE a == size + 1
             b == MaxReceivers + 1
  <2> HIDE DEF a, b
  <2>2. a % b \in Nat
    BY <2>1 DEF a, b
  <2>3. QED
    BY <2>2 DEF Next, a, b
<1>3. QED
  BY <1>1, <1>2, PTL DEF Spec

\* The length of a slice is the number of its receivers.
LEMMA SliceHas ==
    ASSUME NEW n \in Nat, NEW from \in Nat, NEW to \in Nat
    PROVE  Cardinality(Slice(n, from, to)) = SliceLength(n, from, to)
<1> DEFINE end == IF to < n THEN to ELSE n
           low == from + 1
<1>1. end \in Nat /\ low \in Nat
  OBVIOUS
<1>2. Slice(n, from, to) = low..end
  BY DEF Slice
<1>3. SliceLength(n, from, to) = IF low > end THEN 0 ELSE end - low + 1
  BY DEF SliceLength
<1> HIDE DEF end, low
<1>4. Cardinality(low..end) = IF low > end THEN 0 ELSE end - low + 1
  BY <1>1, FS_Interval
<1>5. QED
  BY <1>2, <1>3, <1>4

(***************************************************************************)
(* The three slices of an A/B send are a partition of its receivers, and   *)
(* the billing uses their sizes, for lists of any length.                  *)
(***************************************************************************)
THEOREM SplitsPartition == Spec => []SplitIsPartition
<1>1. size \in Nat => SplitIsPartition
  <2> SUFFICES ASSUME size \in Nat PROVE SplitIsPartition
    OBVIOUS
  <2> DEFINE t == TestReceiverNumber(size)
  <2>1. t \in Nat /\ t \div 2 \in Nat
    BY TestReceiverNumberBounds
  <2> HIDE DEF t
  <2>2. /\ Cardinality(Slice(size, 0, t \div 2)) = SliceLength(size, 0, t \div 2)
        /\ Cardinality(Slice(size, t \div 2, t)) = SliceLength(size, t \div 2, t)
        /\ Cardinality(Slice(size, t, size)) = SliceLength(size, t, size)
    BY <2>1, SliceHas
  <2>3. /\ Cardinality(ATestReceiver(size)) = ACount(size)
        /\ Cardinality(BTestReceiver(size)) = BCount(size)
        /\ Cardinality(RemainReceiver(size)) = RemainCount(size)
    BY <2>2 DEF t, ATestReceiver, BTestReceiver, RemainReceiver, ACount, BCount, RemainCount
  <2>4. QED
    BY <2>3, SplitPartitions DEF SplitIsPartition
<1>2. QED
  BY <1>1, WalkTypes, PTL

(***************************************************************************)
(* Both test groups have the same size, and from three receivers on there  *)
(* is a remainder to send the winner to.                                   *)
(***************************************************************************)
THEOREM TestsAreFair == Spec => []TestIsFair
<1>1. size \in Nat => TestIsFair
  BY CountsAddUp DEF TestIsFair
<1>2. QED
  BY <1>1, WalkTypes, PTL

(***************************************************************************)
(* Every receiver is in exactly one of the chunks handed to NCP, and no    *)
(* chunk is empty, for lists of any length and chunks of any size.         *)
(***************************************************************************)
THEOREM ChunksCover == Spec => []ChunksCoverOnce
<1>1. size \in Nat => ChunksCoverOnce
  <2> SUFFICES ASSUME size \in Nat, NEW c \in ChunkSizes
               PROVE  LET passes == 0..(ChunkCount(size, c) - 1) IN
                      /\ \A i \in passes : Chunk(size, c, i) # {}
                      /\ \A k \in 1..size : Cardinality({i \in passes : k \in Chunk(size, c, i)}) = 1
    BY DEF ChunksCoverOnce
  <2> DEFINE passes == 0..(ChunkCount(size, c) - 1)
  <2>1. c \in Nat \ {0}
    BY SizesAssumption
  <2>2. /\ \A i \in passes : Chunk(size, c, i) # {}
        /\ \A k \in 1..size :
              /\ \A i \in Nat : k \in Chunk(size, c, i) <=> i = (k - 1) \div c
              /\ (k - 1) \div c \in passes
    BY <2>1, ChunkOfReceiver
  <2>3. passes \subseteq Nat
    OBVIOUS
  <2> HIDE DEF passes
  <2>4. ASSUME NEW k \in 1..size
        PROVE  Cardinality({i \in passes : k \in Chunk(size, c, i)}) = 1
    <3> DEFINE q == (k - 1) \div c
    <3>1. q \in passes /\ \A i \in passes : k \in Chunk(size, c, i) <=> i = q
      BY <2>2, <2>3
    <3> HIDE DEF q
    <3>2. {i \in passes : k \in Chunk(size, c, i)} = {q}
      BY <3>1
    <3>3. QED
      BY <3>2, FS_Singleton
  <2>5. QED
    BY <2>2, <2>4 DEF passes
<1>2. QED
  BY <1>1, WalkTypes, PTL
=============================================================================
