---------------------------- MODULE AbSplit_proofs ----------------------------
(***************************************************************************)
(* The split and the chunking for every length of the receiver list.       *)
(***************************************************************************)
EXTENDS AbSplit, TLAPS

(***************************************************************************)
(* testReceiverNumber is an even number, at least half of the list and at  *)
(* most half of it and three halves of a receiver more.                    *)
(***************************************************************************)
LEMMA TestReceiverNumberBounds ==
    ASSUME NEW n \in Nat
    PROVE  /\ TestReceiverNumber(n) \in Nat
           /\ TestReceiverNumber(n) % 2 = 0
           /\ n <= 2 * TestReceiverNumber(n)
           /\ 2 * TestReceiverNumber(n) <= n + 3
  BY DEF TestReceiverNumber, HalfUp

(***************************************************************************)
(* The three slices of an A/B send are a partition of its receivers,       *)
(* whatever their number: nobody gets two variants, nobody is left out.    *)
(***************************************************************************)
THEOREM SplitPartitions ==
    ASSUME NEW n \in Nat
    PROVE  /\ ATestReceiver(n) \cup BTestReceiver(n) \cup RemainReceiver(n) = 1..n
           /\ ATestReceiver(n) \cap BTestReceiver(n) = {}
           /\ (ATestReceiver(n) \cup BTestReceiver(n)) \cap RemainReceiver(n) = {}
<1> DEFINE t == TestReceiverNumber(n)
<1>1. t \in Nat /\ t \div 2 \in Nat /\ t \div 2 <= t
  BY TestReceiverNumberBounds
<1>2. ATestReceiver(n) = {i \in 1..n : i <= t \div 2}
  BY <1>1 DEF ATestReceiver, Slice
<1>3. BTestReceiver(n) = {i \in 1..n : t \div 2 < i /\ i <= t}
  BY <1>1 DEF BTestReceiver, Slice
<1>4. RemainReceiver(n) = {i \in 1..n : t < i}
  BY <1>1 DEF RemainReceiver, Slice
<1> HIDE DEF t
<1>5. QED
  BY <1>1, <1>2, <1>3, <1>4

(***************************************************************************)
(* The lengths the billing multiplies by the price add up to the length    *)
(* of the list; the test groups are equal from two receivers on, and the   *)
(* remainder is empty exactly for lists of at most two.                    *)
(***************************************************************************)
THEOREM CountsAddUp ==
    ASSUME NEW n \in Nat
    PROVE  /\ ACount(n) \in Nat /\ BCount(n) \in Nat /\ RemainCount(n) \in Nat
           /\ ACount(n) + BCount(n) + RemainCount(n) = n
           /\ n >= 2 => ACount(n) = BCount(n) /\ ACount(n) > 0
           /\ RemainCount(n) = 0 <=> n <= 2
<1> DEFINE t == TestReceiverNumber(n)
<1>1. t \in Nat /\ t % 2 = 0 /\ n <= 2 * t /\ 2 * t <= n + 3
  BY TestReceiverNumberBounds
<1>2. /\ ACount(n) = SliceLength(n, 0, t \div 2)
      /\ BCount(n) = SliceLength(n, t \div 2, t)
      /\ RemainCount(n) = SliceLength(n, t, n)
  BY DEF ACount, BCount, RemainCount
<1> HIDE DEF t
<1>3. PICK k \in Nat : t = 2 * k /\ t \div 2 = k
  BY <1>1
<1>4. QED
  BY <1>1, <1>2, <1>3 DEF SliceLength

\* A quotient is the one number whose multiples enclose the dividend.
LEMMA Enclosed ==
    ASSUME NEW a \in Nat, NEW c \in Nat \ {0}
    PROVE  /\ a \div c \in Nat
           /\ (a \div c) * c <= a /\ a < (a \div c + 1) * c
           /\ \A i \in Nat : i * c <= a /\ a < (i + 1) * c => i = a \div c
<1> DEFINE q == a \div c
           r == a % c
<1>1. q \in Int /\ r \in Int /\ 0 <= r /\ r < c /\ a = c * q + r
  OBVIOUS
<1> HIDE DEF q, r
<1>2. q >= 0
  <2> SUFFICES ASSUME q <= -1 PROVE FALSE
    BY <1>1
  <2>1. c * q <= c * (-1)
    BY <1>1
  <2>2. QED
    BY <1>1, <2>1
<1>3. q * c <= a /\ a < (q + 1) * c
  BY <1>1
<1>4. ASSUME NEW i \in Nat, i * c <= a, a < (i + 1) * c PROVE i = q
  <2>1. ASSUME i < q PROVE FALSE
    <3>1. (i + 1) * c <= q * c
      BY <1>1, <2>1
    <3>2. QED
      BY <1>1, <1>3, <1>4, <3>1
  <2>2. ASSUME q < i PROVE FALSE
    <3>1. (q + 1) * c <= i * c
      BY <1>1, <2>2
    <3>2. QED
      BY <1>1, <1>3, <1>4, <3>1
  <2>3. QED
    BY <1>1, <2>1, <2>2
<1>5. QED
  BY <1>1, <1>2, <1>3, <1>4 DEF q

(***************************************************************************)
(* The chunk loop hands receiver k to NCP in pass (k - 1) \div chunk and   *)
(* in no other, whatever the size of a chunk; and every pass has somebody. *)
(***************************************************************************)
THEOREM ChunkOfReceiver ==
    ASSUME NEW n \in Nat, NEW chunk \in Nat \ {0}
    PROVE  /\ \A k \in 1..n :
                 /\ \A i \in Nat : k \in Chunk(n, chunk, i) <=> i = (k - 1) \div chunk
                 /\ (k - 1) \div chunk \in 0..(ChunkCount(n, chunk) - 1)
           /\ \A i \in 0..(ChunkCount(n, chunk) - 1) : Chunk(n, chunk, i) # {}
<1> DEFINE count == ChunkCount(n, chunk)
<1>1. count \in Nat /\ count * chunk <= n + chunk - 1 /\ n + chunk - 1 < (count + 1) * chunk
  BY Enclosed, n + chunk - 1 \in Nat DEF ChunkCount
<1> HIDE DEF count
<1>2. ASSUME NEW k \in 1..n
      PROVE  /\ \A i \in Nat : k \in Chunk(n, chunk, i) <=> i = (k - 1) \div chunk
             /\ (k - 1) \div chunk \in 0..(count - 1)
  <2> DEFINE q == (k - 1) \div chunk
  <2>1. /\ q \in Nat /\ q * chunk <= k - 1 /\ k - 1 < (q + 1) * chunk
        /\ \A i \in Nat : i * chunk <= k - 1 /\ k - 1 < (i + 1) * chunk => i = q
    BY Enclosed, k - 1 \in Nat
  <2> HIDE DEF q
  <2>2. ASSUME NEW i \in Nat PROVE k \in Chunk(n, chunk, i) <=> i = q
    <3>1. i * chunk \in Nat /\ (i + 1) * chunk \in Nat
      OBVIOUS
    <3>2. k \in Chunk(n, chunk, i) <=> i * chunk < k /\ k <= (i + 1) * chunk
      BY DEF Chunk, Slice
    <3>3. k \in Chunk(n, chunk, i) <=> i * chunk <= k - 1 /\ k - 1 < (i + 1) * chunk
      BY <3>1, <3>2
    <3>4. QED
      BY <2>1, <3>3
  <2>3. q < count
    <3> SUFFICES ASSUME count <= q PROVE FALSE
      BY <1>1, <2>1
    <3>1. count * chunk <= q * chunk
      BY <1>1, <2>1
    <3>2. (count + 1) * chunk = count * chunk + chunk
      BY <1>1
    <3>3. q * chunk \in Nat /\ count * chunk \in Nat
      BY <1>1, <2>1
    <3>4. QED
      BY <1>1, <2>1, <3>1, <3>2, <3>3
  <2>4. QED
    BY <1>1, <2>1, <2>2, <2>3 DEF q
<1>3. ASSUME NEW i \in 0..(count - 1) PROVE Chunk(n, chunk, i) # {}
  <2>1. (i + 1) * chunk <= count * chunk /\ (i + 1) * chunk = i * chunk + chunk
        /\ i * chunk \in Nat
    BY <1>1
  <2>2. i * chunk + 1 \in 1..n
    <3>1. count * chunk \in Int
      BY <1>1
    <3>2. QED
      BY <1>1, <2>1, <3>1
  <2>3. i * chunk + 1 \in Chunk(n, chunk, i)
    BY <2>1, <2>2 DEF Chunk, Slice
  <2>4. QED
    BY <2>3
<1>4. QED
  BY <1>2, <1>3 DEF count
=============================================================================
