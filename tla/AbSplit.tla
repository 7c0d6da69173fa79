------------------------------- MODULE AbSplit -------------------------------
(***************************************************************************)
(* How a send divides its receiver list.  An A/B test takes two test       *)
(* groups from the front of the list and leaves the remainder for the      *)
(* winner (MessagesService.sendAbTestMessage and, line for line the same,  *)
(* BizmessageService.sendAbTestBizmessage); every list is then handed to   *)
(* NCP in chunks of a fixed size.  Receivers are positions 1..n.           *)
(***************************************************************************)
EXTENDS Integers

\* Variant: a slice that includes the element at its end index.
SliceInclusive(n, from, to) == {i \in 1..n : from < i /\ i <= to + 1}

\* receiverList.slice(from, to) of a list of n receivers.
Slice(n, from, to) == {i \in 1..n : from < i /\ i <= to}

\* Its length.
SliceLength(n, from, to) ==
    LET end == IF to < n THEN to ELSE n
    IN  IF from < end THEN end - from ELSE 0

\* Math.ceil(n / 2)
HalfUp(n) == (n + 1) \div 2

\* Variant: without rounding up to an even number.
TestReceiverNumberHalf(n) == HalfUp(n)

\* testReceiverNumber: half of the list, rounded up to an even number.
TestReceiverNumber(n) ==
    IF HalfUp(n) % 2 = 1 THEN HalfUp(n) + 1 ELSE HalfUp(n)

ATestReceiver(n) == Slice(n, 0, TestReceiverNumber(n) \div 2)
BTestReceiver(n) == Slice(n, TestReceiverNumber(n) \div 2, TestReceiverNumber(n))
RemainReceiver(n) == Slice(n, TestReceiverNumber(n), n)

ACount(n) == SliceLength(n, 0, TestReceiverNumber(n) \div 2)
BCount(n) == SliceLength(n, TestReceiverNumber(n) \div 2, TestReceiverNumber(n))
RemainCount(n) == SliceLength(n, TestReceiverNumber(n), n)

\* Variant: Math.floor.
ChunkCountFloor(n, chunk) == n \div chunk

\* receiverCount: how many chunks of the given size a list of n needs.
ChunkCount(n, chunk) == (n + chunk - 1) \div chunk

\* receiverListForSend of pass i of the loop, i = 0 .. ChunkCount - 1.
Chunk(n, chunk, i) == Slice(n, i * chunk, (i + 1) * chunk)
=============================================================================
