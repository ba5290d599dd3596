---------------------------- MODULE RingBuffer ----------------------------
(***************************************************************************)
(* What an endless DMA promises (documentation/design.tex:79-110): the     *)
(* host buffer is a circular queue.  One side fills slots in order, the    *)
(* other empties them in order, nothing is overwritten, skipped or read    *)
(* twice, and a stop of the descriptor empties the queue.                  *)
(***************************************************************************)
EXTENDS Naturals

CONSTANT Size

VARIABLES
  head,   \* the slot that will be emptied next
  tail,   \* the slot that will be filled next
  count   \* how many slots are full

vars == <<head, tail, count>>

Init == head = 0 /\ tail = 0 /\ count = 0

Fill(n) ==
  /\ count + n <= Size
  /\ tail' = (tail + n) % Size /\ count' = count + n
  /\ UNCHANGED head

Empty(n) ==
  /\ n <= count
  /\ head' = (head + n) % Size /\ count' = count - n
  /\ UNCHANGED tail

Reset == head' = 0 /\ tail' = 0 /\ count' = 0

Next == Reset \/ \E n \in 1 .. Size : Fill(n) \/ Empty(n)

Spec == Init /\ [][Next]_vars

=============================================================================
