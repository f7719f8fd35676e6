-------------------------------- MODULE Fifo --------------------------------
(***************************************************************************)
(* What the serial ring buffer promises: a bounded queue of bytes.  A      *)
(* writer appends some, a reader takes some from the front.                *)
(***************************************************************************)
EXTENDS Naturals, Sequences

CONSTANTS Byte, Capacity

VARIABLES queue, taken

FifoInit == queue = <<>> /\ taken = <<>>

Put ==
  \E n \in 1 .. Capacity - Len(queue) : \E s \in [1 .. n -> Byte] :
    queue' = queue \o s /\ UNCHANGED taken

Get ==
  \E n \in 1 .. Len(queue) :
    /\ taken' = SubSeq(queue, 1, n)
    /\ queue' = SubSeq(queue, n + 1, Len(queue))

FifoSpec == FifoInit /\ [][Put \/ Get]_<<queue, taken>>
=============================================================================
