----------------------------- MODULE RingBuffer -----------------------------
(***************************************************************************)
(* The ring buffer of the serial port, Lib/ring_buffer.c, between the      *)
(* interrupt handler that fills it and the task that empties it,           *)
(* System/nl6621_uart.c.                                                   *)
(*                                                                         *)
(* The handler runs to its end whenever it interrupts.  The task and the   *)
(* timer callback can be interrupted between any two accesses to tail,     *)
(* which is not volatile: where the source reads it twice the second read  *)
(* may be a load of its own or reuse the first.                            *)
(***************************************************************************)
EXTENDS Integers, Sequences

CONSTANTS
  Byte,       \* the bytes that arrive
  RingSize,   \* UART_RECV_BUF_SIZE
  WordSize,   \* 2^16: recv_size is an unsigned short
  MaxPosts    \* bound: value recv_sem is counted up to

ASSUME RingAssumption ==
  /\ RingSize \in Nat \ {0, 1}
  /\ WordSize \in Nat /\ WordSize > RingSize
  /\ MaxPosts \in Nat \ {0}

Indices == 0 .. RingSize - 1

VARIABLES
  head, tail, buffer,
  recv_sem,    \* value of the semaphore
  uartTask,    \* where UartTaskThread is
  seen,        \* tail as first read by the function it is in
  remaining,   \* recv_size, then the bytes ring_buf_read has still to get
  piece,       \* the bytes of one memcpy()
  taken,       \* history: the bytes last taken out
  recvTimer    \* what uart_recv_timer_handle has read: NoTail, or tail
NoTail == -1

ringVars == <<head, tail, buffer>>
taskVars == <<uartTask, seen, remaining, piece, taken>>
uartVars == <<ringVars, recv_sem, taskVars, recvTimer>>

RingTypeOK ==
  /\ head \in Indices /\ tail \in Indices
  /\ buffer \in [Indices -> Byte]
  /\ recv_sem \in 0 .. MaxPosts
  /\ uartTask \in {"pend", "cnt", "sub", "end", "end2", "copied"}
  /\ seen \in Indices
  /\ remaining \in 0 .. WordSize - 1
  /\ piece \in Seq(Byte) /\ Len(piece) < RingSize
  /\ taken \in Seq(Byte) /\ Len(taken) < RingSize
  /\ recvTimer \in Indices \cup {NoTail}

(* uart_init: the buffer is allocated but not cleared.                     *)
RingInit ==
  /\ head = 0 /\ tail = 0
  /\ buffer \in [Indices -> Byte]
  /\ recv_sem = 0
  /\ uartTask = "pend" /\ seen = 0 /\ remaining = 0
  /\ piece = <<>> /\ taken = <<>>
  /\ recvTimer = NoTail

-----------------------------------------------------------------------------
(* ring_buffer.c                                                           *)

ring_buf_fullNoWrap == tail + 1 = head   \* variant: the index is not reduced
ring_buf_full == (tail + 1) % RingSize = head

(* The count, with tail read as t1 by the comparison and as t2 after it.   *)
ring_buf_cnt(t1, t2) == IF t1 >= head THEN t2 - head ELSE RingSize + t2 - head

ring_buf_cnt_to_end(t1, t2) == IF t1 >= head THEN t2 - head ELSE RingSize - head

ring_buf_space_to_end(h, t) ==
  IF h > t THEN h - t - 1 ELSE RingSize - 1 - t + (IF h > 0 THEN 1 ELSE 0)

(* Variant: the index is reduced one byte late.                            *)
WrappedLate(i) == IF i > RingSize THEN i - RingSize ELSE i

Wrapped(i) == IF i >= RingSize THEN i - RingSize ELSE i

Least(a, b) == IF a < b THEN a ELSE b

(* One round of the loop of ring_buf_write on a buffer b, its tail t and   *)
(* the data s still to be written.                                         *)
WriteRound(st) ==
  LET c == Least(Len(st.s), ring_buf_space_to_end(head, st.t))
  IN  IF c <= 0 THEN st
      ELSE [b |-> [i \in Indices |-> IF i \in st.t .. st.t + c - 1
                                     THEN st.s[i - st.t + 1] ELSE st.b[i]],
            t |-> Wrapped(st.t + c),
            s |-> SubSeq(st.s, c + 1, Len(st.s))]

(* A third round never finds both data and space.                          *)
ring_buf_write(s) ==
  LET st == WriteRound(WriteRound([b |-> buffer, t |-> tail, s |-> s]))
  IN  buffer' = st.b /\ tail' = st.t

ring_buf_write_char(x) ==
  IF ring_buf_full THEN UNCHANGED <<buffer, tail>>
  ELSE buffer' = [buffer EXCEPT ![tail] = x] /\ tail' = Wrapped(tail + 1)

-----------------------------------------------------------------------------
(* The interrupt handler and the timer callback.                           *)

Posted == Least(recv_sem + 1, MaxPosts)

uart_data_recv ==
  /\ \E x \in Byte : ring_buf_write_char(x)
  /\ recv_sem' = IF ring_buf_cnt(tail', tail') >= RingSize \div 2
                 THEN Posted ELSE recv_sem
  /\ UNCHANGED <<head, taskVars, recvTimer>>

(* Nothing in the repository calls ring_buf_write; a driver that receives  *)
(* several bytes at once would.                                            *)
BlockReceived ==
  /\ \E s \in [1 .. 2 -> Byte] : ring_buf_write(s)
  /\ UNCHANGED <<head, recv_sem, taskVars, recvTimer>>

(* The callback runs in the timer task, above UartTaskThread: head does    *)
(* not change under it.                                                    *)
TimerReads ==
  /\ recvTimer = NoTail
  /\ recvTimer' = tail
  /\ UNCHANGED <<ringVars, recv_sem, taskVars>>

TimerPosts ==
  /\ recvTimer # NoTail
  /\ \E t \in {recvTimer, tail} :
       recv_sem' = IF ring_buf_cnt(recvTimer, t) > 0 THEN Posted ELSE recv_sem
  /\ recvTimer' = NoTail
  /\ UNCHANGED <<ringVars, taskVars>>

-----------------------------------------------------------------------------
(* UartTaskThread                                                          *)

TaskAt(l) == uartTask = l /\ recvTimer = NoTail

PendRecv ==
  /\ TaskAt("pend") /\ recv_sem > 0
  /\ recv_sem' = recv_sem - 1
  /\ uartTask' = "cnt"
  /\ UNCHANGED <<ringVars, seen, remaining, piece, taken, recvTimer>>

(* The first read of tail in ring_buf_cnt and ring_buf_cnt_to_end.         *)
FirstRead ==
  /\ TaskAt("cnt") \/ TaskAt("end")
  /\ seen' = tail
  /\ uartTask' = IF uartTask = "cnt" THEN "sub" ELSE "end2"
  /\ UNCHANGED <<ringVars, recv_sem, remaining, piece, taken, recvTimer>>

CountBytes ==
  /\ TaskAt("sub")
  /\ \E t \in {seen, tail} : remaining' = ring_buf_cnt(seen, t) % WordSize
  /\ uartTask' = IF remaining' > 0 THEN "end" ELSE "pend"
  /\ UNCHANGED <<ringVars, recv_sem, seen, piece, taken, recvTimer>>

(* The rest of a round of ring_buf_read up to its memcpy().                *)
CopyPiece ==
  /\ TaskAt("end2")
  /\ \E t \in {seen, tail} :
       LET c == Least(remaining, ring_buf_cnt_to_end(seen, t))
       IN  IF c <= 0
           THEN uartTask' = "pend" /\ remaining' = 0 /\ UNCHANGED piece
           ELSE /\ piece' = [k \in 1 .. c |-> buffer[head + k - 1]]
                /\ uartTask' = "copied" /\ UNCHANGED remaining
  /\ UNCHANGED <<ringVars, recv_sem, seen, taken, recvTimer>>

(* head += c and its reduction are one step: between them the counts are   *)
(* the same, and more than one byte would have to arrive within a few      *)
(* instructions for the handler to see the buffer as not full.             *)
AdvanceHead ==
  /\ TaskAt("copied")
  /\ head' = Wrapped(head + Len(piece))
  /\ remaining' = remaining - Len(piece)
  /\ taken' = piece
  /\ uartTask' = "end"
  /\ UNCHANGED <<tail, buffer, recv_sem, seen, piece, recvTimer>>

UartTask == PendRecv \/ FirstRead \/ CountBytes \/ CopyPiece \/ AdvanceHead
UartTimer == TimerReads \/ TimerPosts

RingNext == uart_data_recv \/ BlockReceived \/ UartTimer \/ UartTask

RingSpec == RingInit /\ [][RingNext]_uartVars
RingFairness == SF_uartVars(UartTask) /\ WF_uartVars(UartTimer)

-----------------------------------------------------------------------------
(* Properties.                                                             *)

Stored == [k \in 1 .. ring_buf_cnt(tail, tail) |-> buffer[(head + k - 1) % RingSize]]

RingFifo == INSTANCE Fifo WITH queue <- Stored, Capacity <- RingSize - 1

(* However the handler interrupts the task, the buffer is a queue: the     *)
(* bytes taken out are the oldest of those put in, in order, none twice.   *)
ImplementsFifo == RingFifo!FifoSpec

(* Bytes in the buffer are fetched in the end, also when they are too few  *)
(* to make the handler post: the timer sees to it.                         *)
RingDrained == head # tail ~> uartTask = "copied"
=============================================================================
