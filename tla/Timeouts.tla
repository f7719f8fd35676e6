------------------------------ MODULE Timeouts ------------------------------
(***************************************************************************)
(* What LwIP's list of timeouts promises: each timeout has its own time to *)
(* go, all times run together, and the first to be due goes off first;     *)
(* those due together go off in the order in which they were set.          *)
(***************************************************************************)
EXTENDS Integers, SequencesExt

CONSTANTS
  Handler,   \* the functions a timeout may call
  MaxTime    \* the longest time one is set for

VARIABLE pending   \* the timeouts with the time each has to go, the next due first

Timeout == [h : Handler, left : 0 .. MaxTime]

TimeoutsInit == pending \in Seq(Timeout)

(* One is set: those due no later stay before it.                          *)
Start ==
  \E i \in DOMAIN pending' :
    /\ pending = RemoveAt(pending', i)
    /\ \A j \in DOMAIN pending : pending[j].left <= pending'[i].left <=> j < i

(* The first one that calls h is cancelled.                                *)
Stop ==
  \E i \in DOMAIN pending :
    /\ \A j \in 1 .. i - 1 : pending[j].h # pending[i].h
    /\ pending' = RemoveAt(pending, i)

Passed(s, ms) == [i \in DOMAIN s |-> [s[i] EXCEPT !.left = @ - ms]]

TimePasses ==
  /\ pending # <<>>
  /\ \E ms \in 0 .. pending[1].left : pending' = Passed(pending, ms)

GoesOff ==
  /\ pending # <<>>
  /\ pending' = Passed(Tail(pending), pending[1].left)

TimeoutsNext ==
  Start \/ Stop \/ TimePasses \/ GoesOff

TimeoutsSpec == TimeoutsInit /\ [][TimeoutsNext]_pending
=============================================================================
