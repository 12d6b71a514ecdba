-------------------------------- MODULE Vb2 --------------------------------
(***************************************************************************)
(* One buffer queue of a V4L2 device as the drivers under the libraries    *)
(* present it (videobuf2, not in this repository).  A queue is a record:   *)
(*                                                                         *)
(*   on     the queue is streaming (between STREAMON and STREAMOFF);       *)
(*   count  how many buffers REQBUFS allocated;                            *)
(*   fifo   the indices that are with the driver, oldest first;            *)
(*   ndone  how many of them, at the front, the hardware has finished.     *)
(*                                                                         *)
(* The operators say when the driver takes a call and what the call then   *)
(* does.  They hold no variable: the modules that use a device keep its    *)
(* queue in a variable of their own.                                       *)
(***************************************************************************)
EXTENDS Naturals, Sequences

\* The queue of a device that has just been opened.
Fresh == [on |-> FALSE, count |-> 0, fifo |-> <<>>, ndone |-> 0]

\* The indices that are with the driver.
Outstanding(q) == {q.fifo[k] : k \in DOMAIN q.fifo}

\* VIDIOC_QBUF: the index must exist and must not be with the driver already.
CanQbuf(q, i) == i < q.count /\ i \notin Outstanding(q)
Qbuf(q, i) ==
  [on |-> q.on, count |-> q.count, fifo |-> Append(q.fifo, i), ndone |-> q.ndone]

\* VIDIOC_DQBUF: refused unless streaming, blocks until the oldest is finished.
CanDqbuf(q) == q.on /\ q.ndone > 0
Dqbuf(q) ==
  [on |-> q.on, count |-> q.count, fifo |-> Tail(q.fifo), ndone |-> q.ndone - 1]

\* VIDIOC_STREAMON: refused when the queue already streams.
CanStreamon(q) == ~q.on
Streamon(q) ==
  [on |-> TRUE, count |-> q.count, fifo |-> q.fifo, ndone |-> q.ndone]

\* VIDIOC_STREAMOFF: every buffer goes back to the caller.
Streamoff(q) == [on |-> FALSE, count |-> q.count, fifo |-> <<>>, ndone |-> 0]

\* VIDIOC_REQBUFS: refused while streaming; frees what was queued.
CanReqbufs(q) == ~q.on
Reqbufs(q, n) == [on |-> q.on, count |-> n, fifo |-> <<>>, ndone |-> 0]

\* The hardware finishes the oldest buffer it has not finished.  A display
\* keeps the newest `hold' buffers on screen until younger ones arrive.
CanFinish(q, hold) == q.on /\ q.ndone + hold < Len(q.fifo)
Finish(q) ==
  [on |-> q.on, count |-> q.count, fifo |-> q.fifo, ndone |-> q.ndone + 1]
=============================================================================
