------------------------------ MODULE MfcPort ------------------------------
(***************************************************************************)
(* One port of an MFC codec context: the buffers of the decoder            *)
(* (ExynosVideoDecoder.c) or the encoder (ExynosVideoEncoder.c), input or  *)
(* output, between the threads that enqueue, the one that dequeues, the    *)
(* one that starts, stops and sets up, and the driver.                     *)
(*                                                                         *)
(* pInMutex and pOutMutex are held from MFC_*_Find_* to the mark, so that  *)
(* is one step; every ioctl and every field written after it is another.   *)
(* The four ports run the same code but where `port' is asked for.         *)
(* The OMX components that call the port are not in the repository: any    *)
(* call may come at any time, except that Setup and Finalize, which free   *)
(* the buffers, do not overlap another call.                               *)
(***************************************************************************)
EXTENDS Integers, FiniteSets

CONSTANTS MaxBufs,    \* bound: buffers asked for or granted
          Enqueuers,  \* threads that call Enqueue
          Faults      \* the driver calls that may fail for reasons of their own

\* A failed STREAMON or STREAMOFF leaves everything as it was: no kind of its own.
FaultKinds == {"reqbufs", "count", "map", "qbuf", "dqbuf"}

ASSUME MaxBufsAssumption == MaxBufs \in Nat \ {0}
ASSUME FaultsAssumption == Faults \subseteq FaultKinds

Ports    == {"dec_in", "dec_out", "enc_in", "enc_out"}
Indices  == 0 .. MaxBufs - 1
None     == -1                     \* no buffer

VARIABLES
  port,       \* which of the four ports this is; never changes
  array,      \* pInbuf, pOutbuf: "none", "live", or "freed" but still pointed to
  n,          \* nInbufs, nOutbufs
  streaming,  \* bStreamonInbuf, bStreamonOutbuf
  queued,     \* bQueued of each buffer
  registered, \* bRegistered, and with it planes[0].addr # NULL
  private,    \* pPrivate
  drv,        \* the driver's queue: on, count, held, done
  enq,        \* what each enqueuing thread is about to do
  deq,        \* what the dequeuing thread is about to do
  ctl,        \* what a running Stop is about to do
  \* What really happened, for the properties only:
  given,      \* pPrivate of the last Enqueue of each buffer in use; "unknown"
              \* when an earlier Enqueue of it had not yet returned
  forgotten   \* buffers whose mark was cleared while they were in use

buffers == <<array, n, queued, registered, private>>
ghosts  == <<given, forgotten>>
vars == <<port, buffers, streaming, drv, enq, deq, ctl, ghosts>>

Inert   == [at |-> "idle", idx |-> None, private |-> "null"]
AtRest  == [at |-> "idle", idx |-> None]
Nobodys == [i \in Indices |-> "unknown"]
NoQueue == [on |-> FALSE, count |-> 0, held |-> {}, done |-> {}]

Init ==
  /\ port \in Ports
  /\ array = "none" /\ n = 0 /\ streaming = FALSE
  /\ queued = [i \in Indices |-> FALSE] /\ registered = [i \in Indices |-> FALSE]
  /\ private = [i \in Indices |-> "null"]
  /\ drv = NoQueue
  /\ enq = [e \in Enqueuers |-> Inert] /\ deq = AtRest /\ ctl = "idle"
  /\ given = Nobodys /\ forgotten = {}

NoCall == (\A e \in Enqueuers : enq[e].at = "idle") /\ deq.at = "idle" /\ ctl = "idle"
Usable == array = "live"
-----------------------------------------------------------------------------
(* Setup, Register, Finalize.  shared is what Set_Shareable said last: nothing   *)
(* but the next Setup depends on it.                                           *)

\* A new array: the old one, if any, is not freed.
Fill(count, shared) ==
  /\ array' = "live" /\ n' = count
  /\ queued' = [i \in Indices |-> FALSE]
  /\ registered' = [i \in Indices |-> ~shared /\ i < count]
  /\ private' = [i \in Indices |-> "null"]
  /\ deq' = AtRest /\ given' = Nobodys /\ forgotten' = {}

\* The EXIT path: what pInbuf points to by now is freed, the pointer stays.
Spoil(count, had) ==
  /\ n' = count
  /\ array' = IF had THEN "freed" ELSE array
  /\ UNCHANGED <<queued, registered, private, deq, ghosts>>

ReqbufsFails ==
  /\ drv.on \/ "reqbufs" \in Faults
  /\ Spoil(n, array = "live") /\ UNCHANGED drv

Granted(count) == drv' = [NoQueue EXCEPT !.count = count]

\* querybuf or mmap fails in a buffer that is not shared.
MapFails(count, shared) ==
  /\ ~shared /\ "map" \in Faults /\ Spoil(count, TRUE)

\* MFC_Decoder_Setup_*: another count than asked for is an error.
SetupDec(asked, count, shared) ==
  /\ port \in {"dec_in", "dec_out"}
  /\ \/ count = asked /\ (Fill(count, shared) \/ MapFails(count, shared))
     \/ count # asked /\ Spoil(n, array = "live")

\* MFC_Encoder_Setup_*: the driver's count is taken.
SetupEnc(count, shared) ==
  /\ port \in {"enc_in", "enc_out"}
  /\ Fill(count, shared) \/ MapFails(count, shared)

Setup ==
  /\ NoCall /\ array # "freed"
  /\ \/ ReqbufsFails
     \/ \E asked \in 1 .. MaxBufs, shared \in BOOLEAN :
        \E count \in {asked} \cup {c \in 1 .. MaxBufs : "count" \in Faults} :
          /\ ~drv.on /\ Granted(count)
          /\ SetupDec(asked, count, shared) \/ SetupEnc(count, shared)
  /\ UNCHANGED <<port, streaming, enq, ctl>>

\* The first buffer without an address takes the one the caller brings.
Register ==
  /\ Usable /\ ctl = "idle"
  /\ \E i \in 0 .. n - 1 :
       /\ ~registered[i] /\ \A j \in 0 .. i - 1 : registered[j]
       /\ registered' = [registered EXCEPT ![i] = TRUE]
  /\ UNCHANGED <<port, array, n, queued, private, streaming, drv, enq, deq, ctl,
                 ghosts>>

ClearRegistered ==
  /\ Usable /\ ctl = "idle"
  /\ registered' = [i \in Indices |-> FALSE]
  /\ UNCHANGED <<port, array, n, queued, private, streaming, drv, enq, deq, ctl,
                 ghosts>>

\* Closing the device empties it.  An array that a failed Setup freed is walked
\* and freed a second time: what may come of that is not modelled, the port
\* only starts again.
Finalize ==
  /\ NoCall /\ array # "none"
  /\ array' = "none" /\ n' = 0 /\ streaming' = FALSE
  /\ queued' = [i \in Indices |-> FALSE] /\ registered' = [i \in Indices |-> FALSE]
  /\ private' = [i \in Indices |-> "null"] /\ drv' = NoQueue /\ deq' = AtRest
  /\ given' = Nobodys /\ forgotten' = {}
  /\ UNCHANGED <<port, enq, ctl>>
-----------------------------------------------------------------------------
(* Enqueue.  MFC_Encoder_Enqueue_All_Outbuf is in no table of operations. *)

\* Mutant: a buffer found by its address may be marked already.
FoundMarked(want) == {i \in 0 .. n - 1 : ~queued[i] \/ (i = want /\ registered[i])}

\* MFC_*_Find_*: free buffers, all of them for a NULL address; else the one that
\* has the address, which here is its index.
Found(want) ==
  {i \in 0 .. n - 1 : ~queued[i] /\ (want = None \/ (i = want /\ registered[i]))}

First(S) == CHOOSE i \in S : \A j \in S : i <= j

\* Find and mark, under the mutex of the port.
Mark(e, want, p) ==
  LET i == First(Found(want)) IN
  /\ Found(want) # {}
  /\ queued' = [queued EXCEPT ![i] = TRUE]
  /\ enq' = [enq EXCEPT ![e] = [at |-> "qbuf", idx |-> i, private |-> p]]
  /\ UNCHANGED <<port, array, n, registered, private, streaming, drv, deq, ctl,
                 ghosts>>

\* The pPrivate of a call is another than the one the buffer has: the case in
\* which mixing them up shows.
Another(i) == IF private[i] = "null" THEN "header" ELSE "null"

\* Without a buffer Enqueue answers NOBUFFERS and changes nothing.
Enqueue(e) ==
  /\ Usable /\ enq[e].at = "idle"
  /\ \E want \in Indices \cup {None} :
       Found(want) # {} /\ Mark(e, want, Another(First(Found(want))))

Overlaps(e, i) == \E f \in Enqueuers \ {e} : enq[f].at = "private" /\ enq[f].idx = i

QbufTaken(e) ==
  LET i == enq[e].idx IN
  /\ enq[e].at = "qbuf" /\ i < drv.count /\ i \notin drv.held
  /\ drv' = [drv EXCEPT !.held = @ \cup {i}]
  /\ enq' = [enq EXCEPT ![e].at = "private"]
  /\ given' = [given EXCEPT ![i] = IF Overlaps(e, i) THEN "unknown" ELSE enq[e].private]
  /\ UNCHANGED <<port, buffers, streaming, deq, ctl, forgotten>>

\* Mutant: a refused QBUF leaves the mark.
UnmarkedNot(i) == queued

Unmarked(i) == [queued EXCEPT ![i] = FALSE]

QbufRefused(e) ==
  LET i == enq[e].idx IN
  /\ enq[e].at = "qbuf"
  /\ "qbuf" \in Faults \/ i >= drv.count \/ i \in drv.held
  /\ queued' = Unmarked(i)
  /\ enq' = [enq EXCEPT ![e] = Inert]
  /\ UNCHANGED <<port, array, n, registered, private, streaming, drv, deq, ctl,
                 ghosts>>

\* Mutant: the index of the loop over the planes instead of the buffer's.
OwnerByPlane(e) == IF n > 1 THEN 1 ELSE 0

Owner(e) == enq[e].idx

\* pPrivate is written when the driver has the buffer already.
SetPrivate(e) ==
  /\ enq[e].at = "private"
  /\ private' = [private EXCEPT ![Owner(e)] = enq[e].private]
  /\ enq' = [enq EXCEPT ![e] = Inert]
  /\ UNCHANGED <<port, array, n, queued, registered, streaming, drv, deq, ctl,
                 ghosts>>
-----------------------------------------------------------------------------
(* Dequeue.  The Wait functions are in no table of operations. *)

DeqAt(at) == deq' = [deq EXCEPT !.at = at]

\* Dequeue is over; the buffer it had in hand is the caller's, or nobody's.
Return ==
  /\ deq' = AtRest
  /\ given' = [i \in Indices |-> IF i = deq.idx /\ i \notin drv.held THEN "unknown" ELSE given[i]]

\* The stream flag is read before the call blocks in the driver; with the flag
\* down Dequeue answers NULL.
Dequeue ==
  /\ Usable /\ deq.at = "idle" /\ streaming /\ DeqAt("dqbuf")
  /\ UNCHANGED <<port, buffers, streaming, drv, enq, ctl, ghosts>>

Dqbuf ==
  /\ deq.at = "dqbuf" /\ drv.on
  /\ \E b \in drv.done :
       /\ drv' = [drv EXCEPT !.held = @ \ {b}, !.done = @ \ {b}]
       /\ deq' = [deq EXCEPT !.at = IF port = "dec_out" THEN "check" ELSE "clear", !.idx = b]
  /\ UNCHANGED <<port, buffers, streaming, enq, ctl, ghosts>>

DqbufFails ==
  /\ deq.at = "dqbuf"
  /\ ~drv.on \/ "dqbuf" \in Faults
  /\ deq' = AtRest
  /\ UNCHANGED <<port, buffers, streaming, drv, enq, ctl, ghosts>>

\* MFC_Decoder_Dequeue_Outbuf looks at the flag again before it touches the
\* buffer, and leaves the mark to Stop.
CheckBefore ==
  /\ deq.at = "check"
  /\ IF streaming THEN DeqAt("clear") /\ UNCHANGED given ELSE Return
  /\ UNCHANGED <<port, buffers, streaming, drv, enq, ctl, forgotten>>

\* bQueued is cleared without the mutex.
ClearMark ==
  /\ deq.at = "clear"
  /\ queued' = [queued EXCEPT ![deq.idx] = FALSE]
  /\ IF port = "dec_in" THEN DeqAt("recheck") /\ UNCHANGED given ELSE Return
  /\ UNCHANGED <<port, array, n, registered, private, streaming, drv, enq, ctl,
                 forgotten>>

\* MFC_Decoder_Dequeue_Inbuf looks at the flag once more, and hands out the
\* buffer or NULL.
CheckAfter ==
  /\ deq.at = "recheck" /\ Return
  /\ UNCHANGED <<port, buffers, streaming, drv, enq, ctl, forgotten>>
-----------------------------------------------------------------------------
(* Run, Stop, Clear_Queued. *)

Run ==
  /\ Usable /\ ctl = "idle" /\ ~streaming
  /\ drv' = [drv EXCEPT !.on = TRUE] /\ streaming' = TRUE
  /\ UNCHANGED <<port, buffers, enq, deq, ctl, ghosts>>

\* Stop asks the driver only when the flag is up; a failed STREAMOFF changes
\* nothing.
StopStreamoff ==
  /\ Usable /\ ctl = "idle"
  /\ IF streaming
     THEN /\ drv' = [drv EXCEPT !.on = FALSE, !.held = {}, !.done = {}]
          /\ ctl' = "flag"
          /\ given' = [i \in Indices |-> IF i = deq.idx THEN given[i] ELSE "unknown"]
     ELSE ctl' = "clear" /\ UNCHANGED <<drv, given>>
  /\ UNCHANGED <<port, buffers, streaming, enq, deq, forgotten>>

StopFlag ==
  /\ ctl = "flag" /\ ctl' = "clear" /\ streaming' = FALSE
  /\ UNCHANGED <<port, buffers, drv, enq, deq, ghosts>>

\* Buffers the driver holds, or that a call not yet finished has in hand.
InUse == (drv.held \cup {deq.idx} \cup {enq[e].idx : e \in Enqueuers}) \ {None}

Unmark ==
  /\ queued' = [i \in Indices |-> FALSE] /\ forgotten' = InUse
  /\ UNCHANGED <<port, array, n, registered, private, streaming, drv, enq, deq,
                 given>>

StopClear == ctl = "clear" /\ ctl' = "idle" /\ Unmark

\* Clear_Queued does not ask the driver at all.
ClearQueued == Usable /\ ctl = "idle" /\ Unmark /\ UNCHANGED ctl
-----------------------------------------------------------------------------
\* The hardware finishes buffers in an order of its own.
Complete ==
  /\ drv.on
  /\ \E b \in drv.held \ drv.done : drv' = [drv EXCEPT !.done = @ \cup {b}]
  /\ UNCHANGED <<port, buffers, streaming, enq, deq, ctl, ghosts>>

Control ==
  \/ Setup \/ Register \/ ClearRegistered \/ Finalize
  \/ Run \/ StopStreamoff \/ StopFlag \/ StopClear \/ ClearQueued

DecEnqueue(e) ==
  /\ port \in {"dec_in", "dec_out"}
  /\ Enqueue(e) \/ QbufTaken(e) \/ QbufRefused(e) \/ SetPrivate(e)

EncEnqueue(e) ==
  /\ port \in {"enc_in", "enc_out"}
  /\ Enqueue(e) \/ QbufTaken(e) \/ QbufRefused(e) \/ SetPrivate(e)

DecDequeue ==
  /\ port \in {"dec_in", "dec_out"}
  /\ Dequeue \/ Dqbuf \/ DqbufFails \/ CheckBefore \/ ClearMark \/ CheckAfter

EncDequeue ==
  /\ port \in {"enc_in", "enc_out"}
  /\ Dequeue \/ Dqbuf \/ DqbufFails \/ ClearMark

Next ==
  \/ Control \/ (\E e \in Enqueuers : DecEnqueue(e) \/ EncEnqueue(e))
  \/ DecDequeue \/ EncDequeue \/ Complete

Spec == Init /\ [][Next]_vars
-----------------------------------------------------------------------------
(* Properties. *)

\* A buffer the driver holds is marked, so Enqueue never picks it: whatever the
\* threads interleave and the driver refuses, only a Stop or a Clear_Queued that
\* came while the buffer was in use can have taken the mark away.
HeldIsMarked == Usable => \A b \in drv.held \ forgotten : queued[b]

\* When no call is running, a marked buffer is with the driver, so none is lost
\* to Enqueue for good, not even after a Stop overtook calls of both threads.
NothingLost ==
  Usable /\ NoCall => \A i \in 0 .. n - 1 : queued[i] => i \in drv.held

\* The calls of Enqueue that still have to write buffer b's pPrivate.
Writers(b) == {e \in Enqueuers : enq[e].at = "private" /\ enq[e].idx = b}

\* A buffer the driver holds, or Dequeue has in hand, carries the pPrivate of its last
\* Enqueue, or that very call, and no other, still has to write it: no later write puts
\* another one there.  Buffers queued again while an earlier Enqueue of theirs had not
\* written are left out.  A Dequeue that comes before the write hands out the old
\* pPrivate; nothing here says that it cannot.
PrivateIsOwn ==
  \A b \in (drv.held \cup {deq.idx}) \ {None} :
    Usable /\ given[b] # "unknown" =>
      /\ Writers(b) = {} => private[b] = given[b]
      /\ \A e \in Writers(b) : Writers(b) = {e} /\ enq[e].private = given[b]
=============================================================================
