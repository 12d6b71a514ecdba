-------------------------------- MODULE Mxr --------------------------------
(***************************************************************************)
(* A graphic layer of the mixer (exynos_mxr_* in                           *)
(* libhdmi/libhdmiutils/ExynosHdmiUtils.cpp): like a scaler handle in      *)
(* output mode a ring of buffers behind a video node; unlike it, made and  *)
(* given up under a mutex that nobody releases in between.                 *)
(*                                                                         *)
(*   recursive  whether a thread may lock an exynos_mutex twice (its       *)
(*              source is not in the repository);                          *)
(*   live   the caller holds a handle;                                     *)
(*   held   the media resources it stands for, by the step that took them; *)
(*   mx     stream_on, buf_idx and qbuf_cnt of the handle;                 *)
(*   mq     the driver's queue behind mxr_vd_entity->fd;                   *)
(*   call   "dqbuf" in exynos_mxr_wait_done, "hung" once the thread waits  *)
(*          for a mutex it holds, "wild" once it uses freed memory;        *)
(*   last   the library call that returned last, and what it returned;     *)
(*   cut    (ghost) the driver's frames were dropped by a configuration    *)
(*          while the ring was under way.                                  *)
(***************************************************************************)
EXTENDS Integers, Vb2

CONSTANTS N,       \* MAX_BUFFERS_MIXER
          Hold,    \* buffers the television keeps on screen
          Faults   \* the driver calls that may fail for reasons of their own

FaultKinds == {"open", "unlink", "setup", "reqbufs", "qbuf", "dqbuf",
               "streamon", "streamoff"}

ASSUME NAssumption == N \in Nat /\ N >= 3
ASSUME HoldAssumption == Hold \in Nat
ASSUME FaultsAssumption == Faults \subseteq FaultKinds

VARIABLES recursive, live, held, mx, mq, call, last, cut

vars == <<recursive, live, held, mx, mq, call, last, cut>>

\* The fields exynos_mxr_create clears.
ZeroMx == [stream_on |-> FALSE, buf_idx |-> 0, qbuf_cnt |-> 0]

Returns(op, r) == last' = [op |-> op, ret |-> r]

Idle == live /\ call = "none"

\* A ring that starts again with an empty queue is whole.
StillCut == cut' = (cut /\ mq'.fifo # <<>>)
-----------------------------------------------------------------------------
\* exynos_mxr_create finds the two entities before it opens them.
CreateOrder == <<"media", "vd_known", "sd_known", "vd", "sd", "link">>
Everything == {CreateOrder[i] : i \in DOMAIN CreateOrder}

Taken(k) == {CreateOrder[i] : i \in 1 .. k}

\* exynos_mxr_destroy gives up at once when the link cannot be taken down.
CannotUnlink(h) ==
  "unlink" \in Faults /\ {"media", "vd_known", "sd_known"} \subseteq h

\* The layer's queue belongs to the device: it outlives a handle whose
\* descriptor was never closed.
QueueFound == IF "vd" \in held THEN mq ELSE Fresh

Created ==
  /\ live' = TRUE
  /\ held' = Everything
  /\ mq' = QueueFound
  /\ Returns("create", 0)
  /\ UNCHANGED call

\* The handle could not be allocated: nothing was done.
CreateRefused ==
  /\ "open" \in Faults
  /\ Returns("create", -1)
  /\ UNCHANGED <<live, held, mq, call>>

\* A later step failed: exynos_mxr_destroy locks op_mutex a second time (there
\* is none yet when that was the step), and frees the handle which the rest of
\* the error path goes on to use, unless the link could not be taken down.
CreateFails(k) ==
  /\ "open" \in Faults
  /\ UNCHANGED <<live, mq>>
  /\ \/ ~recursive /\ call' = "hung" /\ held' = held \cup Taken(k) /\ UNCHANGED last
     \/ (recursive \/ k = 0) /\ call' = "wild" /\ UNCHANGED <<held, last>>
     \/ /\ recursive /\ CannotUnlink(Taken(k))
        /\ held' = held \cup Taken(k) /\ Returns("create", -1) /\ UNCHANGED call

Create ==
  /\ ~live /\ call = "none"
  /\ mx' = ZeroMx
  /\ Created \/ CreateRefused \/ \E k \in 0 .. Len(CreateOrder) : CreateFails(k)
  /\ StillCut
  /\ UNCHANGED recursive

\* Slip: the answer of REQBUFS is not looked at when the flag is down.
StopNClearUnchecked(r) ==
  IF mx.stream_on
  THEN r = 0 /\ mq' = Reqbufs(Streamoff(mq), 0)
  ELSE r = 0 /\ mq' = IF CanReqbufs(mq) THEN Reqbufs(mq, 0) ELSE mq

\* What exynos_mxr_stop_n_clear asks of the driver, and answers.
StopNClear(r) ==
  IF mx.stream_on
  THEN \/ r = 0 /\ mq' = Reqbufs(Streamoff(mq), 0)
       \/ r = -1 /\ "reqbufs" \in Faults /\ mq' = Streamoff(mq)
       \/ r = -1 /\ "streamoff" \in Faults /\ UNCHANGED mq
  ELSE \/ r = 0 /\ CanReqbufs(mq) /\ mq' = Reqbufs(mq, 0)
       \/ r = -1 /\ ("reqbufs" \in Faults \/ ~CanReqbufs(mq)) /\ UNCHANGED mq

\* exynos_mxr_destroy: a stream the flag knows of is stopped; closing the node
\* ends it in any case.  The early return leaves the driver as the stop did.
Destroy ==
  /\ Idle
  /\ IF ~recursive
     THEN call' = "hung" /\ UNCHANGED <<live, held, mx, mq, last, cut>>
     ELSE /\ live' = FALSE
          /\ mx' = ZeroMx
          /\ \/ held' = held \ Everything /\ mq' = Fresh
             \/ /\ CannotUnlink(held)
                /\ UNCHANGED held
                /\ IF mx.stream_on THEN \E r \in {-1, 0} : StopNClear(r) ELSE UNCHANGED mq
          /\ Returns("destroy", 0)
          /\ StillCut
          /\ UNCHANGED call
  /\ UNCHANGED recursive
-----------------------------------------------------------------------------
\* exynos_mxr_config refuses while the flag is up.
ConfigRefused ==
  /\ mx.stream_on
  /\ UNCHANGED <<mq, cut>>
  /\ Returns("config", -1)

\* A format, a crop, the blending or the request for buffers is turned down.
ConfigFails ==
  /\ ~mx.stream_on
  /\ "setup" \in Faults \/ "reqbufs" \in Faults \/ ~CanReqbufs(mq)
  /\ UNCHANGED <<mq, cut>>
  /\ Returns("config", -1)

\* It touches no field of the ring: buf_idx keeps its value.
ConfigDone ==
  /\ ~mx.stream_on
  /\ CanReqbufs(mq)
  /\ mq' = Reqbufs(mq, N)
  /\ cut' = (mx.buf_idx # 0)
  /\ Returns("config", 0)

Config ==
  /\ Idle
  /\ ConfigRefused \/ ConfigFails \/ ConfigDone
  /\ UNCHANGED <<recursive, live, held, mx, call>>
-----------------------------------------------------------------------------
\* qbuf_cnt is only ever compared with N: it is kept up to that bound.
CountUp(n) == IF n < N THEN n + 1 ELSE N

\* Slip: the modulo is one too large.
NextIdxLong(i) == (i + 1) % (N + 1)

NextIdx(i) == (i + 1) % N

\* MXR_DELAYED_STREAMON is not defined.
StartAt == N - 2

StartsNow == ~mx.stream_on /\ mx.buf_idx + 1 = StartAt

\* A format of no known plane size, or a QBUF the driver refuses.
RunRefused ==
  /\ UNCHANGED <<mx, mq>>
  /\ Returns("run", -1)

RunQueues ==
  /\ CanQbuf(mq, mx.buf_idx)
  /\ mq' = Qbuf(mq, mx.buf_idx)
  /\ ~StartsNow
  /\ mx' = [mx EXCEPT !.buf_idx = NextIdx(@), !.qbuf_cnt = CountUp(@)]
  /\ Returns("run", 0)

RunStarts ==
  /\ CanQbuf(mq, mx.buf_idx)
  /\ StartsNow /\ CanStreamon(mq)
  /\ mq' = Streamon(Qbuf(mq, mx.buf_idx))
  /\ mx' = [stream_on |-> TRUE, buf_idx |-> NextIdx(mx.buf_idx), qbuf_cnt |-> CountUp(mx.qbuf_cnt)]
  /\ Returns("run", 0)

\* The call returns before the modulo.
RunStartFails ==
  /\ CanQbuf(mq, mx.buf_idx)
  /\ StartsNow
  /\ "streamon" \in Faults \/ ~CanStreamon(mq)
  /\ mq' = Qbuf(mq, mx.buf_idx)
  /\ mx' = [mx EXCEPT !.buf_idx = @ + 1, !.qbuf_cnt = CountUp(@)]
  /\ Returns("run", -1)

Run ==
  /\ Idle
  /\ RunRefused \/ RunQueues \/ RunStarts \/ RunStartFails
  /\ UNCHANGED <<recursive, live, held, call, cut>>

\* exynos_mxr_wait_done: 0 at once while fewer than N were queued or the flag
\* is down.
WaitIsEarly == mx.qbuf_cnt < N \/ ~mx.stream_on

Wait ==
  /\ Idle
  /\ \/ WaitIsEarly /\ Returns("wait", 0) /\ UNCHANGED call
     \/ ~WaitIsEarly /\ "dqbuf" \in Faults /\ Returns("wait", -1) /\ UNCHANGED call
     \/ ~WaitIsEarly /\ call' = "dqbuf" /\ UNCHANGED last
  /\ UNCHANGED <<recursive, live, held, mx, mq, cut>>

WaitReturns ==
  /\ call = "dqbuf"
  /\ CanDqbuf(mq)
  /\ mq' = Dqbuf(mq)
  /\ call' = "none"
  /\ Returns("wait", 0)
  /\ UNCHANGED <<recursive, live, held, mx, cut>>
-----------------------------------------------------------------------------
\* exynos_mxr_stop_n_clear forgets the ring before it asks the driver.
Stop ==
  /\ Idle
  /\ mx' = ZeroMx
  /\ \E r \in {-1, 0} : StopNClear(r) /\ Returns("stop", r)
  /\ StillCut
  /\ UNCHANGED <<recursive, live, held, call>>

\* exynos_mxr_just_stop: no STREAMOFF when the flag is down, no REQBUFS.
JustStop ==
  /\ Idle
  /\ mx' = ZeroMx
  /\ \/ ~mx.stream_on /\ UNCHANGED mq /\ Returns("just_stop", 0)
     \/ mx.stream_on /\ mq' = Streamoff(mq) /\ Returns("just_stop", 0)
     \/ mx.stream_on /\ "streamoff" \in Faults /\ UNCHANGED mq /\ Returns("just_stop", -1)
  /\ StillCut
  /\ UNCHANGED <<recursive, live, held, call>>

\* The mixer has shown a buffer and moves on.
Complete ==
  /\ live
  /\ CanFinish(mq, Hold)
  /\ mq' = Finish(mq)
  /\ UNCHANGED <<recursive, live, held, mx, call, last, cut>>

Init ==
  /\ recursive \in BOOLEAN
  /\ live = FALSE
  /\ held = {}
  /\ mx = ZeroMx
  /\ mq = Fresh
  /\ call = "none"
  /\ last = [op |-> "none", ret |-> 0]
  /\ cut = FALSE

Next ==
  \/ Create \/ Destroy \/ Config \/ Run \/ Wait \/ WaitReturns
  \/ Stop \/ JustStop \/ Complete

Spec == Init /\ [][Next]_vars
-----------------------------------------------------------------------------
(* Properties. *)

Indices == 0 .. N - 1

\* exynos_mxr_run never learns from the driver which buffer is free.  While the
\* flag is up its next index is refused only when the driver has all of them,
\* and then exynos_mxr_wait_done gives back that very one, whatever failed
\* before, unless a caller configured without exynos_mxr_stop_n_clear: the
\* configuration drops the driver's frames and leaves buf_idx where it is.
RingInStep ==
  mx.stream_on /\ ~cut =>
    /\ ~CanQbuf(mq, mx.buf_idx) => Len(mq.fifo) = N
    /\ Len(mq.fifo) = N => Head(mq.fifo) = mx.buf_idx

Promise == INSTANCE Stream WITH made <- live, flag <- mx.stream_on,
                                running <- mq.on, queued <- Len(mq.fifo)

\* The mixer's handle keeps what Stream promises to ExynosHdmi: it claims no
\* stream the driver does not run, and a stop it reports has happened.
Implements == Promise!Spec
=============================================================================
