------------------------------- MODULE GscOut -------------------------------
(***************************************************************************)
(* The gscaler handle in GSC_OUTPUT_MODE (libgscaler/exynos_gscaler.c):    *)
(* frames are queued to the scaler's video node in a ring of N buffers and *)
(* flow straight to the display.                                           *)
(*                                                                         *)
(*   live   the caller holds a handle;                                     *)
(*   held   the media resources and links the process holds, by the step   *)
(*          of m_exynos_gsc_out_create that took them;                     *)
(*   src    the stream_on, buf_idx and qbuf_cnt fields of handle->src;     *)
(*   sq     the driver's queue behind gsc_vd_entity->fd;                   *)
(*   call   "dqbuf" while the caller is blocked in exynos_gsc_wait_done;   *)
(*   last   the library call that returned last, and what it returned.     *)
(*                                                                         *)
(* A call is one step, except that waiting for a frame is two: the ioctls  *)
(* of a call touch no queue the hardware's completions compete for.        *)
(***************************************************************************)
EXTENDS Integers, Vb2

CONSTANTS N,        \* MAX_BUFFERS_GSCALER_OUT
          Hold,     \* buffers the display keeps on screen
          Faults    \* the driver calls that may fail for reasons of their own

FaultKinds == {"open", "unlink", "setup", "ctrl", "reqbufs", "qbuf",
               "dqbuf", "streamon", "streamoff"}

ASSUME NAssumption == N \in Nat /\ N >= 3
ASSUME HoldAssumption == Hold \in Nat
ASSUME FaultsAssumption == Faults \subseteq FaultKinds

VARIABLES live, held, src, sq, call, last

vars == <<live, held, src, sq, call, last>>

\* The fields memset by exynos_gsc_create_exclusive.
ZeroSrc == [stream_on |-> FALSE, buf_idx |-> 0, qbuf_cnt |-> 0]

Steps == {"media", "sink", "sd_known", "sd", "vd_sd", "sd_sink", "vd", "cap"}
Rets == {-1, 0}
Ops == {"none", "create", "destroy", "config", "run", "wait", "stop", "just_stop"}

Returns(op, r) == last' = [op |-> op, ret |-> r]

Idle == live /\ call = "none"
-----------------------------------------------------------------------------
\* m_exynos_gsc_out_create takes its resources in this order; "sd_known" is
\* the sub-device's entity found, its descriptor not yet open.
CreateOrder == <<"media", "sink", "sd_known", "sd", "vd_sd", "sd_sink", "vd", "cap">>

\* What the handle owns after the first k steps.
Taken(k) == {CreateOrder[i] : i \in 1 .. k}

\* Slip: the sub-device's descriptor is forgotten.
DroppedKeepsSd(h, unlinked) ==
  h \ ({"media", "sink", "sd_known", "vd", "cap"}
       \cup (IF "sd_known" \in h /\ unlinked THEN {"sd_sink"} ELSE {}))

\* m_exnos_gsc_out_destroy: the link to the display is taken down when every
\* entity is known; the descriptors are closed.  Nothing takes the link inside
\* the scaler ("vd_sd") down again.
Dropped(h, unlinked) ==
  h \ ({"media", "sink", "sd_known", "sd", "vd", "cap"}
       \cup (IF "sd_known" \in h /\ unlinked THEN {"sd_sink"} ELSE {}))

Unlinked == {TRUE} \cup (IF "unlink" \in Faults THEN {FALSE} ELSE {})

\* exynos_gsc_create_exclusive in GSC_OUTPUT_MODE; links that are already up
\* are set up again without an error.
Create ==
  /\ ~live
  /\ \E k \in 0 .. Len(CreateOrder) :
        IF k = Len(CreateOrder)
        THEN /\ live' = TRUE
             /\ held' = held \cup Taken(k)
             /\ Returns("create", 0)
        ELSE /\ "open" \in Faults
             /\ live' = FALSE
             /\ \E u \in Unlinked : held' = Dropped(held \cup Taken(k), u)
             /\ Returns("create", -1)
  /\ src' = ZeroSrc
  /\ sq' = Fresh
  /\ UNCHANGED call

\* exynos_gsc_destroy in GSC_OUTPUT_MODE: whatever out_stop answers, closing
\* the video node ends the stream and frees its buffers.
Destroy ==
  /\ Idle
  /\ live' = FALSE
  /\ \E u \in Unlinked : held' = Dropped(held, u)
  /\ src' = ZeroSrc
  /\ sq' = Fresh
  /\ Returns("destroy", 0)
  /\ UNCHANGED call
-----------------------------------------------------------------------------
\* exynos_gsc_out_config.  The geometry is refused before anything is touched.
ConfigRefused ==
  /\ UNCHANGED <<src, sq>>
  /\ Returns("config", -1)

\* The ring restarts before the ioctls that may still fail.
ConfigReset == [stream_on |-> src.stream_on, buf_idx |-> 0, qbuf_cnt |-> 0]

ConfigFails ==
  /\ ~src.stream_on
  /\ "setup" \in Faults \/ "reqbufs" \in Faults \/ ~CanReqbufs(sq)
  /\ src' = ConfigReset
  /\ UNCHANGED sq
  /\ Returns("config", -1)

\* "return false" when V4L2_CID_USE_SYSMMU fails: 0, without any buffer.
ConfigNoBuffers ==
  /\ ~src.stream_on
  /\ "ctrl" \in Faults
  /\ src' = ConfigReset
  /\ UNCHANGED sq
  /\ Returns("config", 0)

ConfigDone ==
  /\ ~src.stream_on
  /\ CanReqbufs(sq)
  /\ src' = ConfigReset
  /\ sq' = Reqbufs(sq, N)
  /\ Returns("config", 0)

Config ==
  /\ Idle
  /\ ConfigRefused \/ ConfigFails \/ ConfigNoBuffers \/ ConfigDone
  /\ UNCHANGED <<live, held, call>>
-----------------------------------------------------------------------------
\* exynos_gsc_out_run.  qbuf_cnt is only ever compared with N: it is kept up
\* to that bound.
CountUp(n) == IF n < N THEN n + 1 ELSE N

\* A slip: a ring one buffer short.
NextIdxShort(i) == (i + 1) % (N - 1)

NextIdx(i) == (i + 1) % N

\* GSC_OUT_DELAYED_STREAMON is not defined: the stream starts once N - 2
\* buffers are queued.
StartAt == N - 2

StartsNow == ~src.stream_on /\ src.buf_idx + 1 = StartAt

\* Slip: buf_idx moves on before QBUF is known to have worked.
RunRefusedAdvances ==
  /\ src' = [src EXCEPT !.buf_idx = NextIdx(@)]
  /\ UNCHANGED sq
  /\ Returns("run", -1)

\* An unsupported format, or a QBUF the driver refuses.
RunRefused ==
  /\ UNCHANGED <<src, sq>>
  /\ Returns("run", -1)

RunQueues ==
  /\ CanQbuf(sq, src.buf_idx)
  /\ ~StartsNow
  /\ src' = [src EXCEPT !.buf_idx = NextIdx(@), !.qbuf_cnt = CountUp(@)]
  /\ sq' = Qbuf(sq, src.buf_idx)
  /\ Returns("run", 0)

RunStarts ==
  /\ CanQbuf(sq, src.buf_idx)
  /\ StartsNow
  /\ CanStreamon(sq)
  /\ src' = [stream_on |-> TRUE, buf_idx |-> NextIdx(src.buf_idx),
             qbuf_cnt |-> CountUp(src.qbuf_cnt)]
  /\ sq' = Streamon(Qbuf(sq, src.buf_idx))
  /\ Returns("run", 0)

\* The buffer stays with the driver and buf_idx has moved past the only value
\* at which STREAMON is tried.
RunStartFails ==
  /\ CanQbuf(sq, src.buf_idx)
  /\ StartsNow
  /\ "streamon" \in Faults \/ ~CanStreamon(sq)
  /\ src' = [src EXCEPT !.buf_idx = @ + 1, !.qbuf_cnt = CountUp(@)]
  /\ sq' = Qbuf(sq, src.buf_idx)
  /\ Returns("run", -1)

Run ==
  /\ Idle
  /\ RunRefused \/ RunQueues \/ RunStarts \/ RunStartFails
  /\ UNCHANGED <<live, held, call>>
-----------------------------------------------------------------------------
\* exynos_gsc_out_wait_frame_done: nothing to wait for until N were queued.
WaitIsEarly == src.qbuf_cnt < N

WaitSkips ==
  /\ WaitIsEarly
  /\ Returns("wait", 0)
  /\ UNCHANGED call

WaitRefused ==
  /\ ~WaitIsEarly
  /\ ~sq.on \/ "dqbuf" \in Faults
  /\ Returns("wait", -1)
  /\ UNCHANGED call

WaitBlocks ==
  /\ ~WaitIsEarly
  /\ sq.on
  /\ call' = "dqbuf"
  /\ UNCHANGED last

Wait ==
  /\ Idle
  /\ WaitSkips \/ WaitRefused \/ WaitBlocks
  /\ UNCHANGED <<live, held, src, sq>>

\* DQBUF hands the oldest buffer back; the index it returns is not looked at.
WaitReturns ==
  /\ call = "dqbuf"
  /\ CanDqbuf(sq)
  /\ sq' = Dqbuf(sq)
  /\ call' = "none"
  /\ Returns("wait", 0)
  /\ UNCHANGED <<live, held, src>>
-----------------------------------------------------------------------------
\* Slip: stream_on is not lowered.
ForgottenKeepsFlag == [src EXCEPT !.buf_idx = 0, !.qbuf_cnt = 0]

\* exynos_gsc_out_stop and exynos_gsc_out_streamoff forget the stream before
\* they ask the driver to end it.
Forgotten == [stream_on |-> FALSE, buf_idx |-> 0, qbuf_cnt |-> 0]

\* Slip: the answer of REQBUFS is not looked at.
StopSkipsUnchecked ==
  /\ ~src.stream_on
  /\ sq' = IF CanReqbufs(sq) THEN Reqbufs(sq, 0) ELSE sq
  /\ Returns("stop", 0)

\* "GSC is already stopped": no STREAMOFF is tried.
StopSkips ==
  /\ ~src.stream_on
  /\ CanReqbufs(sq)
  /\ sq' = Reqbufs(sq, 0)
  /\ Returns("stop", 0)

\* REQBUFS fails after a skipped STREAMOFF, or STREAMOFF itself fails.
StopFails ==
  /\ IF src.stream_on THEN "streamoff" \in Faults
     ELSE "reqbufs" \in Faults \/ ~CanReqbufs(sq)
  /\ UNCHANGED sq
  /\ Returns("stop", -1)

\* STREAMOFF, then V4L2_CID_USE_SYSMMU, then REQBUFS(0).
StopStreams ==
  /\ src.stream_on
  /\ \/ sq' = Reqbufs(Streamoff(sq), 0) /\ Returns("stop", 0)
     \/ "ctrl" \in Faults /\ sq' = Streamoff(sq) /\ Returns("stop", 0)
     \/ "reqbufs" \in Faults /\ sq' = Streamoff(sq) /\ Returns("stop", -1)

Stop ==
  /\ Idle
  /\ src' = Forgotten
  /\ StopSkips \/ StopFails \/ StopStreams
  /\ UNCHANGED <<live, held, call>>

\* exynos_gsc_out_streamoff: the buffers stay allocated.
JustStop ==
  /\ Idle
  /\ src' = Forgotten
  /\ \/ ~src.stream_on /\ UNCHANGED sq /\ Returns("just_stop", 0)
     \/ src.stream_on /\ sq' = Streamoff(sq) /\ Returns("just_stop", 0)
     \/ /\ src.stream_on /\ "streamoff" \in Faults
        /\ UNCHANGED sq /\ Returns("just_stop", -1)
  /\ UNCHANGED <<live, held, call>>
-----------------------------------------------------------------------------
\* The scaler finishes a buffer and the display moves on to it.
Complete ==
  /\ CanFinish(sq, Hold)
  /\ sq' = Finish(sq)
  /\ UNCHANGED <<live, held, src, call, last>>

Init ==
  /\ live = FALSE
  /\ held = {}
  /\ src = ZeroSrc
  /\ sq = Fresh
  /\ call = "none"
  /\ last = [op |-> "none", ret |-> 0]

Next ==
  \/ Create \/ Destroy \/ Config \/ Run \/ Wait \/ WaitReturns
  \/ Stop \/ JustStop \/ Complete

Spec == Init /\ [][Next]_vars
-----------------------------------------------------------------------------
(* Properties. *)

Indices == 0 .. N - 1
Srcs == [stream_on : BOOLEAN, buf_idx : Indices, qbuf_cnt : 0 .. N]
Queues == [on : BOOLEAN, count : {0, N}, fifo : Seq(Indices), ndone : Nat]
Lasts == [op : Ops, ret : Rets]

\* The variables have the values their fields may take.
TypeOK ==
  /\ live \in BOOLEAN
  /\ held \subseteq Steps
  /\ src \in Srcs
  /\ sq \in Queues
  /\ sq.ndone <= Len(sq.fifo)
  /\ call \in {"none", "dqbuf"}
  /\ last \in Lasts

\* handle->src.stream_on never claims a stream the driver does not run: every
\* path of run, config, stop, streamoff and destroy that fails half-way leaves
\* the flag down or the stream up.
FlagIsBacked == src.stream_on => live /\ sq.on /\ sq.count = N

\* exynos_gsc_out_run walks buf_idx round the ring and never looks at what
\* DQBUF returned.  While the stream runs, and also after a STREAMON that failed
\* and left buffers queued, the driver refuses the next index only because all
\* N buffers are with it, whatever calls failed before.  Index 0 of a stopped
\* driver is excepted: just_stop goes back to it and frees no buffer.
RefusedOnlyWhenFull ==
  /\ live
  /\ src.stream_on \/ (~sq.on /\ src.buf_idx # 0)
  /\ ~CanQbuf(sq, src.buf_idx)
  => Len(sq.fifo) = N

\* With the ring full, the buffer exynos_gsc_wait_done gives back is the one
\* the next run will queue.
OldestIsNext ==
  src.stream_on /\ Len(sq.fifo) = N => Head(sq.fifo) = src.buf_idx

\* exynos_gsc_stop_exclusive answers 0 only with the driver stopped and no
\* buffer left with it, also after an earlier STREAMOFF failed.
StopMeansStopped == last = [op |-> "stop", ret |-> 0] => ~sq.on /\ sq.fifo = <<>>

\* Whichever step of the creation fails, and after every destroy, no
\* descriptor stays open, and the link to the display is down unless taking
\* it down failed.
NothingLeftOpen ==
  ~live => held \subseteq {"vd_sd"} \cup {l \in {"sd_sink"} : "unlink" \in Faults}

Promise == INSTANCE Stream WITH made <- live, flag <- src.stream_on,
                                running <- sq.on, queued <- Len(sq.fifo)

\* The output handle keeps what Stream promises its users: no claim without a
\* stream, no configuration of a claimed stream, no stop that did not happen.
Implements == Promise!Spec
=============================================================================
