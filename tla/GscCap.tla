------------------------------- MODULE GscCap -------------------------------
(***************************************************************************)
(* The gscaler handle in GSC_CAPTURE_MODE (libgscaler/exynos_gscaler.c):   *)
(* the scaler writes what the display controller sends into buffers the    *)
(* caller queues.                                                          *)
(*                                                                         *)
(*   live   the caller holds a handle;                                     *)
(*   dst    handle->dst.stream_on and .buf_idx, and dst_img.reqBufCnt;     *)
(*   cq     the driver's queue behind gsc_vd_entity->fd;                   *)
(*   vsync  the vsync interrupt the process asked /dev/graphics/fb1 for;   *)
(*   fbs    descriptors of fb1 the process has open;                       *)
(*   call   "poll" while exynos_gsc_wait_done waits for a frame;           *)
(*   last   the library call that returned last, and what it returned.     *)
(***************************************************************************)
EXTENDS Integers, Vb2

CONSTANTS Counts,   \* values callers give to reqBufCnt
          MaxFbs,   \* bound on the descriptors of fb1 (creations explored)
          Faults    \* the driver calls that may fail for reasons of their own

FaultKinds == {"open", "setup", "reqbufs", "qbuf", "dqbuf", "streamon",
               "streamoff", "vsync"}

ASSUME CountsAssumption == Counts \subseteq Nat \ {0} /\ Counts # {}
ASSUME MaxFbsAssumption == MaxFbs \in Nat \ {0}
ASSUME FaultsAssumption == Faults \subseteq FaultKinds

VARIABLES live, dst, cq, vsync, fbs, call, last

vars == <<live, dst, cq, vsync, fbs, call, last>>

Ops == {"none", "create", "destroy", "config", "run", "wait", "stop", "just_stop"}

ZeroDst == [stream_on |-> FALSE, buf_idx |-> 0, req |-> 0]

Returns(op, r) == last' = [op |-> op, ret |-> r]

Idle == live /\ call = "none"
-----------------------------------------------------------------------------
\* m_exynos_gsc_cap_create opens fb1 last; a failure before that leaves
\* nothing, a handle that was made holds one descriptor of fb1.
Create ==
  /\ ~live
  /\ fbs < MaxFbs
  /\ \/ live' = TRUE /\ fbs' = fbs + 1 /\ Returns("create", 0)
     \/ "open" \in Faults /\ live' = FALSE /\ Returns("create", -1) /\ UNCHANGED fbs
  /\ dst' = ZeroDst
  /\ cq' = Fresh
  /\ UNCHANGED <<vsync, call>>

\* What exynos_gsc_cap_stop does to the vsync interrupt: nothing when the flag
\* is down, and it may fail.
VsyncOff(ok) == IF dst.stream_on /\ ok THEN FALSE ELSE vsync

\* exynos_gsc_destroy: cap_stop when the flag is up; closing the video node
\* ends the stream.  fb_fd is never closed.
Destroy ==
  /\ Idle
  /\ live' = FALSE
  /\ dst' = ZeroDst
  /\ cq' = Fresh
  /\ \E ok \in {TRUE} \cup {b \in {FALSE} : "vsync" \in Faults} : vsync' = VsyncOff(ok)
  /\ Returns("destroy", 0)
  /\ UNCHANGED <<fbs, call>>
-----------------------------------------------------------------------------
\* exynos_gsc_cap_config copies the image, reqBufCnt with it, before anything
\* can fail; the scale check comes before buf_idx is reset.
Config(n) ==
  /\ Idle
  /\ IF dst.stream_on
     THEN UNCHANGED <<dst, cq>> /\ Returns("config", -1)
     ELSE \/ dst' = [dst EXCEPT !.req = n] /\ UNCHANGED cq /\ Returns("config", -1)
          \/ /\ "setup" \in Faults \/ "reqbufs" \in Faults \/ ~CanReqbufs(cq)
             /\ dst' = [dst EXCEPT !.req = n, !.buf_idx = 0]
             /\ UNCHANGED cq
             /\ Returns("config", -1)
          \/ /\ CanReqbufs(cq)
             /\ dst' = [dst EXCEPT !.req = n, !.buf_idx = 0]
             /\ cq' = Reqbufs(cq, n)
             /\ Returns("config", 0)
  /\ UNCHANGED <<live, vsync, fbs, call>>
-----------------------------------------------------------------------------
Wrap(i) == i % dst.req

\* Streaming starts once all the buffers asked for are queued.
StartsNow == ~dst.stream_on /\ dst.buf_idx + 1 = dst.req

\* Slip: buf_idx moves on before QBUF is known to have worked.
RunRefusedAdvances ==
  /\ dst' = [dst EXCEPT !.buf_idx = IF dst.req = 0 THEN 0 ELSE Wrap(@ + 1)]
  /\ UNCHANGED <<cq, vsync>>
  /\ Returns("run", -1)

RunRefused ==
  /\ UNCHANGED <<dst, cq, vsync>>
  /\ Returns("run", -1)

RunQueues ==
  /\ CanQbuf(cq, dst.buf_idx)
  /\ ~StartsNow
  /\ dst' = [dst EXCEPT !.buf_idx = Wrap(@ + 1)]
  /\ cq' = Qbuf(cq, dst.buf_idx)
  /\ Returns("run", 0)
  /\ UNCHANGED vsync

RunStarts ==
  /\ CanQbuf(cq, dst.buf_idx)
  /\ StartsNow
  /\ CanStreamon(cq)
  /\ dst' = [dst EXCEPT !.stream_on = TRUE, !.buf_idx = Wrap(@ + 1)]
  /\ cq' = Streamon(Qbuf(cq, dst.buf_idx))
  /\ vsync' = TRUE
  /\ Returns("run", 0)

\* STREAMON fails: buf_idx stays beyond the ring.
RunStartFails ==
  /\ CanQbuf(cq, dst.buf_idx)
  /\ StartsNow
  /\ "streamon" \in Faults \/ ~CanStreamon(cq)
  /\ dst' = [dst EXCEPT !.buf_idx = @ + 1]
  /\ cq' = Qbuf(cq, dst.buf_idx)
  /\ Returns("run", -1)
  /\ UNCHANGED vsync

\* The stream runs but the vsync interrupt is refused: the same.
RunVsyncFails ==
  /\ CanQbuf(cq, dst.buf_idx)
  /\ StartsNow
  /\ CanStreamon(cq)
  /\ "vsync" \in Faults
  /\ dst' = [dst EXCEPT !.stream_on = TRUE, !.buf_idx = @ + 1]
  /\ cq' = Streamon(Qbuf(cq, dst.buf_idx))
  /\ Returns("run", -1)
  /\ UNCHANGED vsync

\* Modulo by reqBufCnt happens only after a QBUF that the driver took.
Run ==
  /\ Idle
  /\ RunRefused \/ RunQueues \/ RunStarts \/ RunStartFails \/ RunVsyncFails
  /\ UNCHANGED <<live, fbs, call>>
-----------------------------------------------------------------------------
\* exynos_gsc_cap_wait_frame_done: poll for a frame, GSC_CAP_TIMEOUT at most.
Wait ==
  /\ Idle
  /\ call' = "poll"
  /\ UNCHANGED <<live, dst, cq, vsync, fbs, last>>

\* A queue that does not stream polls ready with POLLERR, and DQBUF fails.
WaitEnds(r) == call' = "none" /\ Returns("wait", r)

WaitReturns ==
  /\ call = "poll"
  /\ CanDqbuf(cq)
  /\ \/ cq' = Dqbuf(cq) /\ WaitEnds(0)
     \/ "dqbuf" \in Faults /\ WaitEnds(-1) /\ UNCHANGED cq
  /\ UNCHANGED <<live, dst, vsync, fbs>>

WaitTimesOut ==
  /\ call = "poll"
  /\ ~CanDqbuf(cq)
  /\ WaitEnds(-1)
  /\ UNCHANGED <<live, dst, cq, vsync, fbs>>
-----------------------------------------------------------------------------
\* Slip: the flag stays up.
ForgottenKeepsFlag == [dst EXCEPT !.buf_idx = 0]

\* exynos_gsc_cap_stop and _streamoff lower the flag before anything can fail.
Forgotten == [dst EXCEPT !.stream_on = FALSE, !.buf_idx = 0]

\* Slip: the answer of REQBUFS is not looked at.
StopSkipsUnchecked ==
  /\ ~dst.stream_on
  /\ UNCHANGED vsync
  /\ cq' = IF CanReqbufs(cq) THEN Reqbufs(cq, 0) ELSE cq
  /\ Returns("stop", 0)

StopSkips ==
  /\ ~dst.stream_on
  /\ UNCHANGED vsync
  /\ \/ CanReqbufs(cq) /\ cq' = Reqbufs(cq, 0) /\ Returns("stop", 0)
     \/ /\ "reqbufs" \in Faults \/ ~CanReqbufs(cq)
        /\ UNCHANGED cq /\ Returns("stop", -1)

\* The vsync ioctl first, then STREAMOFF, then REQBUFS(0).
StopStreams ==
  /\ dst.stream_on
  /\ \/ "vsync" \in Faults /\ UNCHANGED <<vsync, cq>> /\ Returns("stop", -1)
     \/ /\ vsync' = VsyncOff(TRUE)
        /\ \/ "streamoff" \in Faults /\ UNCHANGED cq /\ Returns("stop", -1)
           \/ "reqbufs" \in Faults /\ cq' = Streamoff(cq) /\ Returns("stop", -1)
           \/ cq' = Reqbufs(Streamoff(cq), 0) /\ Returns("stop", 0)

Stop ==
  /\ Idle
  /\ dst' = Forgotten
  /\ StopSkips \/ StopStreams
  /\ UNCHANGED <<live, fbs, call>>

\* exynos_gsc_cap_streamoff does not touch the vsync interrupt.
JustStop ==
  /\ Idle
  /\ dst' = Forgotten
  /\ \/ ~dst.stream_on /\ UNCHANGED cq /\ Returns("just_stop", 0)
     \/ dst.stream_on /\ cq' = Streamoff(cq) /\ Returns("just_stop", 0)
     \/ /\ dst.stream_on /\ "streamoff" \in Faults
        /\ UNCHANGED cq /\ Returns("just_stop", -1)
  /\ UNCHANGED <<live, vsync, fbs, call>>
-----------------------------------------------------------------------------
\* The display controller sends a frame.
Complete ==
  /\ CanFinish(cq, 0)
  /\ cq' = Finish(cq)
  /\ UNCHANGED <<live, dst, vsync, fbs, call, last>>

Init ==
  /\ live = FALSE
  /\ dst = ZeroDst
  /\ cq = Fresh
  /\ vsync = FALSE
  /\ fbs = 0
  /\ call = "none"
  /\ last = [op |-> "none", ret |-> 0]

Next ==
  \/ Create \/ Destroy \/ Run \/ Wait \/ WaitReturns \/ WaitTimesOut
  \/ Stop \/ JustStop \/ Complete
  \/ \E n \in Counts : Config(n)

Spec == Init /\ [][Next]_vars
-----------------------------------------------------------------------------
(* Properties. *)

\* While a start that succeeded completely is in force, the driver refuses
\* the next index of the ring only when it holds all reqBufCnt buffers.
RefusedOnlyWhenFull ==
  dst.stream_on /\ dst.buf_idx < dst.req /\ ~CanQbuf(cq, dst.buf_idx)
    => Len(cq.fifo) >= dst.req

Promise == INSTANCE Stream WITH made <- live, flag <- dst.stream_on,
                                running <- cq.on, queued <- Len(cq.fifo)

\* The capture handle keeps what Stream promises its users, although its
\* stream starts in two steps (STREAMON, the vsync interrupt) and ends in three.
Implements == Promise!Spec
=============================================================================
