------------------------------- MODULE GscM2M -------------------------------
(***************************************************************************)
(* The gscaler handle in GSC_M2M_MODE (libgscaler/exynos_gscaler.c): one   *)
(* frame goes memory to memory through two driver queues, the source and   *)
(* the destination, one ioctl after the other.                             *)
(*                                                                         *)
(* A handle made by exynos_gsc_create is shared: its threads call          *)
(* exynos_gsc_convert and the setters, all under op_mutex.  A handle made  *)
(* by exynos_gsc_create_exclusive has one caller, who runs and waits       *)
(* without the mutex.                                                      *)
(*                                                                         *)
(*   dev    the scaler the handle opened, NoDev while there is no handle;  *)
(*   excl   the handle was made by exynos_gsc_create_exclusive;            *)
(*   lock   the holder of op_mutex;                                        *)
(*   pc     where each thread is: the next ioctl, or "idle";               *)
(*   on     handle->src.stream_on and handle->dst.stream_on;               *)
(*   q      the driver's two queues;                                       *)
(*   geom   the width and colour format the setters left in the handle;    *)
(*   fmt    the format the driver was given for the running conversion;    *)
(*   ret    what each thread's last call returned.                         *)
(***************************************************************************)
EXTENDS Integers, Vb2

CONSTANTS Threads,   \* the threads that share the handle
          Caller,    \* the one that owns it when it is exclusive
          Geoms,     \* geometries a setter may choose
          Loads,     \* how many contexts a scaler may be serving
          Faults     \* the driver calls that may fail for reasons of their own

FaultKinds == {"open", "setup", "ctrl", "reqbufs", "qbuf", "dqbuf",
               "streamon", "streamoff"}

NoThread == "no thread"
NoDev == -1

ASSUME ThreadsAssumption == Caller \in Threads /\ NoThread \notin Threads
ASSUME GeomsAssumption == Geoms # {}
ASSUME LoadsAssumption == Loads \subseteq Nat
ASSUME FaultsAssumption == Faults \subseteq FaultKinds

VARIABLES dev, excl, lock, pc, on, q, geom, fmt, ret

vars == <<dev, excl, lock, pc, on, q, geom, fmt, ret>>

Sides == {"src", "dst"}

\* The places of a thread: exynos_gsc_m2m_run_core up to "on_dst", and
\* exynos_gsc_m2m_wait_frame_done from "wait" on.
Program ==
  <<"off_src", "fmt_src", "off_dst", "fmt_dst", "q_src", "q_dst", "csc", "on_src",
    "on_dst", "wait", "dq_src", "dq_dst", "end_src", "end_dst", "free_src", "free_dst">>

\* The place after p.
After(p) == LET k == CHOOSE k \in DOMAIN Program : Program[k] = p
            IN  IF k = Len(Program) THEN "idle" ELSE Program[k + 1]
-----------------------------------------------------------------------------
\* GSC_M2M_MAX_CTX_CNT, the load m_exynos_get_gsc_idx gives to a scaler it
\* must not use: 0 and 3 serve the local paths, the others when they do not
\* answer.
MaxLoad == 100

Reserved == {0, 3}

\* m_exynos_get_gsc_idx: the least loaded scaler, the highest index first.
PickDev(load) ==
  LET best == CHOOSE i \in 0 .. 3 :
                 /\ \A j \in 0 .. 3 : load[i] <= load[j]
                 /\ \A j \in 0 .. 3 : load[j] = load[i] => j <= i
  IN  IF load[best] = MaxLoad THEN NoDev ELSE best

\* What the scalers answer when they are asked for their load.
Answers == {load \in [0 .. 3 -> Loads \cup {MaxLoad}] :
               \A i \in Reserved : load[i] = MaxLoad}

FreshHandle ==
  /\ on' = [s \in Sides |-> FALSE]
  /\ q' = [s \in Sides |-> Fresh]

\* exynos_gsc_create; creation fails when no scaler can be used or opened.
Create ==
  /\ dev = NoDev
  /\ \E load \in Answers :
        dev' \in {PickDev(load)} \cup {d \in {NoDev} : "open" \in Faults}
  /\ excl' = FALSE
  /\ FreshHandle
  /\ UNCHANGED <<lock, pc, geom, fmt, ret>>

\* exynos_gsc_create_exclusive in GSC_M2M_MODE: the caller names the scaler.
CreateExclusive ==
  /\ dev = NoDev
  /\ dev' \in 0 .. 3
  /\ excl' = TRUE
  /\ FreshHandle
  /\ UNCHANGED <<lock, pc, geom, fmt, ret>>

\* exynos_gsc_destroy: STREAMOFF for the sides whose flag is up, and close.
\* It takes op_mutex; its caller has no other call under way.
Destroy ==
  /\ dev # NoDev
  /\ lock = NoThread
  /\ \A t \in Threads : pc[t] = "idle"
  /\ dev' = NoDev
  /\ FreshHandle
  /\ UNCHANGED <<excl, lock, pc, geom, fmt, ret>>
-----------------------------------------------------------------------------

\* Slip: an error path of exynos_gsc_convert that does not unlock.
ReturnKeepsLock(t, r) ==
  /\ pc' = [pc EXCEPT ![t] = "idle"]
  /\ lock' = IF lock = t /\ r = 0 THEN NoThread ELSE lock
  /\ ret' = [ret EXCEPT ![t] = r]

\* A call of thread t returns r; exynos_gsc_convert unlocks on every path.
Return(t, r) ==
  /\ pc' = [pc EXCEPT ![t] = "idle"]
  /\ lock' = IF lock = t THEN NoThread ELSE lock
  /\ ret' = [ret EXCEPT ![t] = r]

Fail(t) == Return(t, -1) /\ UNCHANGED <<dev, excl, geom>>

\* The last step of the run ends an exclusive run; a conversion goes on to
\* the wait.
EndsCall(p) == p = "free_dst" \/ (excl /\ p = "on_dst")

Goto(t, p) ==
  /\ IF EndsCall(p)
     THEN Return(t, 0)
     ELSE pc' = [pc EXCEPT ![t] = After(p)] /\ UNCHANGED <<lock, ret>>
  /\ UNCHANGED <<dev, excl, geom>>

Starts(t, p) ==
  /\ pc[t] = "idle"
  /\ pc' = [pc EXCEPT ![t] = p]
  /\ UNCHANGED <<dev, excl, on, q, geom, fmt, ret>>

\* exynos_gsc_convert: the whole conversion is under op_mutex.
Convert(t) ==
  /\ dev # NoDev /\ ~excl
  /\ lock = NoThread
  /\ lock' = t
  /\ Starts(t, "off_src")

\* exynos_gsc_run_exclusive and exynos_gsc_wait_done: no mutex.
RunExclusive(t) ==
  /\ dev # NoDev /\ excl /\ t = Caller
  /\ UNCHANGED lock
  /\ Starts(t, "off_src")

WaitDone(t) ==
  /\ dev # NoDev /\ excl /\ t = Caller
  /\ UNCHANGED lock
  /\ Starts(t, "wait")

\* Slip: a setter that does not take op_mutex.
SetFormatUnlocked(t) ==
  /\ dev # NoDev /\ (excl => t = Caller)
  /\ pc[t] = "idle"
  /\ \E s \in Sides, g \in Geoms : geom' = [geom EXCEPT ![s] = g]
  /\ UNCHANGED <<dev, excl, lock, pc, on, q, fmt, ret>>

\* exynos_gsc_set_src_format and _dst_format: the handle changes under the
\* mutex, in a critical section of their own.
SetFormat(t) ==
  /\ dev # NoDev /\ (excl => t = Caller)
  /\ pc[t] = "idle"
  /\ lock = NoThread
  /\ \E s \in Sides, g \in Geoms : geom' = [geom EXCEPT ![s] = g]
  /\ UNCHANGED <<dev, excl, lock, pc, on, q, fmt, ret>>
-----------------------------------------------------------------------------
At(t, s, src, dst) == pc[t] = IF s = "src" THEN src ELSE dst

\* m_exynos_gsc_check_size refuses a geometry before the first ioctl.
BadSize(t) ==
  /\ pc[t] = "off_src"
  /\ Fail(t)
  /\ UNCHANGED <<on, q, fmt>>

\* Slip: only the source side is stopped before its format is set.
FormatOffSrcOnly(t, s) ==
  /\ At(t, s, "off_src", "off_dst")
  /\ IF on[s] /\ s = "src"
     THEN q' = [q EXCEPT ![s] = Streamoff(@)] /\ on' = [on EXCEPT ![s] = FALSE]
     ELSE UNCHANGED <<on, q>>
  /\ Goto(t, pc[t])
  /\ UNCHANGED fmt

\* m_exynos_gsc_set_format: a side left streaming by a failed wait is stopped.
FormatOff(t, s) ==
  /\ At(t, s, "off_src", "off_dst")
  /\ \/ ~on[s] /\ Goto(t, pc[t]) /\ UNCHANGED <<on, q>>
     \/ /\ on[s]
        /\ q' = [q EXCEPT ![s] = Streamoff(@)]
        /\ on' = [on EXCEPT ![s] = FALSE]
        /\ Goto(t, pc[t])
     \/ on[s] /\ "streamoff" \in Faults /\ Fail(t) /\ UNCHANGED <<on, q>>
  /\ UNCHANGED fmt

\* The rest of m_exynos_gsc_set_format: controls, S_FMT, crop, REQBUFS(1).
Format(t, s) ==
  /\ At(t, s, "fmt_src", "fmt_dst")
  /\ \/ /\ CanReqbufs(q[s])
        /\ q' = [q EXCEPT ![s] = Reqbufs(@, 1)]
        /\ fmt' = [fmt EXCEPT ![s] = geom[s]]
        /\ Goto(t, pc[t])
     \/ /\ "setup" \in Faults \/ "reqbufs" \in Faults \/ ~CanReqbufs(q[s])
        /\ fmt' \in {fmt, [fmt EXCEPT ![s] = geom[s]]}
        /\ UNCHANGED q
        /\ Fail(t)
  /\ UNCHANGED on

\* m_exynos_gsc_set_addr: the only buffer, with the plane sizes of geom.
Queue(t, s) ==
  /\ At(t, s, "q_src", "q_dst")
  /\ \/ CanQbuf(q[s], 0) /\ q' = [q EXCEPT ![s] = Qbuf(@, 0)] /\ Goto(t, pc[t])
     \/ ("qbuf" \in Faults \/ ~CanQbuf(q[s], 0)) /\ Fail(t) /\ UNCHANGED q
  /\ UNCHANGED <<on, fmt>>

\* The colour-space controls return without the clean-up label.
Csc(t) ==
  /\ pc[t] = "csc"
  /\ Goto(t, pc[t]) \/ ("ctrl" \in Faults /\ Fail(t))
  /\ UNCHANGED <<on, q, fmt>>

\* STREAMON unless the flag is up; the flag follows the answer.
StreamUp(t, s) ==
  /\ At(t, s, "on_src", "on_dst")
  /\ \/ on[s] /\ Goto(t, pc[t]) /\ UNCHANGED <<on, q>>
     \/ /\ ~on[s] /\ CanStreamon(q[s])
        /\ q' = [q EXCEPT ![s] = Streamon(@)]
        /\ on' = [on EXCEPT ![s] = TRUE]
        /\ Goto(t, pc[t])
     \/ /\ ~on[s] /\ ("streamon" \in Faults \/ ~CanStreamon(q[s]))
        /\ Fail(t)
        /\ UNCHANGED <<on, q>>
  /\ UNCHANGED fmt
-----------------------------------------------------------------------------
\* exynos_gsc_m2m_wait_frame_done returns at once unless both sides stream.
WaitCheck(t) ==
  /\ pc[t] = "wait"
  /\ IF on["src"] /\ on["dst"] THEN Goto(t, pc[t]) ELSE Fail(t)
  /\ UNCHANGED <<on, q, fmt>>

\* DQBUF blocks until the scaler is done.
Dequeue(t, s) ==
  /\ At(t, s, "dq_src", "dq_dst")
  /\ \/ CanDqbuf(q[s]) /\ q' = [q EXCEPT ![s] = Dqbuf(@)] /\ Goto(t, pc[t])
     \/ ~q[s].on /\ Fail(t) /\ UNCHANGED q
  /\ UNCHANGED <<on, fmt>>

\* DQBUF fails for the device's own reasons; nothing may count on that to get
\* out of a wait.
DequeueFails(t, s) ==
  /\ At(t, s, "dq_src", "dq_dst")
  /\ "dqbuf" \in Faults
  /\ Fail(t)
  /\ UNCHANGED <<on, q, fmt>>

StreamDown(t, s) ==
  /\ At(t, s, "end_src", "end_dst")
  /\ \/ /\ q' = [q EXCEPT ![s] = Streamoff(@)]
        /\ on' = [on EXCEPT ![s] = FALSE]
        /\ Goto(t, pc[t])
     \/ "streamoff" \in Faults /\ Fail(t) /\ UNCHANGED <<on, q>>
  /\ UNCHANGED fmt

Free(t, s) ==
  /\ At(t, s, "free_src", "free_dst")
  /\ \/ CanReqbufs(q[s]) /\ q' = [q EXCEPT ![s] = Reqbufs(@, 0)] /\ Goto(t, pc[t])
     \/ ("reqbufs" \in Faults \/ ~CanReqbufs(q[s])) /\ Fail(t) /\ UNCHANGED q
  /\ UNCHANGED <<on, fmt>>

\* The scaler works when both sides stream and have a buffer; it finishes the
\* two together.
Scale ==
  /\ \A s \in Sides : CanFinish(q[s], 0)
  /\ q' = [s \in Sides |-> Finish(q[s])]
  /\ UNCHANGED <<dev, excl, lock, pc, on, geom, fmt, ret>>
-----------------------------------------------------------------------------
Init ==
  /\ dev = NoDev
  /\ excl = FALSE
  /\ lock = NoThread
  /\ pc = [t \in Threads |-> "idle"]
  /\ on = [s \in Sides |-> FALSE]
  /\ q = [s \in Sides |-> Fresh]
  /\ geom \in [Sides -> Geoms]
  /\ fmt = geom
  /\ ret = [t \in Threads |-> 0]

\* A thread that is inside a call goes on.
Work(t) ==
  \/ BadSize(t) \/ Csc(t) \/ WaitCheck(t)
  \/ \E s \in Sides : \/ FormatOff(t, s) \/ Format(t, s) \/ Queue(t, s)
                      \/ StreamUp(t, s) \/ Dequeue(t, s) \/ StreamDown(t, s)
                      \/ Free(t, s)

Calls(t) == Convert(t) \/ RunExclusive(t) \/ WaitDone(t) \/ SetFormat(t)

Next ==
  \/ Create \/ CreateExclusive \/ Destroy \/ Scale
  \/ \E t \in Threads : Calls(t) \/ Work(t) \/ \E s \in Sides : DequeueFails(t, s)

Spec == Init /\ [][Next]_vars

\* The scheduler runs a thread that is inside a call, and the scaler works.
Fairness == WF_vars(Scale) /\ \A t \in Threads : WF_vars(Work(t))

FairSpec == Spec /\ Fairness
-----------------------------------------------------------------------------
(* Properties. *)

\* A conversion is never refused because of what an earlier, failed one left
\* behind: the driver can take each call of run_core and of the wait when its
\* turn comes.  Only a failure of the device itself makes a call fail.
NeverRefused ==
  \A t \in Threads, s \in Sides :
    /\ At(t, s, "fmt_src", "fmt_dst") => CanReqbufs(q[s])
    /\ At(t, s, "q_src", "q_dst") => CanQbuf(q[s], 0)
    /\ At(t, s, "on_src", "on_dst") => CanStreamon(q[s])
    /\ At(t, s, "free_src", "free_dst") => CanReqbufs(q[s])

\* The plane sizes m_exynos_gsc_set_addr computes from the handle are those of
\* the format the driver was given: no setter gets between the two.
PlanesFitFormat ==
  \A t \in Threads, s \in Sides : At(t, s, "q_src", "q_dst") => fmt[s] = geom[s]

\* A conversion that was started returns, and op_mutex is released, on every
\* path, as long as the scaler works.
ConvertReturns == \A t \in Threads : lock = t ~> lock # t
=============================================================================
