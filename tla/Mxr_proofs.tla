----------------------------- MODULE Mxr_proofs -----------------------------
(***************************************************************************)
(* Proofs about Mxr for every number N >= 3 of buffers, every display,     *)
(* either kind of mutex and every choice of driver calls that may fail:    *)
(* the ring of a layer stays in step with the driver's queue, and the      *)
(* handle implements Stream.                                               *)
(*                                                                         *)
(* The argument is GscOut's, for a ring that a configuration can cut:      *)
(* everything said of the order holds of a ring that is whole.             *)
(*                                                                         *)
(* Then proofs about Hdmi, the object that drives two such layers and two  *)
(* scalers, for every set of resolutions and every choice of calls that    *)
(* may fail: what it holds, remembers and shows.                           *)
(***************************************************************************)
EXTENDS Mxr, Hdmi, TLAPS

USE NAssumption, HoldAssumption, FaultsAssumption

Handles == [stream_on : BOOLEAN, buf_idx : Indices, qbuf_cnt : 0 .. N]
Queues == [on : BOOLEAN, count : {0, N}, fifo : Seq(Indices), ndone : Nat]

Typed ==
  /\ live \in BOOLEAN
  /\ cut \in BOOLEAN
  /\ mx \in Handles
  /\ mq \in Queues
  /\ mq.ndone <= Len(mq.fifo)

\* A stopped driver holds the first indices of the ring, and i is the next one
\* or was reset.
FromZero(q, i) ==
  /\ q.ndone = 0
  /\ Len(q.fifo) <= N
  /\ \A k \in 1 .. Len(q.fifo) : q.fifo[k] = k - 1
  /\ i # 0 => i = Len(q.fifo)

\* The ring index d places before i.
Back(i, d) == IF i - d >= 0 THEN i - d ELSE i - d + N

\* The driver holds the indices just before i, oldest first.
Behind(q, i) ==
  /\ Len(q.fifo) <= N
  /\ \A k \in 1 .. Len(q.fifo) : q.fifo[k] = Back(i, Len(q.fifo) + 1 - k)

\* A stream the flag knows of runs.
FlagTrue == mx.stream_on => mq.on

\* Of a ring no configuration has cut.
Whole ==
  ~cut => /\ ~mq.on => FromZero(mq, mx.buf_idx)
          /\ mx.stream_on => mq.count = N /\ Behind(mq, mx.buf_idx)

\* The inductive invariant.
IInv == Typed /\ FlagTrue /\ Whole

-----------------------------------------------------------------------------
\* The queue's operations, on a typed queue.
LEMMA QueueOps ==
  ASSUME NEW q \in Queues, NEW n \in {0, N}
  PROVE  /\ Fresh \in Queues /\ Fresh.fifo = <<>> /\ Fresh.ndone = 0 /\ Fresh.on = FALSE
         /\ Reqbufs(q, n) \in Queues /\ Reqbufs(q, n).fifo = <<>>
         /\ Reqbufs(q, n).ndone = 0 /\ Reqbufs(q, n).on = q.on
         /\ Streamoff(q) \in Queues /\ Streamoff(q).fifo = <<>>
         /\ Streamoff(q).ndone = 0 /\ Streamoff(q).on = FALSE
<1>1. Fresh \in Queues /\ Fresh.fifo = <<>> /\ Fresh.ndone = 0 /\ Fresh.on = FALSE
  BY DEF Fresh, Queues
<1>2. /\ Reqbufs(q, n) \in Queues /\ Reqbufs(q, n).fifo = <<>>
      /\ Reqbufs(q, n).ndone = 0 /\ Reqbufs(q, n).on = q.on
  BY DEF Reqbufs, Queues
<1>3. /\ Streamoff(q) \in Queues /\ Streamoff(q).fifo = <<>>
      /\ Streamoff(q).ndone = 0 /\ Streamoff(q).on = FALSE
  BY DEF Streamoff, Queues
<1> QED BY <1>1, <1>2, <1>3

\* QBUF of an index.
LEMMA QbufValue ==
  ASSUME NEW q \in Queues, NEW i \in Indices
  PROVE  /\ Qbuf(q, i) \in Queues
         /\ Qbuf(q, i).fifo = Append(q.fifo, i) /\ Len(Qbuf(q, i).fifo) = Len(q.fifo) + 1
         /\ Qbuf(q, i).ndone = q.ndone /\ Qbuf(q, i).on = q.on /\ Qbuf(q, i).count = q.count
<1>1. /\ Qbuf(q, i) \in Queues /\ Qbuf(q, i).fifo = Append(q.fifo, i)
      /\ Qbuf(q, i).ndone = q.ndone /\ Qbuf(q, i).on = q.on /\ Qbuf(q, i).count = q.count
  BY DEF Qbuf, Queues
<1>2. Len(Append(q.fifo, i)) = Len(q.fifo) + 1
  BY DEF Queues
<1> QED BY <1>1, <1>2

LEMMA NextIdxValue ==
  ASSUME NEW i \in Indices
  PROVE  /\ NextIdx(i) = IF i + 1 = N THEN 0 ELSE i + 1
         /\ NextIdx(i) \in Indices
<1>1. CASE i + 1 = N
  BY <1>1 DEF NextIdx, Indices
<1>2. CASE i + 1 # N
  BY <1>2 DEF NextIdx, Indices
<1> QED BY <1>1, <1>2

\* A stopped queue takes only the index after its last.
LEMMA QbufFromZero ==
  ASSUME NEW q \in Queues, NEW i \in Indices, FromZero(q, i), CanQbuf(q, i)
  PROVE  /\ Len(q.fifo) = i
         /\ \A k \in 1 .. i + 1 : Append(q.fifo, i)[k] = k - 1
<1> DEFINE f == q.fifo
<1>1. f \in Seq(Indices) /\ Len(f) \in Nat
  BY DEF Queues
<1>2. \A k \in 1 .. Len(f) : f[k] = k - 1
  BY DEF FromZero
<1>3. Len(f) = i
  <2>1. CASE i # 0
    BY <2>1 DEF FromZero
  <2>2. CASE i = 0
    <3>1. \A k \in 1 .. Len(f) : f[k] # 0
      BY <2>2, <1>1 DEF CanQbuf, Outstanding
    <3>2. ~(Len(f) >= 1)
      BY <1>1, <1>2, <3>1
    <3> QED BY <1>1, <3>2, <2>2
  <2> QED BY <2>1, <2>2
<1>4. \A k \in 1 .. i + 1 : Append(f, i)[k] = k - 1
  BY <1>1, <1>2, <1>3 DEF Indices
<1> QED BY <1>3, <1>4

\* A running queue that takes i lacks one, and has the ring's order after it.
LEMMA QbufBehind ==
  ASSUME NEW q \in Queues, NEW i \in Indices, Behind(q, i), CanQbuf(q, i)
  PROVE  Behind(Qbuf(q, i), NextIdx(i))
<1> DEFINE f == q.fifo
<1>1. f \in Seq(Indices) /\ Len(f) \in Nat
  BY DEF Queues
<1>2. Len(f) <= N /\ \A k \in 1 .. Len(f) : f[k] = Back(i, Len(f) + 1 - k)
  BY DEF Behind
<1>3. Len(f) < N
  <2> SUFFICES ASSUME Len(f) = N PROVE FALSE
    BY <1>1, <1>2
  <2>1. f[1] = Back(i, N)
    BY <1>2
  <2>2. Back(i, N) = i
    BY <1>1 DEF Back, Indices
  <2>3. f[1] \in Outstanding(q)
    BY <1>1 DEF Outstanding
  <2> QED BY <2>1, <2>2, <2>3 DEF CanQbuf
<1>4. Qbuf(q, i).fifo = Append(f, i) /\ Len(Append(f, i)) = Len(f) + 1
  BY <1>1, QbufValue
<1>5. ASSUME NEW k \in 1 .. Len(f) + 1
      PROVE  Append(f, i)[k] = Back(NextIdx(i), Len(f) + 2 - k)
  <2>1. NextIdx(i) = IF i + 1 = N THEN 0 ELSE i + 1
    BY NextIdxValue
  <2>2. CASE k = Len(f) + 1
    <3>1. Append(f, i)[k] = i
      BY <1>1, <2>2
    <3>2. Back(NextIdx(i), 1) = i
      BY <2>1 DEF Back, Indices
    <3> QED BY <1>1, <2>2, <3>1, <3>2
  <2>3. CASE k \in 1 .. Len(f)
    <3>1. Append(f, i)[k] = Back(i, Len(f) + 1 - k)
      BY <1>1, <1>2, <2>3
    <3>2. Len(f) + 1 - k \in 1 .. N - 1 /\ Len(f) + 2 - k = (Len(f) + 1 - k) + 1
      BY <1>1, <1>3, <2>3
    <3>3. \A d \in 1 .. N - 1 : Back(NextIdx(i), d + 1) = Back(i, d)
      BY <2>1 DEF Back, Indices
    <3> QED BY <3>1, <3>2, <3>3
  <2> QED BY <1>1, <2>2, <2>3
<1>6. Len(Qbuf(q, i).fifo) <= N
  BY <1>1, <1>3, <1>4, NAssumption
<1>7. ASSUME NEW k \in 1 .. Len(Qbuf(q, i).fifo)
      PROVE  Qbuf(q, i).fifo[k] = Back(NextIdx(i), Len(Qbuf(q, i).fifo) + 1 - k)
  <2>1. k \in 1 .. Len(f) + 1
    BY <1>4, <1>7
  <2>2. Len(Qbuf(q, i).fifo) + 1 - k = Len(f) + 2 - k
    BY <1>1, <1>4, <2>1
  <2> QED BY <1>4, <1>5, <2>1, <2>2
<1> QED
  BY <1>6, <1>7 DEF Behind

\* Taking the oldest buffer back keeps the ring's order.
LEMMA TailBehind ==
  ASSUME NEW f \in Seq(Indices), f # <<>>, NEW i \in Indices,
         \A k \in 1 .. Len(f) : f[k] = Back(i, Len(f) + 1 - k)
  PROVE  /\ Len(Tail(f)) = Len(f) - 1
         /\ \A k \in 1 .. Len(f) - 1 : Tail(f)[k] = Back(i, (Len(f) - 1) + 1 - k)
<1>1. Len(Tail(f)) = Len(f) - 1 /\ \A k \in 1 .. Len(f) - 1 : Tail(f)[k] = f[k + 1]
  OBVIOUS
<1>2. \A n \in Nat : \A j \in 1 .. n - 1 : /\ j + 1 \in 1 .. n
                                           /\ n + 1 - (j + 1) = (n - 1) + 1 - j
  OBVIOUS
<1>3. \A k \in 1 .. Len(f) - 1 : /\ k + 1 \in 1 .. Len(f)
                                 /\ Len(f) + 1 - (k + 1) = (Len(f) - 1) + 1 - k
  BY <1>2
<1> QED BY <1>1, <1>3
-----------------------------------------------------------------------------
LEMMA InitInv == Init => IInv
<1> SUFFICES ASSUME Init PROVE IInv
  OBVIOUS
<1>1. mx = ZeroMx /\ mq = Fresh /\ live = FALSE /\ cut = FALSE
  BY DEF Init
<1>2. Fresh \in Queues /\ Fresh.fifo = <<>> /\ Fresh.ndone = 0
  BY DEF Fresh, Queues
<1>3. mx \in Handles /\ mx.stream_on = FALSE /\ mx.buf_idx = 0
  BY <1>1 DEF ZeroMx, Handles, Indices
<1>4. Len(mq.fifo) = 0
  BY <1>1, <1>2
<1>5. FromZero(mq, mx.buf_idx)
  BY <1>1, <1>2, <1>3, <1>4 DEF FromZero
<1>6. mq \in Queues /\ mq.ndone <= Len(mq.fifo)
  BY <1>1, <1>2, <1>4
<1>7. Typed
  BY <1>1, <1>3, <1>6 DEF Typed
<1> QED
  BY <1>3, <1>5, <1>7 DEF IInv, FlagTrue, Whole

\* A call that gives the ring up, before or after it emptied the driver's queue.
LEMMA RestInv ==
  ASSUME IInv, live' \in BOOLEAN, mx' = ZeroMx, StillCut,
         mq' \in Queues, mq'.ndone <= Len(mq'.fifo), mq'.fifo = <<>> \/ mq' = mq
  PROVE  IInv'
<1>1. mx' \in Handles /\ mx'.stream_on = FALSE /\ mx'.buf_idx = 0
  BY DEF ZeroMx, Handles, Indices
<1>2. cut \in BOOLEAN /\ cut' = (cut /\ mq'.fifo # <<>>)
  BY DEF IInv, Typed, StillCut
<1>3. CASE mq'.fifo = <<>>
  <2>1. Len(mq'.fifo) = 0 /\ mq'.ndone = 0
    BY <1>3 DEF Queues
  <2>2. FromZero(mq', mx'.buf_idx)
    BY <1>1, <2>1 DEF FromZero
  <2> QED BY <1>1, <1>2, <2>2 DEF IInv, Typed, FlagTrue, Whole
<1>4. CASE mq'.fifo # <<>> /\ mq' = mq
  <2>1. ~cut /\ ~mq.on => FromZero(mq', mx'.buf_idx)
    BY <1>1, <1>4 DEF IInv, Whole, FromZero
  <2> QED BY <1>1, <1>2, <1>4, <2>1 DEF IInv, Typed, FlagTrue, Whole
<1> QED BY <1>3, <1>4

\* exynos_mxr_stop_n_clear empties the driver's queue or leaves it alone.
LEMMA StopNClearQueue ==
  ASSUME IInv, NEW r, StopNClear(r)
  PROVE  mq' \in Queues /\ mq'.ndone <= Len(mq'.fifo) /\ (mq'.fifo = <<>> \/ mq' = mq)
<1>1. mq \in Queues /\ mq.ndone <= Len(mq.fifo)
  BY DEF IInv, Typed
<1>2. \/ mq' = mq \/ mq' = Reqbufs(mq, 0)
      \/ mq' = Streamoff(mq) \/ mq' = Reqbufs(Streamoff(mq), 0)
  BY DEF StopNClear
<1>3. Streamoff(mq) \in Queues
  BY <1>1, QueueOps
<1>4. mq' = mq \/ (mq' \in Queues /\ mq'.fifo = <<>> /\ mq'.ndone = 0)
  BY <1>1, <1>2, <1>3, QueueOps
<1> QED BY <1>1, <1>4

LEMMA CreateInv == ASSUME IInv, Create PROVE IInv'
<1>1. mx' = ZeroMx /\ StillCut
  BY DEF Create
<1>2. live \in BOOLEAN /\ mq \in Queues /\ mq.ndone <= Len(mq.fifo)
  BY DEF IInv, Typed
<1>3. live' \in BOOLEAN /\ (mq' = mq \/ mq' = Fresh)
  BY <1>2 DEF Create, Created, CreateRefused, CreateFails, QueueFound
<1>4. mq' = mq \/ (mq' \in Queues /\ mq'.fifo = <<>> /\ mq'.ndone = 0)
  BY <1>2, <1>3, QueueOps
<1> QED BY <1>1, <1>2, <1>3, <1>4, RestInv

LEMMA DestroyInv == ASSUME IInv, Destroy PROVE IInv'
<1>1. CASE ~recursive
  BY <1>1 DEF Destroy, IInv, Typed, FlagTrue, Whole
<1>2. CASE recursive
  <2>1. mx' = ZeroMx /\ StillCut /\ live' \in BOOLEAN
    BY <1>2 DEF Destroy
  <2>2. mq \in Queues /\ mq.ndone <= Len(mq.fifo)
    BY DEF IInv, Typed
  <2>3. \/ mq' = Fresh \/ mq' = mq \/ \E r \in {-1, 0} : StopNClear(r)
    BY <1>2 DEF Destroy
  <2>4. mq' \in Queues /\ mq'.ndone <= Len(mq'.fifo) /\ (mq'.fifo = <<>> \/ mq' = mq)
    <3>1. CASE mq' = Fresh
      <4>1. mq' \in Queues /\ mq'.fifo = <<>> /\ mq'.ndone = 0
        BY <2>2, <3>1, QueueOps
      <4>2. Len(mq'.fifo) = 0
        BY <4>1
      <4> QED BY <4>1, <4>2
    <3>2. CASE mq' = mq
      BY <2>2, <3>2
    <3>3. CASE \E r \in {-1, 0} : StopNClear(r)
      BY <3>3, StopNClearQueue
    <3> QED BY <2>3, <3>1, <3>2, <3>3
  <2> QED BY <2>1, <2>4, RestInv
<1> QED BY <1>1, <1>2

\* A configuration drops the driver's frames: the ring goes on whole only if it
\* was at its beginning.
LEMMA ConfigInv == ASSUME IInv, Config PROVE IInv'
<1>1. live' = live /\ mx' = mx
  BY DEF Config
<1>2. CASE ConfigRefused \/ ConfigFails
  BY <1>1, <1>2 DEF ConfigRefused, ConfigFails, IInv, Typed, FlagTrue, Whole
<1>3. CASE ConfigDone
  <2>1. mq \in Queues /\ mx \in Handles /\ ~mx.stream_on
    BY <1>3 DEF ConfigDone, IInv, Typed
  <2>2. mq' \in Queues /\ mq'.fifo = <<>> /\ mq'.ndone = 0
    BY <1>3, <2>1, QueueOps DEF ConfigDone
  <2>3. cut' = (mx.buf_idx # 0)
    BY <1>3 DEF ConfigDone
  <2>4. Len(mq'.fifo) = 0
    BY <2>2
  <2>5. mx.buf_idx = 0 => FromZero(mq', mx'.buf_idx)
    BY <1>1, <2>2, <2>4 DEF FromZero
  <2>6. Typed'
    BY <1>1, <2>1, <2>2, <2>3, <2>4 DEF IInv, Typed
  <2> QED BY <1>1, <2>1, <2>3, <2>5, <2>6 DEF IInv, FlagTrue, Whole
<1> QED BY <1>2, <1>3 DEF Config
-----------------------------------------------------------------------------
LEMMA RunInv == ASSUME IInv, Run PROVE IInv'
<1> DEFINE i == mx.buf_idx
           q == Qbuf(mq, i)
<1>1. live' = live /\ cut' = cut
  BY DEF Run
<1>2. /\ mx \in Handles /\ i \in Indices /\ mx.stream_on \in BOOLEAN
      /\ mq \in Queues /\ Len(mq.fifo) \in Nat /\ mq.ndone \in Nat
      /\ mq.ndone <= Len(mq.fifo) /\ mq.on \in BOOLEAN /\ cut \in BOOLEAN
      /\ live \in BOOLEAN
  BY DEF IInv, Typed, Handles, Queues
<1>3. CountUp(mx.qbuf_cnt) \in 0 .. N
  BY <1>2 DEF CountUp, Handles
<1>4. /\ NextIdx(i) = (IF i + 1 = N THEN 0 ELSE i + 1)
      /\ NextIdx(i) \in Indices
  BY <1>2, NextIdxValue
<1>5. /\ q \in Queues /\ q.fifo = Append(mq.fifo, i) /\ Len(q.fifo) = Len(mq.fifo) + 1
      /\ q.ndone = mq.ndone /\ q.on = mq.on /\ q.count = mq.count
  BY <1>2, QbufValue
<1>6. q.ndone <= Len(q.fifo)
  BY <1>2, <1>5
<1>7. /\ FlagTrue
      /\ ~cut /\ ~mq.on => FromZero(mq, i)
      /\ ~cut /\ mx.stream_on => mq.count = N /\ Behind(mq, i)
  BY DEF IInv, Whole
<1>8. i + 1 <= N /\ i \in Nat
  BY <1>2 DEF Indices
\* Behind a stopped driver the queue grows by the next index.
<1>9. ASSUME ~cut, ~mq.on, CanQbuf(mq, i)
      PROVE  /\ Len(q.fifo) = i + 1
             /\ \A k \in 1 .. i + 1 : q.fifo[k] = k - 1
             /\ FromZero(q, i + 1) /\ FromZero(q, 0)
  <2>1. FromZero(mq, i)
    BY <1>7, <1>9
  <2>2. Len(mq.fifo) = i /\ \A k \in 1 .. i + 1 : Append(mq.fifo, i)[k] = k - 1
    BY <1>2, <1>9, <2>1, QbufFromZero
  <2>3. Len(q.fifo) = i + 1 /\ \A k \in 1 .. i + 1 : q.fifo[k] = k - 1
    BY <1>5, <2>2
  <2>4. q.ndone = 0
    BY <1>5, <2>1 DEF FromZero
  <2> HIDE DEF q, i
  <2> QED BY <1>8, <2>3, <2>4 DEF FromZero
<1> HIDE DEF q
<1>10. CASE RunRefused
  BY <1>1, <1>10 DEF RunRefused, IInv, Typed, FlagTrue, Whole
<1>11. CASE RunQueues
  <2>1. mx' = [stream_on |-> mx.stream_on, buf_idx |-> NextIdx(i), qbuf_cnt |-> CountUp(mx.qbuf_cnt)]
    BY <1>2, <1>11 DEF RunQueues, Handles
  <2>2. mq' = q /\ CanQbuf(mq, i)
    BY <1>11 DEF RunQueues, q
  <2>3. mx' \in Handles /\ mx'.stream_on = mx.stream_on /\ mx'.buf_idx = NextIdx(i)
    BY <1>2, <1>3, <1>4, <2>1 DEF Handles
  <2>4. Typed'
    BY <1>1, <1>2, <1>5, <1>6, <2>2, <2>3 DEF Typed
  <2>5. FlagTrue'
    BY <1>5, <1>7, <2>2, <2>3 DEF FlagTrue
  <2>6. ~cut /\ ~mq.on => FromZero(q, NextIdx(i))
    BY <1>4, <1>9, <2>2
  <2>7. ~cut /\ mx.stream_on => q.count = N /\ Behind(q, NextIdx(i))
    BY <1>2, <1>5, <1>7, <2>2, QbufBehind DEF q
  <2> QED BY <1>1, <1>5, <2>2, <2>3, <2>4, <2>5, <2>6, <2>7 DEF IInv, Whole
<1>12. CASE RunStarts
  <2>1. mx' = [stream_on |-> TRUE, buf_idx |-> NextIdx(i), qbuf_cnt |-> CountUp(mx.qbuf_cnt)]
    BY <1>12 DEF RunStarts
  <2>2. mq' = Streamon(q) /\ CanQbuf(mq, i) /\ ~mq.on /\ i + 1 = N - 2
    BY <1>12 DEF RunStarts, q, CanStreamon, StartsNow, StartAt
  <2>3. mx' \in Handles /\ mx'.stream_on = TRUE /\ mx'.buf_idx = i + 1
    BY <1>2, <1>3, <1>4, <1>8, <2>1, <2>2 DEF Handles
  <2>4. /\ mq' \in Queues /\ mq'.on = TRUE /\ mq'.fifo = q.fifo
        /\ mq'.ndone = q.ndone /\ mq'.count = q.count
    BY <1>5, <2>2 DEF Streamon, Queues
  <2>5. Typed'
    BY <1>1, <1>2, <1>6, <2>3, <2>4 DEF Typed
  <2>6. ~cut => mq'.count = N
    <3>1. i < mq.count
      BY <2>2 DEF CanQbuf
    <3>2. mq.count \in {0, N}
      BY <1>2 DEF Queues
    <3> QED BY <1>5, <1>8, <2>4, <3>1, <3>2
  <2>7. ~cut => Behind(mq', i + 1)
    <3> SUFFICES ASSUME ~cut PROVE Behind(mq', i + 1)
      OBVIOUS
    <3>1. Len(mq'.fifo) = i + 1 /\ \A k \in 1 .. i + 1 : mq'.fifo[k] = k - 1
      BY <1>9, <2>2, <2>4
    <3>2. \A k \in 1 .. i + 1 : Back(i + 1, (i + 1) + 1 - k) = k - 1
      BY <1>8 DEF Back
    <3> QED BY <1>8, <3>1, <3>2 DEF Behind
  <2> QED BY <1>1, <2>3, <2>4, <2>5, <2>6, <2>7 DEF IInv, FlagTrue, Whole
<1>13. CASE RunStartFails
  <2>1. ~mx.stream_on /\ i + 1 = N - 2 /\ mq' = q /\ CanQbuf(mq, i)
    BY <1>13 DEF RunStartFails, StartsNow, StartAt, q
  <2>2. mx' = [stream_on |-> mx.stream_on, buf_idx |-> i + 1, qbuf_cnt |-> CountUp(mx.qbuf_cnt)]
    BY <1>2, <1>13 DEF RunStartFails, Handles
  <2>3. i + 1 \in Indices
    BY <1>8, <2>1 DEF Indices
  <2>4. mx' \in Handles /\ mx'.stream_on = mx.stream_on /\ mx'.buf_idx = i + 1
    BY <1>2, <1>3, <2>2, <2>3 DEF Handles
  <2>5. Typed'
    BY <1>1, <1>2, <1>5, <1>6, <2>1, <2>4 DEF Typed
  <2>6. ~cut /\ ~mq.on => FromZero(q, i + 1)
    BY <1>9, <2>1
  <2> QED BY <1>1, <1>5, <2>1, <2>4, <2>5, <2>6 DEF IInv, FlagTrue, Whole
<1> QED
  BY <1>10, <1>11, <1>12, <1>13 DEF Run

LEMMA WaitInv == ASSUME IInv, Wait PROVE IInv'
BY DEF Wait, IInv, Typed, FlagTrue, Whole

LEMMA WaitReturnsInv == ASSUME IInv, WaitReturns PROVE IInv'
<1>1. live' = live /\ mx' = mx /\ cut' = cut /\ mq' = Dqbuf(mq) /\ mq.on /\ mq.ndone > 0
  BY DEF WaitReturns, CanDqbuf
<1>2. /\ mq \in Queues /\ mq.fifo \in Seq(Indices) /\ mx \in Handles /\ mx.buf_idx \in Indices
      /\ Len(mq.fifo) \in Nat /\ mq.ndone \in Nat /\ mq.ndone <= Len(mq.fifo)
  BY DEF IInv, Typed, Queues, Handles
<1>3. mq.fifo # <<>> /\ Tail(mq.fifo) \in Seq(Indices) /\ mq.ndone - 1 \in Nat
  BY <1>1, <1>2
<1>4. /\ mq' \in Queues /\ mq'.fifo = Tail(mq.fifo) /\ mq'.ndone = mq.ndone - 1
      /\ mq'.on = mq.on /\ mq'.count = mq.count
  BY <1>1, <1>2, <1>3 DEF Dqbuf, Queues
<1>5. Len(Tail(mq.fifo)) = Len(mq.fifo) - 1
  BY <1>2, <1>3
<1>6. Typed'
  BY <1>1, <1>2, <1>4, <1>5 DEF IInv, Typed
<1>7. ~cut /\ mx.stream_on => mq'.count = N /\ Behind(mq', mx.buf_idx)
  <2> SUFFICES ASSUME ~cut, mx.stream_on PROVE mq'.count = N /\ Behind(mq', mx.buf_idx)
    OBVIOUS
  <2>1. mq.count = N /\ Behind(mq, mx.buf_idx)
    BY DEF IInv, Whole
  <2>2. \A k \in 1 .. Len(mq.fifo) - 1 :
           Tail(mq.fifo)[k] = Back(mx.buf_idx, (Len(mq.fifo) - 1) + 1 - k)
    BY <1>2, <1>3, <2>1, TailBehind DEF Behind
  <2>3. Len(mq.fifo) - 1 <= N
    BY <1>2, <2>1 DEF Behind
  <2> QED BY <1>4, <1>5, <2>1, <2>2, <2>3 DEF Behind
<1> QED BY <1>1, <1>4, <1>6, <1>7 DEF IInv, FlagTrue, Whole

LEMMA StopInv == ASSUME IInv, Stop PROVE IInv'
<1>1. mx' = ZeroMx /\ StillCut /\ live' = live
  BY DEF Stop
<1>2. mq' \in Queues /\ mq'.ndone <= Len(mq'.fifo) /\ (mq'.fifo = <<>> \/ mq' = mq)
  BY StopNClearQueue DEF Stop
<1> QED BY <1>1, <1>2, RestInv DEF IInv, Typed

LEMMA JustStopInv == ASSUME IInv, JustStop PROVE IInv'
<1>1. mx' = ZeroMx /\ StillCut /\ live' = live /\ (mq' = mq \/ mq' = Streamoff(mq))
  BY DEF JustStop
<1>2. mq \in Queues /\ mq.ndone <= Len(mq.fifo)
  BY DEF IInv, Typed
<1>3. mq' = mq \/ (mq' \in Queues /\ mq'.fifo = <<>> /\ mq'.ndone = 0)
  BY <1>1, <1>2, QueueOps
<1>4. mq' \in Queues /\ mq'.ndone <= Len(mq'.fifo) /\ (mq'.fifo = <<>> \/ mq' = mq)
  BY <1>2, <1>3
<1> QED BY <1>1, <1>4, RestInv DEF IInv, Typed

LEMMA CompleteInv == ASSUME IInv, Complete PROVE IInv'
<1>1. /\ live' = live /\ mx' = mx /\ cut' = cut /\ mq' = Finish(mq)
      /\ mq.on /\ mq.ndone + Hold < Len(mq.fifo)
  BY DEF Complete, CanFinish
<1>2. mq \in Queues /\ Len(mq.fifo) \in Nat /\ mq.ndone \in Nat
  BY DEF IInv, Typed, Queues
<1>3. /\ mq' \in Queues /\ mq'.fifo = mq.fifo /\ mq'.ndone = mq.ndone + 1
      /\ mq'.on = mq.on /\ mq'.count = mq.count
  BY <1>1, <1>2 DEF Finish, Queues
<1>4. mq'.ndone <= Len(mq'.fifo)
  BY <1>1, <1>2, <1>3
<1> QED
  BY <1>1, <1>3, <1>4 DEF IInv, Typed, FlagTrue, Whole, FromZero, Behind

LEMMA NextInv == IInv /\ [Next]_vars => IInv'
<1> SUFFICES ASSUME IInv, [Next]_vars PROVE IInv'
  OBVIOUS
<1>1. CASE UNCHANGED vars
  BY <1>1 DEF vars, IInv, Typed, FlagTrue, Whole
<1> QED
  BY <1>1, CreateInv, DestroyInv, ConfigInv, RunInv, WaitInv, WaitReturnsInv,
     StopInv, JustStopInv, CompleteInv DEF Next

LEMMA Invariance == Spec => []IInv
BY InitInv, NextInv, PTL DEF Spec

\* Whatever calls fail in whatever order, a layer whose ring no configuration cut
\* never loses step with its driver: a QBUF is refused only when every buffer is
\* with the driver, and the one that comes back next is the one queued next.
THEOREM LayerInStep == Spec => []RingInStep
<1>1. IInv => RingInStep
  <2> SUFFICES ASSUME IInv, mx.stream_on, ~cut
               PROVE  /\ ~CanQbuf(mq, mx.buf_idx) => Len(mq.fifo) = N
                      /\ Len(mq.fifo) = N => Head(mq.fifo) = mx.buf_idx
    BY DEF RingInStep
  <2> DEFINE i == mx.buf_idx
  <2>1. i \in Indices /\ Len(mq.fifo) \in Nat /\ mq.fifo \in Seq(Indices)
    BY DEF IInv, Typed, Handles, Queues
  <2>2. /\ mq.count = N /\ Len(mq.fifo) <= N
        /\ \A k \in 1 .. Len(mq.fifo) : mq.fifo[k] = Back(i, Len(mq.fifo) + 1 - k)
    BY DEF IInv, Whole, Behind
  <2>3. ASSUME ~CanQbuf(mq, i) PROVE Len(mq.fifo) = N
    <3>1. PICK k \in 1 .. Len(mq.fifo) : mq.fifo[k] = i
      <4>1. i < mq.count
        BY <2>1, <2>2 DEF Indices
      <4>2. i \in Outstanding(mq)
        BY <2>3, <4>1 DEF CanQbuf
      <4>3. DOMAIN mq.fifo = 1 .. Len(mq.fifo)
        BY <2>1
      <4> QED BY <4>2, <4>3 DEF Outstanding
    <3>2. Back(i, Len(mq.fifo) + 1 - k) = i
      BY <2>2, <3>1
    <3>3. Len(mq.fifo) + 1 - k \in 1 .. N
      BY <2>1, <2>2
    <3>4. \A d \in 1 .. N : Back(i, d) = i => d = N
      BY <2>1 DEF Back, Indices
    <3> QED BY <2>1, <2>2, <3>2, <3>3, <3>4
  <2>4. ASSUME Len(mq.fifo) = N PROVE Head(mq.fifo) = i
    <3>1. mq.fifo[1] = Back(i, N)
      BY <2>2, <2>4
    <3> QED BY <2>1, <2>4, <3>1 DEF Back, Indices
  <2> QED BY <2>3, <2>4
<1> QED BY <1>1, Invariance, PTL
-----------------------------------------------------------------------------
(* The mixer's handle implements Stream. *)

\* A mutex that hangs its own thread leaves the layer as it was.
LEMMA CreateMakes == ASSUME IInv, Create PROVE Promise!Make \/ UNCHANGED Promise!vars
<1>1. ~live /\ live \in BOOLEAN /\ mx' = ZeroMx
  BY DEF Create, IInv, Typed
<1>2. mx'.stream_on = FALSE
  BY <1>1 DEF ZeroMx
<1>3. Fresh.on = FALSE /\ Len(Fresh.fifo) = 0
  BY DEF Fresh
<1>4. mq' = mq \/ (mq'.on = FALSE /\ Len(mq'.fifo) = 0)
  BY <1>3 DEF Create, Created, CreateRefused, CreateFails, QueueFound
<1>5. \/ live' = TRUE /\ Returns("create", 0)
      \/ live' = FALSE /\ (Returns("create", -1) \/ UNCHANGED last)
  BY <1>1 DEF Create, Created, CreateRefused, CreateFails
<1> QED
  BY <1>1, <1>2, <1>4, <1>5 DEF Promise!Make, Promise!AtRest, Promise!Returned, Returns

\* What exynos_mxr_stop_n_clear leaves: 0 only for a driver at rest.
LEMMA StopNClearAnswer ==
  ASSUME IInv, NEW r, StopNClear(r)
  PROVE  /\ r \in {-1, 0}
         /\ \/ r = -1 /\ mq' = mq
            \/ mq'.on = FALSE /\ Len(mq'.fifo) = 0
<1>1. mq \in Queues /\ mq.on \in BOOLEAN
  BY DEF IInv, Typed, Queues
<1>2. Streamoff(mq) \in Queues /\ Streamoff(mq).on = FALSE /\ Streamoff(mq).fifo = <<>>
  BY <1>1, QueueOps
<1>3. /\ Reqbufs(mq, 0).fifo = <<>> /\ Reqbufs(mq, 0).on = mq.on
      /\ Reqbufs(Streamoff(mq), 0).fifo = <<>> /\ Reqbufs(Streamoff(mq), 0).on = FALSE
  BY <1>1, <1>2, QueueOps
<1>4. /\ r \in {-1, 0}
      /\ \/ r = -1 /\ mq' = mq
         \/ mq' = Reqbufs(mq, 0) /\ ~mq.on
         \/ mq' = Streamoff(mq) \/ mq' = Reqbufs(Streamoff(mq), 0)
  BY DEF StopNClear, CanReqbufs
<1>5. Len(<<>>) = 0
  OBVIOUS
<1> QED BY <1>1, <1>2, <1>3, <1>4, <1>5

LEMMA DestroyFrees == ASSUME IInv, Destroy PROVE Promise!Free \/ UNCHANGED Promise!vars
<1>1. CASE ~recursive
  BY <1>1 DEF Destroy, Promise!vars
<1>2. CASE recursive
  <2>1. live /\ live' = FALSE /\ mx' = ZeroMx /\ Returns("destroy", 0)
    BY <1>2 DEF Destroy, Idle
  <2>2. mx'.stream_on = FALSE
    BY <2>1 DEF ZeroMx
  <2>3. mq' = Fresh \/ mq' = mq \/ \E r \in {-1, 0} : StopNClear(r)
    BY <1>2 DEF Destroy
  <2>4. Fresh.on = FALSE /\ Len(Fresh.fifo) = 0
    BY DEF Fresh
  <2>5. mq' = mq \/ (mq'.on = FALSE /\ Len(mq'.fifo) = 0)
    BY <2>3, <2>4, StopNClearAnswer
  <2> QED
    BY <2>1, <2>2, <2>5 DEF Promise!Free, Promise!AtRest, Promise!Returned, Returns
<1> QED BY <1>1, <1>2

LEMMA ConfigConfigures == ASSUME IInv, Config PROVE Promise!Configure
<1>1. live /\ live' = live /\ mx' = mx
  BY DEF Config, Idle
<1>2. mq \in Queues
  BY DEF IInv, Typed
<1>3. CASE ConfigRefused
  BY <1>1, <1>3 DEF ConfigRefused, Returns, Promise!Configure, Promise!Result, Promise!Returned
<1>4. CASE ConfigFails
  BY <1>1, <1>4 DEF ConfigFails, Returns, Promise!Configure, Promise!Result, Promise!Returned
<1>5. CASE ConfigDone
  <2>1. ~mx.stream_on /\ ~mq.on /\ Returns("config", 0)
    BY <1>5 DEF ConfigDone, CanReqbufs
  <2>2. mq'.on = mq.on /\ mq'.fifo = <<>>
    BY <1>2, <1>5, QueueOps DEF ConfigDone
  <2>3. Len(mq'.fifo) = 0
    BY <2>2
  <2> QED
    BY <1>1, <2>1, <2>2, <2>3 DEF Returns, Promise!Configure, Promise!Result, Promise!Returned
<1> QED BY <1>3, <1>4, <1>5 DEF Config

LEMMA RunFeeds == ASSUME IInv, Run PROVE Promise!Feed
<1> DEFINE q == Qbuf(mq, mx.buf_idx)
<1>1. live /\ live' = live
  BY DEF Run, Idle
<1>2. /\ mq \in Queues /\ mx \in Handles /\ mx.buf_idx \in Indices /\ Len(mq.fifo) \in Nat
      /\ mx.stream_on \in BOOLEAN /\ mq.on \in BOOLEAN
  BY DEF IInv, Typed, Handles, Queues
<1>3. q \in Queues /\ q.on = mq.on /\ Len(q.fifo) = Len(mq.fifo) + 1
  BY <1>2, QbufValue
<1>4. CASE RunRefused
  BY <1>1, <1>2, <1>4 DEF RunRefused, Returns, Promise!Feed, Promise!Result, Promise!Returned
<1>5. CASE RunQueues
  <2>1. mx'.stream_on = mx.stream_on /\ mq' = q /\ Returns("run", 0)
    BY <1>2, <1>5 DEF RunQueues, Handles
  <2> QED
    BY <1>1, <1>2, <1>3, <2>1 DEF Returns, Promise!Feed, Promise!Result, Promise!Returned
<1>6. CASE RunStarts
  <2>1. mx'.stream_on = TRUE /\ ~mq.on /\ mq' = Streamon(q) /\ Returns("run", 0)
    BY <1>6 DEF RunStarts, CanStreamon
  <2>2. mq'.on = TRUE /\ Len(mq'.fifo) = Len(mq.fifo) + 1
    BY <1>3, <2>1 DEF Streamon, Queues
  <2> QED
    BY <1>1, <1>2, <2>1, <2>2 DEF Returns, Promise!Feed, Promise!Result, Promise!Returned
<1>7. CASE RunStartFails
  <2>1. mx'.stream_on = mx.stream_on /\ mq' = q /\ Returns("run", -1)
    BY <1>2, <1>7 DEF RunStartFails, Handles
  <2> QED
    BY <1>1, <1>2, <1>3, <2>1 DEF Returns, Promise!Feed, Promise!Result, Promise!Returned
<1> QED BY <1>4, <1>5, <1>6, <1>7 DEF Run

LEMMA WaitCollects == ASSUME IInv, Wait PROVE Promise!Collect \/ UNCHANGED Promise!vars
<1>1. live /\ live' = live /\ mx' = mx /\ mq' = mq
  BY DEF Wait, Idle
<1>2. Returns("wait", 0) \/ Returns("wait", -1) \/ UNCHANGED last
  BY DEF Wait
<1> QED
  BY <1>1, <1>2 DEF Returns, Promise!Collect, Promise!Result, Promise!Returned, Promise!vars

LEMMA WaitReturnsCollects == ASSUME IInv, WaitReturns, live PROVE Promise!Collect
<1>1. live' = live /\ mx' = mx /\ mq' = Dqbuf(mq) /\ mq.on /\ mq.ndone > 0 /\ Returns("wait", 0)
  BY DEF WaitReturns, CanDqbuf
<1>2. mq \in Queues /\ mq.fifo \in Seq(Indices) /\ Len(mq.fifo) \in Nat
      /\ mq.ndone \in Nat /\ mq.ndone <= Len(mq.fifo)
  BY DEF IInv, Typed, Queues
<1>3. mq'.on = mq.on /\ mq'.fifo = Tail(mq.fifo) /\ Len(mq.fifo) > 0
  BY <1>1, <1>2 DEF Dqbuf
<1>4. Len(mq'.fifo) = Len(mq.fifo) - 1
  BY <1>2, <1>3
<1> QED
  BY <1>1, <1>2, <1>3, <1>4 DEF Returns, Promise!Collect, Promise!Result, Promise!Returned

LEMMA StopStops == ASSUME IInv, Stop PROVE Promise!Stop
<1>1. live /\ live' = live /\ mx' = ZeroMx
  BY DEF Stop, Idle
<1>2. mx'.stream_on = FALSE
  BY <1>1 DEF ZeroMx
<1>3. PICK r \in {-1, 0} : StopNClear(r) /\ Returns("stop", r)
  BY DEF Stop
<1>4. (r = -1 /\ mq' = mq) \/ (mq'.on = FALSE /\ Len(mq'.fifo) = 0)
  BY <1>3, StopNClearAnswer
<1> QED
  BY <1>1, <1>2, <1>3, <1>4 DEF Returns, Promise!Stop, Promise!Result, Promise!Returned

LEMMA JustStopStops == ASSUME IInv, JustStop PROVE Promise!JustStop
<1>1. live /\ live' = live /\ mx' = ZeroMx
  BY DEF JustStop, Idle
<1>2. mx'.stream_on = FALSE
  BY <1>1 DEF ZeroMx
<1>3. Streamoff(mq).on = FALSE /\ Len(Streamoff(mq).fifo) = 0
  BY DEF Streamoff
<1>4. \/ mq' = mq /\ (Returns("just_stop", 0) \/ Returns("just_stop", -1))
      \/ mx.stream_on /\ mq' = Streamoff(mq) /\ Returns("just_stop", 0)
  BY DEF JustStop
<1> QED
  BY <1>1, <1>2, <1>3, <1>4 DEF Returns, Promise!JustStop, Promise!Result, Promise!Returned

LEMMA CompleteStutters == ASSUME IInv, Complete PROVE UNCHANGED Promise!vars
<1>1. live' = live /\ mx' = mx /\ last' = last /\ mq' = Finish(mq)
  BY DEF Complete
<1>2. mq \in Queues /\ mq.on
  BY DEF Complete, CanFinish, IInv, Typed
<1>3. mq'.on = mq.on /\ mq'.fifo = mq.fifo
  BY <1>1 DEF Finish
<1> QED BY <1>1, <1>3 DEF Promise!vars

\* Only the holder of a handle waits on it.
Waiting == call = "dqbuf" => live

LEMMA WaitingInv == Waiting /\ [Next]_vars => Waiting'
BY DEF Waiting, Next, vars, Create, Created, CreateRefused, CreateFails, Destroy, Config,
       Run, Wait, WaitReturns, Stop, JustStop, Complete, Idle

LEMMA NextImplements == IInv /\ Waiting /\ [Next]_vars => [Promise!Next]_Promise!vars
<1> SUFFICES ASSUME IInv, Waiting, [Next]_vars
             PROVE  Promise!Next \/ UNCHANGED Promise!vars
  OBVIOUS
<1>1. CASE UNCHANGED vars
  BY <1>1 DEF vars, Promise!vars
<1>2. CASE WaitReturns
  BY <1>2, WaitReturnsCollects DEF Waiting, WaitReturns, Promise!Next
<1> QED
  BY <1>1, <1>2, CreateMakes, DestroyFrees, ConfigConfigures, RunFeeds, WaitCollects,
     StopStops, JustStopStops, CompleteStutters DEF Next, Promise!Next

LEMMA InitImplements == Init => Promise!Init /\ Waiting
BY DEF Init, Promise!Init, ZeroMx, Fresh, Waiting

\* ExynosHdmi may rely on the abstract stream for its graphic layers, whatever
\* the driver refuses and whatever the mutex does.
THEOREM LayerKeepsPromise == Spec => Implements
<1>1. Spec => []Waiting
  BY InitImplements, WaitingInv, PTL DEF Spec
<1> QED
  BY <1>1, Invariance, InitImplements, NextImplements, PTL DEF Spec, Implements, Promise!Spec
-----------------------------------------------------------------------------
(* ExynosHdmi. *)

Fields == {"connected", "path", "curPath", "pathChange", "infoChange", "mode", "curMode",
           "res", "curRes", "preset", "curPreset", "tv", "dst", "out", "cap", "mxr",
           "memo", "prev"}

Scalers == {"out", "cap"}

Handle(x) == x = [at |-> x.at, cfg |-> x.cfg, on |-> x.on]

\* What of the object k is a record and what is a function, and of what.
Shape(k) ==
  /\ k = [x \in Fields |-> k[x]]
  /\ \A s \in Scalers : Handle(k[s])
  /\ k.mxr = [g \in Graphics |-> k.mxr[g]]
  /\ \A g \in Graphics : k.mxr[g] = [setup |-> k.mxr[g].setup, on |-> k.mxr[g].on]
  /\ k.memo = [l \in Layers |-> k.memo[l]]
  /\ k.prev = [l \in Layers |-> k.prev[l]]

\* Between k and j only the scalers and the mixers' streams changed.
Same(k, j) ==
  /\ Shape(j)
  /\ \A x \in Fields \ {"out", "cap", "mxr"} : j[x] = k[x]
  /\ \A g \in Graphics : j.mxr[g].setup = k.mxr[g].setup

\* Nothing was started.
Quieter(k, j) ==
  /\ \A g \in Graphics : ~k.mxr[g].on => ~j.mxr[g].on
  /\ \A s \in Scalers : k[s].at = "null" => j[s].at = "null"

\* j is k but for the scaler s.
OneScaler(s, k, j) ==
  j = [x \in Fields |-> IF x = s THEN j[s] ELSE k[x]] /\ Handle(j[s])
-----------------------------------------------------------------------------
(* Outcomes. *)

LEMMA OkIs ==
  ASSUME NEW k, NEW o \in Ok(k)
  PROVE  o.ok /\ o.h = k
<1>1. o = [ok |-> TRUE, h |-> k]
  BY DEF Ok
<1>2. o.h = k
  BY <1>1
<1>3. o.ok
  BY <1>1
<1> QED BY <1>2, <1>3

LEMMA FailIs ==
  ASSUME NEW k, NEW o \in Fail(k)
  PROVE  ~o.ok /\ o.h = k
<1>1. o = [ok |-> FALSE, h |-> k]
  BY DEF Fail
<1>2. o.h = k
  BY <1>1
<1>3. ~o.ok
  BY <1>1
<1> QED BY <1>2, <1>3

LEMMA MayIs ==
  ASSUME NEW fault, NEW k, NEW o \in May(fault, k)
  PROVE  ~o.ok /\ o.h = k
BY FailIs DEF May
-----------------------------------------------------------------------------
(* The scalers. *)

LEMMA SameTrans ==
  ASSUME NEW i, NEW j, NEW k, Same(i, j), Same(j, k)
  PROVE  Same(i, k)
BY DEF Same

LEMMA OneScalerSame ==
  ASSUME NEW k, Shape(k), NEW s \in Scalers, NEW j, OneScaler(s, k, j)
  PROVE  /\ Same(k, j)
         /\ j.mxr = k.mxr
         /\ \A z \in Scalers : z # s => j[z] = k[z]
<1>1. /\ \A x \in Fields : x # s => j[x] = k[x]
      /\ j = [x \in Fields |-> j[x]]
  BY DEF OneScaler
<1>2. j.mxr = k.mxr /\ j.memo = k.memo /\ j.prev = k.prev
      /\ \A z \in Scalers : z # s => j[z] = k[z]
  BY <1>1 DEF Fields, Scalers
<1>3. \A z \in Scalers : Handle(j[z])
  BY <1>2 DEF OneScaler, Shape
<1>4. Shape(j)
  BY <1>1, <1>2, <1>3 DEF Shape
<1> QED BY <1>1, <1>2, <1>4 DEF Same, Scalers

\* The ways in which the operations change a scaler.
LEMMA SetScaler ==
  ASSUME NEW k, Shape(k), NEW s \in Scalers
  PROVE  /\ OneScaler(s, k, k)
         /\ \A b : OneScaler(s, k, [k EXCEPT ![s].on = b])
         /\ \A c : OneScaler(s, k, [k EXCEPT ![s].cfg = c])
         /\ \A x : Handle(x) => /\ OneScaler(s, k, [k EXCEPT ![s] = x])
                                /\ [k EXCEPT ![s] = x][s] = x
<1>1. Handle(k[s]) /\ s \in Fields
  BY DEF Shape, Scalers, Fields
<1>2. OneScaler(s, k, k)
  BY <1>1 DEF Shape, OneScaler
<1>3. ASSUME NEW x, Handle(x)
      PROVE  OneScaler(s, k, [k EXCEPT ![s] = x]) /\ [k EXCEPT ![s] = x][s] = x
  BY <1>1, <1>3 DEF Shape, OneScaler
<1>4. ASSUME NEW b
      PROVE  OneScaler(s, k, [k EXCEPT ![s].on = b])
  <2> DEFINE x == [k[s] EXCEPT !.on = b]
  <2>1. Handle(x)
    BY <1>1 DEF Handle
  <2>2. [k EXCEPT ![s].on = b] = [k EXCEPT ![s] = x]
    BY <1>1 DEF Shape
  <2> QED BY <1>3, <2>1, <2>2
<1>5. ASSUME NEW c
      PROVE  OneScaler(s, k, [k EXCEPT ![s].cfg = c])
  <2> DEFINE x == [k[s] EXCEPT !.cfg = c]
  <2>1. Handle(x)
    BY <1>1 DEF Handle
  <2>2. [k EXCEPT ![s].cfg = c] = [k EXCEPT ![s] = x]
    BY <1>1 DEF Shape
  <2> QED BY <1>3, <2>1, <2>2
<1> QED BY <1>2, <1>3, <1>4, <1>5

LEMMA NoHandleSet ==
  ASSUME NEW k, Shape(k), NEW s \in Scalers
  PROVE  Same(k, [k EXCEPT ![s] = NoHandle]) /\ [k EXCEPT ![s] = NoHandle].mxr = k.mxr
<1>1. Handle(NoHandle)
  BY DEF Handle, NoHandle
<1> QED BY <1>1, SetScaler, OneScalerSame

LEMMA StopExclusiveDoes ==
  ASSUME NEW k, Shape(k), NEW s \in Scalers, NEW o \in StopExclusive(s, k)
  PROVE  OneScaler(s, k, o.h)
<1>1. CASE k[s].at \in {"null", "freed"}
  <2>1. o \in Ok(k) \cup Fail(k)
    BY <1>1 DEF StopExclusive, Either
  <2> QED BY <2>1, OkIs, FailIs, SetScaler
<1>2. CASE k[s].at \notin {"null", "freed"}
  <2> DEFINE x == [k EXCEPT ![s] = NewHandle]
             y == [k EXCEPT ![s].on = FALSE]
  <2>1. o \in Ok(x) \/ o \in May("stop", y)
    BY <1>2 DEF StopExclusive
  <2>2. OneScaler(s, k, x) /\ OneScaler(s, k, y)
    BY SetScaler DEF Handle, NewHandle
  <2> HIDE DEF x, y
  <2>3. o.h = x \/ o.h = y
    BY <2>1, OkIs, MayIs
  <2> QED BY <2>2, <2>3
<1> QED BY <1>1, <1>2

\* Nothing is done to a pointer that is NULL.
LEMMA JustStopScalerDoes ==
  ASSUME NEW k, Shape(k), NEW s \in Scalers, NEW o \in JustStopScaler(s, k)
  PROVE  OneScaler(s, k, o.h) /\ (k[s].at = "null" => o.h = k)
<1>1. CASE k[s].at \in {"null", "freed"}
  <2>1. o \in Ok(k) \cup Fail(k)
    BY <1>1 DEF JustStopScaler, Either
  <2> QED BY <2>1, OkIs, FailIs, SetScaler
<1>2. CASE k[s].at \notin {"null", "freed"}
  <2> DEFINE y == [k EXCEPT ![s].on = FALSE]
  <2>1. o \in Ok(y) \/ o \in May("stop", y)
    BY <1>2 DEF JustStopScaler
  <2>2. OneScaler(s, k, y)
    BY SetScaler
  <2> HIDE DEF y
  <2>3. o.h = y
    BY <2>1, OkIs, MayIs
  <2> QED BY <1>2, <2>2, <2>3
<1> QED BY <1>1, <1>2

LEMMA FreeDoes ==
  ASSUME NEW k, Shape(k), NEW s \in Scalers, NEW o \in Free(s, k)
  PROVE  OneScaler(s, k, o.h)
<1> DEFINE y == [k EXCEPT ![s] = [NewHandle EXCEPT !.at = "freed"]]
<1>1. OneScaler(s, k, y) /\ OneScaler(s, k, k)
  BY SetScaler DEF Handle, NewHandle
<1>2. o \in Ok(IF k[s].at = "null" THEN k ELSE y)
  BY DEF Free
<1> HIDE DEF y
<1>3. o.h = k \/ o.h = y
  BY <1>2, OkIs
<1> QED BY <1>1, <1>3

LEMMA StopAndFreeDoes ==
  ASSUME NEW k, Shape(k), NEW s \in Scalers, NEW o \in StopAndFree(s, k)
  PROVE  Same(k, o.h) /\ o.h.mxr = k.mxr
<1>1. PICK i \in StopExclusive(s, k) : o = i \/ o \in Free(s, i.h)
  BY DEF StopAndFree, Chain
<1>2. Same(k, i.h) /\ i.h.mxr = k.mxr
  BY StopExclusiveDoes, OneScalerSame
<1>3. CASE o \in Free(s, i.h)
  <2>1. Shape(i.h)
    BY <1>2 DEF Same
  <2> DEFINE j == i.h
  <2> HIDE DEF j
  <2>2. Same(j, o.h) /\ o.h.mxr = j.mxr
    BY <1>3, <2>1, FreeDoes, OneScalerSame DEF j
  <2>3. Same(i.h, o.h) /\ o.h.mxr = i.h.mxr
    BY <2>2 DEF j
  <2> QED BY <1>2, <2>3, SameTrans
<1> QED BY <1>1, <1>2, <1>3

LEMMA MakeDoes ==
  ASSUME NEW k, Shape(k), NEW s \in Scalers, NEW o \in Make(s, k)
  PROVE  Same(k, o.h)
<1> DEFINE x == [k EXCEPT ![s] = NewHandle]
           y == [k EXCEPT ![s] = NoHandle]
<1>1. OneScaler(s, k, x) /\ OneScaler(s, k, y)
  BY SetScaler DEF Handle, NewHandle, NoHandle
<1>2. o \in Ok(x) \/ o \in May("create", y)
  BY DEF Make
<1> HIDE DEF x, y
<1>3. o.h = x \/ o.h = y
  BY <1>2, OkIs, MayIs
<1> QED BY <1>1, <1>3, OneScalerSame

LEMMA ConfigureDoes ==
  ASSUME NEW k, Shape(k), NEW s \in Scalers, NEW o \in Configure(s, k)
  PROVE  Same(k, o.h)
<1> DEFINE x == [k EXCEPT ![s].cfg = TRUE]
<1>1. OneScaler(s, k, x) /\ OneScaler(s, k, k)
  BY SetScaler
<1>2. o \in Ok(k) \/ o \in Fail(k) \/ o \in Ok(x) \/ o \in May("config", k)
  BY DEF Configure, Either
<1> HIDE DEF x
<1>3. o.h = x \/ o.h = k
  BY <1>2, OkIs, FailIs, MayIs
<1> QED BY <1>1, <1>3, OneScalerSame

LEMMA RunScalerDoes ==
  ASSUME NEW k, Shape(k), NEW s \in Scalers, NEW o \in RunScaler(s, k)
  PROVE  Same(k, o.h)
<1> DEFINE x == [k EXCEPT ![s].on = TRUE]
<1>1. OneScaler(s, k, x) /\ OneScaler(s, k, k)
  BY SetScaler
<1>2. o \in Ok(k) \/ o \in Fail(k) \/ o \in Ok(x) \/ o \in May("run", k)
  BY DEF RunScaler, Either
<1> HIDE DEF x
<1>3. o.h = x \/ o.h = k
  BY <1>2, OkIs, FailIs, MayIs
<1> QED BY <1>1, <1>3, OneScalerSame
-----------------------------------------------------------------------------
(* The layers. *)

\* j is k but for the mixer g.
OneMixer(g, k, j) ==
  /\ Shape(j)
  /\ \A x \in Fields \ {"mxr"} : j[x] = k[x]
  /\ \A u \in Graphics : u # g => j.mxr[u] = k.mxr[u]

LEMMA SetMixer ==
  ASSUME NEW k, Shape(k), NEW g \in Graphics, NEW x, x = [setup |-> x.setup, on |-> x.on]
  PROVE  OneMixer(g, k, [k EXCEPT !.mxr[g] = x]) /\ [k EXCEPT !.mxr[g] = x].mxr[g] = x
<1> DEFINE j == [k EXCEPT !.mxr[g] = x]
           m == [k.mxr EXCEPT ![g] = x]
<1>1. /\ m = [u \in Graphics |-> m[u]] /\ m[g] = x
      /\ \A u \in Graphics : u # g => m[u] = k.mxr[u]
  BY DEF Shape
<1>2. \A u \in Graphics : m[u] = [setup |-> m[u].setup, on |-> m[u].on]
  BY <1>1 DEF Shape
<1> HIDE DEF m
<1>3. j = [y \in Fields |-> IF y = "mxr" THEN m ELSE k[y]]
  BY DEF Shape, Fields, m
<1> HIDE DEF j
<1>4. j = [y \in Fields |-> j[y]] /\ j.mxr = m /\ \A y \in Fields \ {"mxr"} : j[y] = k[y]
  BY <1>3 DEF Fields
<1>5. \A s \in Scalers : Handle(j[s])
  BY <1>4 DEF Shape, Scalers, Fields
<1>6. j.memo = k.memo /\ j.prev = k.prev
  BY <1>4 DEF Fields
<1>7. Shape(j)
  BY <1>1, <1>2, <1>4, <1>5, <1>6 DEF Shape
<1>8. OneMixer(g, k, j) /\ j.mxr[g] = x
  BY <1>1, <1>4, <1>7 DEF OneMixer
<1> QED BY <1>8 DEF j

LEMMA SetStream ==
  ASSUME NEW k, Shape(k), NEW g \in Graphics, NEW b
  PROVE  /\ OneMixer(g, k, [k EXCEPT !.mxr[g].on = b])
         /\ [k EXCEPT !.mxr[g].on = b].mxr[g] = [setup |-> k.mxr[g].setup, on |-> b]
<1> DEFINE x == [setup |-> k.mxr[g].setup, on |-> b]
<1>1. [k EXCEPT !.mxr[g].on = b] = [k EXCEPT !.mxr[g] = x]
  <2>1. [k.mxr[g] EXCEPT !.on = b] = x
    <3> DEFINE y == k.mxr[g]
    <3>1. y = [setup |-> y.setup, on |-> y.on]
      BY DEF Shape
    <3> HIDE DEF y
    <3>2. [y EXCEPT !.on = b] = [setup |-> y.setup, on |-> b]
      BY <3>1
    <3> QED BY <3>2 DEF y
  <2> HIDE DEF x
  <2> QED BY <2>1
<1>2. x = [setup |-> x.setup, on |-> x.on]
  OBVIOUS
<1> HIDE DEF x
<1>3. OneMixer(g, k, [k EXCEPT !.mxr[g] = x]) /\ [k EXCEPT !.mxr[g] = x].mxr[g] = x
  BY <1>2, SetMixer
<1> QED BY <1>1, <1>3 DEF x

LEMMA OneMixerSame ==
  ASSUME NEW k, NEW g \in Graphics, NEW j, OneMixer(g, k, j),
         j.mxr[g].setup = k.mxr[g].setup
  PROVE  Same(k, j) /\ \A s \in Scalers : j[s] = k[s]
BY DEF OneMixer, Same, Scalers, Fields

LEMMA StopLayerDoes ==
  ASSUME NEW k, Shape(k), NEW l \in Layers, NEW o \in StopLayer(l, k)
  PROVE  /\ Same(k, o.h) /\ Quieter(k, o.h)
         /\ l \in Graphics => ~o.h.mxr[l].on
<1>1. CASE l = "video"
  <2>1. o \in JustStopScaler("out", k)
    BY <1>1 DEF StopLayer
  <2>2. OneScaler("out", k, o.h) /\ (k["out"].at = "null" => o.h = k)
    BY <2>1, JustStopScalerDoes DEF Scalers
  <2>3. Same(k, o.h) /\ o.h.mxr = k.mxr /\ \A z \in Scalers : z # "out" => o.h[z] = k[z]
    BY <2>2, OneScalerSame DEF Scalers
  <2> QED BY <1>1, <2>2, <2>3 DEF Quieter, Graphics
<1>2. CASE l # "video"
  <2> DEFINE j == [k EXCEPT !.mxr[l].on = FALSE]
  <2>1. l \in Graphics
    BY <1>2 DEF Layers
  <2>2. OneMixer(l, k, j) /\ j.mxr[l] = [setup |-> k.mxr[l].setup, on |-> FALSE]
    <3>1. \A b : /\ OneMixer(l, k, [k EXCEPT !.mxr[l].on = b])
                 /\ [k EXCEPT !.mxr[l].on = b].mxr[l] = [setup |-> k.mxr[l].setup, on |-> b]
      BY <2>1, SetStream
    <3> QED BY <3>1, Zenon
  <2>3. o \in Ok(j) \/ o \in May("mixer", j)
    BY <1>2 DEF StopLayer
  <2> HIDE DEF j
  <2>4. o.h = j
    BY <2>3, OkIs, MayIs
  <2>5. Same(k, j) /\ \A s \in Scalers : j[s] = k[s]
    BY <2>1, <2>2, OneMixerSame
  <2>6. ~j.mxr[l].on
    BY <2>2
  <2>7. \A g \in Graphics : ~k.mxr[g].on => ~j.mxr[g].on
    BY <2>2, <2>6 DEF OneMixer
  <2> QED BY <2>4, <2>5, <2>6, <2>7 DEF Quieter
<1> QED BY <1>1, <1>2

LEMMA StopLayersDoes ==
  ASSUME NEW k, Shape(k), NEW layers, NEW o \in StopLayers(layers, k)
  PROVE  /\ Same(k, o.h) /\ Quieter(k, o.h)
         /\ o.ok => \A g \in Graphics : ~o.h.mxr[g].on
<1>1. PICK i : /\ i \in StopLayer("video", k) \/ i \in Ok(k)
               /\ \/ o = i /\ ~o.ok
                  \/ \E j \in StopLayer("graphic0", i.h) :
                        \/ o = j /\ ~o.ok
                        \/ o \in StopLayer("graphic1", j.h)
  BY DEF StopLayers, Chain
<1>2. Same(k, i.h) /\ Quieter(k, i.h)
  BY <1>1, StopLayerDoes, OkIs DEF Layers, Same, Quieter
<1>3. ASSUME NEW j \in StopLayer("graphic0", i.h)
      PROVE  Same(k, j.h) /\ Quieter(k, j.h) /\ ~j.h.mxr["graphic0"].on
  <2>1. Same(i.h, j.h) /\ Quieter(i.h, j.h) /\ ~j.h.mxr["graphic0"].on
    BY <1>2, StopLayerDoes DEF Layers, Graphics, Same
  <2> QED BY <1>2, <2>1, SameTrans DEF Quieter
<1>4. CASE \E j \in StopLayer("graphic0", i.h) : o \in StopLayer("graphic1", j.h)
  <2>1. PICK j \in StopLayer("graphic0", i.h) : o \in StopLayer("graphic1", j.h)
    BY <1>4
  <2>2. Same(k, j.h) /\ Quieter(k, j.h) /\ ~j.h.mxr["graphic0"].on
    BY <1>3
  <2>3. Same(j.h, o.h) /\ Quieter(j.h, o.h) /\ ~o.h.mxr["graphic1"].on
    BY <2>1, <2>2, StopLayerDoes DEF Layers, Graphics, Same
  <2>4. ~o.h.mxr["graphic0"].on
    BY <2>2, <2>3 DEF Quieter, Graphics
  <2> QED BY <2>2, <2>3, <2>4, SameTrans DEF Quieter, Graphics
<1> QED BY <1>1, <1>2, <1>3, <1>4
-----------------------------------------------------------------------------
(* What holds of the object between two methods, and inside one. *)

\* The television has what TvInit last set, and the preset is that of the resolution.
TvCore(k) ==
  /\ k.tv = k.curPreset
  /\ k.curRes # None => k.preset = k.curRes
  /\ k.res \in Res

PathOK(k) == k.connected /\ ~k.pathChange => k.curPath = k.path

TvOK(k) == k.connected /\ ~k.infoChange => k.curMode = k.mode /\ k.tv = k.res

\* A rectangle of a frame on a screen: scaled, or of the frame's own size.
Placed(rect, src, size) == rect.size = OwnSize(src) \/ rect = CalRect(src, size)

\* A mixer set up for the frame of a memo, with a rectangle of the size noted.
Fits(set, memo, size) ==
  /\ set.src = memo.src /\ set.size = memo.size /\ set.rect.size = size
  /\ Placed(set.rect, memo.src, memo.size)

\* The memo of a graphic layer is what its mixer is set up for.
MemoOK(k) ==
  \A g \in Graphics : k.memo[g] # Blank => Fits(k.mxr[g].setup, k.memo[g], k.prev[g])

Good(k) == Shape(k) /\ TvCore(k) /\ PathOK(k) /\ TvOK(k) /\ MemoOK(k)

\* Between k and j only what belongs to the layers changed.
Layered(k, j) ==
  \A x \in Fields \ {"out", "cap", "mxr", "memo", "prev"} : j[x] = k[x]

LEMMA LayeredTrans ==
  ASSUME NEW i, NEW j, NEW k, Layered(i, j), Layered(j, k)
  PROVE  Layered(i, k)
BY DEF Layered

LEMMA GoodLayered ==
  ASSUME NEW k, Good(k), NEW j, Shape(j), Layered(k, j), MemoOK(j)
  PROVE  Good(j)
<1>1. /\ j.tv = k.tv /\ j.curPreset = k.curPreset /\ j.curRes = k.curRes
      /\ j.preset = k.preset /\ j.res = k.res /\ j.connected = k.connected
      /\ j.pathChange = k.pathChange /\ j.curPath = k.curPath /\ j.path = k.path
      /\ j.infoChange = k.infoChange /\ j.curMode = k.curMode /\ j.mode = k.mode
  BY DEF Layered, Fields
<1>2. TvCore(j)
  BY <1>1 DEF Good, TvCore
<1>3. PathOK(j)
  BY <1>1 DEF Good, PathOK
<1>4. TvOK(j)
  BY <1>1 DEF Good, TvOK
<1> QED BY <1>2, <1>3, <1>4 DEF Good

LEMMA GoodSame ==
  ASSUME NEW k, Good(k), NEW j, Same(k, j)
  PROVE  Good(j) /\ Layered(k, j) /\ j.memo = k.memo /\ j.prev = k.prev
<1>1. Layered(k, j) /\ Shape(j) /\ j.memo = k.memo /\ j.prev = k.prev
  BY DEF Same, Layered, Fields
<1>2. MemoOK(j)
  BY <1>1 DEF Same, MemoOK, Good
<1> QED BY <1>1, <1>2, GoodLayered

LEMMA SetPrev ==
  ASSUME NEW k, Good(k), NEW l \in Layers, NEW r, l \in Graphics => k.memo[l] = Blank
  PROVE  LET j == [k EXCEPT !.prev[l] = r]
         IN  Good(j) /\ Layered(k, j) /\ j.prev[l] = r /\ j.mxr = k.mxr /\ j.memo = k.memo
<1> DEFINE j == [k EXCEPT !.prev[l] = r]
           p == [k.prev EXCEPT ![l] = r]
<1>1. Shape(k)
  BY DEF Good
<1>2. j = [x \in Fields |-> IF x = "prev" THEN p ELSE k[x]]
  BY <1>1 DEF Shape, Fields
<1>3. p = [x \in Layers |-> p[x]] /\ p[l] = r /\ \A x \in Layers : x # l => p[x] = k.prev[x]
  BY <1>1 DEF Shape
<1> HIDE DEF j, p
<1>4. /\ j = [x \in Fields |-> j[x]] /\ j.prev = p /\ j.mxr = k.mxr /\ j.memo = k.memo
      /\ \A s \in Scalers : j[s] = k[s]
  BY <1>2 DEF Fields, Scalers
<1>5. Shape(j)
  BY <1>1, <1>3, <1>4 DEF Shape
<1>6. Layered(k, j)
  BY <1>2 DEF Layered
<1>7. MemoOK(j)
  BY <1>3, <1>4 DEF Good, MemoOK, Layers
<1> QED BY <1>3, <1>4, <1>5, <1>6, <1>7, GoodLayered DEF j

LEMMA ForgetDoes ==
  ASSUME NEW k, Shape(k), NEW l \in Layers,
         \A g \in Graphics : g # l /\ k.memo[g] # Blank =>
           Fits(k.mxr[g].setup, k.memo[g], k.prev[g])
  PROVE  /\ Shape(Forget(l, k)) /\ Layered(k, Forget(l, k)) /\ MemoOK(Forget(l, k))
         /\ Forget(l, k).memo[l] = Blank
<1> DEFINE j == Forget(l, k)
           m == [k.memo EXCEPT ![l] = Blank]
<1>1. j = [x \in Fields |-> IF x = "memo" THEN m ELSE k[x]]
  BY DEF Shape, Fields, Forget
<1>2. /\ m = [x \in Layers |-> m[x]] /\ m[l] = Blank
      /\ \A x \in Layers : x # l => m[x] = k.memo[x]
  BY DEF Shape
<1> HIDE DEF j, m
<1>3. /\ j = [x \in Fields |-> j[x]] /\ j.prev = k.prev /\ j.mxr = k.mxr /\ j.memo = m
      /\ \A s \in Scalers : j[s] = k[s]
  BY <1>1 DEF Fields, Scalers
<1>4. Shape(j)
  BY <1>2, <1>3 DEF Shape
<1>5. Layered(k, j)
  BY <1>1 DEF Layered
<1>6. MemoOK(j)
  BY <1>2, <1>3 DEF MemoOK, Layers
<1> QED BY <1>2, <1>3, <1>4, <1>5, <1>6 DEF j

\* A cleared layer remembers nothing.
LEMMA ClearBufferDoes ==
  ASSUME NEW k, Good(k), NEW l \in Layers, NEW o \in ClearBuffer(l, k)
  PROVE  Good(o.h) /\ Layered(k, o.h) /\ (o.ok => o.h.memo[l] = Blank)
<1>0. Shape(k)
  BY DEF Good
<1> DEFINE set == [k EXCEPT !.mxr[l] = [setup |-> NoSetup, on |-> FALSE]]
           low == [k EXCEPT !.mxr[l].on = FALSE]
<1>1. PICK i : /\ \/ l = "video" /\ i \in StopExclusive("out", k)
                  \/ l # "video" /\ (i \in Ok(set) \/ i \in May("mixer", low))
               /\ \/ o = i /\ ~o.ok
                  \/ i.ok /\ o \in Ok(Forget(l, i.h))
  BY DEF ClearBuffer, Chain
<1>2. CASE l = "video"
  <2>1. Same(k, i.h)
    BY <1>0, <1>1, <1>2, StopExclusiveDoes, OneScalerSame DEF Scalers
  <2>2. Good(i.h) /\ Layered(k, i.h)
    BY <2>1, GoodSame
  <2>3. CASE o \in Ok(Forget(l, i.h))
    <3>1. Shape(i.h) /\ MemoOK(i.h)
      BY <2>2 DEF Good
    <3>2. /\ Shape(Forget(l, i.h)) /\ Layered(i.h, Forget(l, i.h)) /\ MemoOK(Forget(l, i.h))
          /\ Forget(l, i.h).memo[l] = Blank
      BY <3>1, ForgetDoes DEF MemoOK
    <3>3. o.h = Forget(l, i.h)
      BY <2>3, OkIs
    <3> QED BY <2>2, <3>2, <3>3, GoodLayered, LayeredTrans
  <2> QED BY <1>1, <2>2, <2>3
<1>3. CASE l # "video"
  <2>1. l \in Graphics
    BY <1>3 DEF Layers
  <2> DEFINE x == [setup |-> NoSetup, on |-> FALSE]
  <2>2. OneMixer(l, k, set)
    <3>1. x = [setup |-> x.setup, on |-> x.on]
      OBVIOUS
    <3> HIDE DEF x
    <3>2. OneMixer(l, k, [k EXCEPT !.mxr[l] = x])
      BY <1>0, <2>1, <3>1, SetMixer
    <3> QED BY <3>2 DEF x
  <2>3. OneMixer(l, k, low) /\ low.mxr[l].setup = k.mxr[l].setup
    <3>1. ASSUME NEW b
          PROVE  /\ OneMixer(l, k, [k EXCEPT !.mxr[l].on = b])
                 /\ [k EXCEPT !.mxr[l].on = b].mxr[l].setup = k.mxr[l].setup
      <4> DEFINE j == [k EXCEPT !.mxr[l].on = b]
      <4>1. OneMixer(l, k, j) /\ j.mxr[l] = [setup |-> k.mxr[l].setup, on |-> b]
        BY <1>0, <2>1, SetStream
      <4> HIDE DEF j
      <4>2. j.mxr[l].setup = k.mxr[l].setup
        BY <4>1
      <4> QED BY <4>1, <4>2 DEF j
    <3> QED BY <3>1, Zenon
  <2> HIDE DEF set, low
  <2>4. CASE i \in May("mixer", low)
    <3>1. i.h = low /\ ~i.ok
      BY <2>4, MayIs
    <3>2. Same(k, low)
      BY <2>1, <2>3, OneMixerSame
    <3> QED BY <1>1, <3>1, <3>2, GoodSame
  <2>5. CASE i \in Ok(set)
    <3>1. i.h = set /\ i.ok
      BY <2>5, OkIs
    <3>2. o.h = Forget(l, set)
      BY <1>1, <3>1, OkIs
    <3>3. Shape(set) /\ Layered(k, set) /\ set.memo = k.memo /\ set.prev = k.prev
      BY <2>2 DEF OneMixer, Layered, Fields
    <3>4. \A g \in Graphics : g # l /\ set.memo[g] # Blank =>
            Fits(set.mxr[g].setup, set.memo[g], set.prev[g])
      BY <2>2, <3>3 DEF OneMixer, Good, MemoOK
    <3>5. /\ Shape(o.h) /\ Layered(set, o.h) /\ MemoOK(o.h) /\ o.h.memo[l] = Blank
      BY <3>2, <3>3, <3>4, ForgetDoes
    <3> QED BY <3>3, <3>5, GoodLayered, LayeredTrans
  <2> QED BY <1>1, <1>3, <2>4, <2>5
<1> QED BY <1>2, <1>3
-----------------------------------------------------------------------------
(* m_reset. *)

LEMMA PathScalers ==
  ASSUME NEW p
  PROVE  ScalerOf(p) \in Scalers
BY DEF ScalerOf, Scalers

\* Fields of their own: nothing of the scalers and the layers.
Plain == Fields \ {"out", "cap", "mxr", "memo", "prev"}

LEMMA PlainShape ==
  ASSUME NEW k, Shape(k), NEW j, j = [x \in Fields |-> j[x]],
         \A x \in Fields \ Plain : j[x] = k[x], MemoOK(k)
  PROVE  Shape(j) /\ MemoOK(j)
<1>1. /\ j.mxr = k.mxr /\ j.memo = k.memo /\ j.prev = k.prev
      /\ \A s \in Scalers : j[s] = k[s]
  BY DEF Plain, Fields, Scalers
<1> QED BY <1>1 DEF Shape, MemoOK

\* What a change of path leaves alone.
Requested == {"connected", "path", "pathChange", "infoChange", "dst", "curRes", "res"}

\* After a change of path that worked the path is the one asked for.
LEMMA ChangePathDoes ==
  ASSUME NEW k, Good(k), k.pathChange, NEW o \in ChangePath(k)
  PROVE  /\ Good(o.h) /\ (o.ok => o.h.curPath = o.h.path)
         /\ \A x \in Requested : o.h[x] = k[x]
<1> DEFINE old == ScalerOf(k.curPath)
           new == ScalerOf(k.path)
<1>0. Shape(k) /\ old \in Scalers /\ new \in Scalers
  BY PathScalers DEF Good
<1>1. CASE k.curPath = k.path
  <2>1. o.h = k
    BY <1>1, OkIs DEF ChangePath
  <2> QED BY <1>1, <2>1
<1>2. CASE k.curPath # k.path
  <2>1. PICK i \in StopAndFree(old, k) :
          \/ o = i /\ ~o.ok
          \/ \E j \in Make(new, [i.h EXCEPT ![old] = NoHandle]) :
                \/ o = j /\ ~o.ok
                \/ o \in Ok([j.h EXCEPT !.curPath = k.path])
                \/ o \in May("mixer", [j.h EXCEPT !.curPath = k.path])
    <3> HIDE DEF old, new
    <3>1. PICK i \in StopAndFree(old, k) :
            \/ o = i /\ ~o.ok
            \/ o \in Chain(Make(new, [i.h EXCEPT ![old] = NoHandle]), LAMBDA j :
                            LET moved == [j EXCEPT !.curPath = k.path]
                            IN  Ok(moved) \cup May("mixer", moved))
      BY <1>2 DEF ChangePath, Chain, old, new
    <3> QED BY <3>1 DEF Chain
  <2> HIDE DEF old, new
  <2>2. Same(k, i.h)
    BY <1>0, StopAndFreeDoes
  <2>3. ASSUME NEW j \in Make(new, [i.h EXCEPT ![old] = NoHandle])
        PROVE  Same(k, j.h)
    <3> DEFINE m == [i.h EXCEPT ![old] = NoHandle]
    <3>1. Same(i.h, m)
      BY <1>0, <2>2, NoHandleSet DEF Same
    <3> HIDE DEF m
    <3>2. Same(m, j.h)
      <4>1. j \in Make(new, m) /\ Shape(m)
        BY <3>1 DEF m, Same
      <4> QED BY <1>0, <4>1, MakeDoes
    <3> QED BY <2>2, <3>1, <3>2, SameTrans
  <2>4. ASSUME NEW j, Same(k, j)
        PROVE  /\ Good(j) /\ Good([j EXCEPT !.curPath = k.path])
               /\ [j EXCEPT !.curPath = k.path].curPath = [j EXCEPT !.curPath = k.path].path
               /\ \A x \in Requested :
                     j[x] = k[x] /\ [j EXCEPT !.curPath = k.path][x] = k[x]
    <3> DEFINE m == [j EXCEPT !.curPath = k.path]
    <3>1. Good(j) /\ \A x \in Fields \ {"out", "cap", "mxr"} : j[x] = k[x]
      BY <2>4, GoodSame DEF Same
    <3>2. m = [x \in Fields |-> IF x = "curPath" THEN k.path ELSE j[x]]
      BY <3>1 DEF Good, Shape, Fields
    <3> HIDE DEF m
    <3>3. m = [x \in Fields |-> m[x]] /\ \A x \in Fields \ Plain : m[x] = j[x]
      BY <3>2 DEF Plain, Fields
    <3>4. Shape(m) /\ MemoOK(m)
      BY <3>1, <3>3, PlainShape DEF Good
    <3>5. /\ m.tv = j.tv /\ m.curPreset = j.curPreset /\ m.curRes = j.curRes
          /\ m.preset = j.preset /\ m.res = j.res /\ m.connected = j.connected
          /\ m.infoChange = j.infoChange /\ m.curMode = j.curMode /\ m.mode = j.mode
          /\ m.curPath = k.path /\ m.path = j.path /\ j.path = k.path
          /\ m.pathChange = j.pathChange /\ j.pathChange = k.pathChange
          /\ j.connected = k.connected /\ j.infoChange = k.infoChange
          /\ m.dst = j.dst /\ j.dst = k.dst /\ j.curRes = k.curRes /\ j.res = k.res
      BY <3>1, <3>2 DEF Fields
    <3>6. TvCore(m)
      BY <3>1, <3>5 DEF Good, TvCore
    <3>7. TvOK(m)
      BY <3>1, <3>5 DEF Good, TvOK
    <3>8. PathOK(m)
      BY <3>5 DEF PathOK
    <3> QED BY <3>1, <3>4, <3>5, <3>6, <3>7, <3>8 DEF Good, Requested, m
  <2>5. CASE o = i /\ ~o.ok
    BY <2>2, <2>4, <2>5
  <2>6. ASSUME NEW j \in Make(new, [i.h EXCEPT ![old] = NoHandle]),
               \/ o = j /\ ~o.ok
               \/ o \in Ok([j.h EXCEPT !.curPath = k.path])
               \/ o \in May("mixer", [j.h EXCEPT !.curPath = k.path])
        PROVE  /\ Good(o.h) /\ (o.ok => o.h.curPath = o.h.path)
               /\ \A x \in Requested : o.h[x] = k[x]
    <3>1. Same(k, j.h)
      BY <2>3
    <3>2. \/ o = j /\ ~o.ok
          \/ o.h = [j.h EXCEPT !.curPath = k.path]
      BY <2>6, OkIs, MayIs
    <3>3. CASE o = j /\ ~o.ok
      BY <2>4, <3>1, <3>3
    <3>4. CASE o.h = [j.h EXCEPT !.curPath = k.path]
      <4> DEFINE m == j.h
      <4> HIDE DEF m
      <4>1. Same(k, m) /\ o.h = [m EXCEPT !.curPath = k.path]
        BY <3>1, <3>4 DEF m
      <4> QED BY <2>4, <4>1
    <3> QED BY <3>2, <3>3, <3>4
  <2> QED BY <2>1, <2>5, <2>6
<1> QED BY <1>1, <1>2

\* What a reset is asked for, and which changes are pending.
Asked == {"connected", "path", "mode", "res", "curPath", "pathChange", "infoChange"}

LEMMA SetResolutionDoes ==
  ASSUME NEW k, Good(k), NEW r \in Res
  PROVE  LET j == SetResolution(r, k)
         IN  /\ Good(j) /\ j.curRes = r /\ j.preset = r /\ j.curMode = k.curMode
             /\ j.tv = k.tv /\ j.mxr = k.mxr /\ \A x \in Asked \cup Scalers : j[x] = k[x]
<1>1. CASE k.curRes = r
  BY <1>1, HdmiAssumption DEF None, SetResolution, Good, TvCore
<1>2. CASE k.curRes # r
  <2> DEFINE j == SetResolution(r, k)
             z == SizeOf[r]
  <2>1. j = [x \in Fields |-> CASE x = "curRes" -> r [] x = "preset" -> r [] x = "dst" -> z
                                [] OTHER -> k[x]]
    BY <1>2 DEF SetResolution, Good, Shape, Fields
  <2> HIDE DEF j, z
  <2>2. /\ j = [x \in Fields |-> j[x]] /\ j.curRes = r /\ j.preset = r
        /\ \A x \in Fields \ {"curRes", "preset", "dst"} : j[x] = k[x]
    BY <2>1 DEF Fields
  <2>3. Shape(j) /\ MemoOK(j)
    BY <2>2, PlainShape DEF Good, Plain, Fields
  <2>4. /\ j.tv = k.tv /\ j.curPreset = k.curPreset /\ j.res = k.res
        /\ j.connected = k.connected /\ j.mxr = k.mxr
        /\ j.pathChange = k.pathChange /\ j.curPath = k.curPath /\ j.path = k.path
        /\ j.infoChange = k.infoChange /\ j.curMode = k.curMode /\ j.mode = k.mode
    BY <2>2 DEF Fields
  <2>5. TvCore(j)
    BY <2>2, <2>4 DEF Good, TvCore
  <2>6. PathOK(j)
    BY <2>4 DEF Good, PathOK
  <2>7. TvOK(j)
    BY <2>4 DEF Good, TvOK
  <2>8. \A x \in Asked \cup Scalers : j[x] = k[x]
    BY <2>2 DEF Asked, Scalers, Fields
  <2> QED BY <2>2, <2>3, <2>4, <2>5, <2>6, <2>7, <2>8 DEF Good, j
<1> QED BY <1>1, <1>2

\* After TvInit the television has the preset; until then the change stays pending.
LEMMA TvInitDoes ==
  ASSUME NEW k, Good(k), k.infoChange, NEW o \in TvInit(k)
  PROVE  /\ Good(o.h) /\ (o.ok => o.h.tv = k.preset)
         /\ \A x \in Asked : o.h[x] = k[x]
         /\ o.h.curMode = k.curMode /\ o.h.curRes = k.curRes /\ o.h.dst = k.dst
<1>1. CASE k.curPreset = k.preset
  <2>1. o.h = k
    BY <1>1, OkIs DEF TvInit
  <2> QED BY <1>1, <2>1 DEF Good, TvCore
<1>2. CASE k.curPreset # k.preset
  <2>1. PICK i \in StopLayers(Layers, k) :
          \/ o = i /\ ~o.ok
          \/ o \in Ok([i.h EXCEPT !.tv = i.h.preset, !.curPreset = i.h.preset])
          \/ o \in May("tvout", i.h)
    BY <1>2 DEF TvInit, Chain
  <2> DEFINE j == i.h
             n == [j EXCEPT !.tv = j.preset, !.curPreset = j.preset]
  <2>2. Same(k, j)
    BY StopLayersDoes DEF Good
  <2>3. Good(j) /\ Layered(k, j)
    BY <2>2, GoodSame
  <2>4. (o.h = j /\ ~o.ok) \/ o.h = n
    BY <2>1, OkIs, MayIs
  <2> HIDE DEF j, n
  <2>5. /\ \A x \in Asked : j[x] = k[x]
        /\ j.curMode = k.curMode /\ j.preset = k.preset /\ j.infoChange
        /\ j.curRes = k.curRes /\ j.dst = k.dst
    BY <2>3 DEF Layered, Asked, Fields
  <2>6. n = [x \in Fields |-> CASE x = "tv" -> j.preset [] x = "curPreset" -> j.preset
                                [] OTHER -> j[x]]
    BY <2>3 DEF Good, Shape, Fields, n
  <2>7. /\ n = [x \in Fields |-> n[x]] /\ n.tv = j.preset /\ n.curPreset = j.preset
        /\ \A x \in Fields \ {"tv", "curPreset"} : n[x] = j[x]
    BY <2>6 DEF Fields
  <2>8. Shape(n) /\ MemoOK(n)
    BY <2>3, <2>7, PlainShape DEF Good, Plain, Fields
  <2>9. /\ n.preset = j.preset /\ n.curRes = j.curRes /\ n.res = j.res
        /\ n.connected = j.connected /\ n.pathChange = j.pathChange /\ n.path = j.path
        /\ n.curPath = j.curPath /\ n.infoChange = j.infoChange /\ n.curMode = j.curMode
        /\ n.dst = j.dst /\ \A x \in Asked : n[x] = j[x]
    BY <2>7 DEF Asked, Fields
  <2>10. TvCore(n)
    BY <2>3, <2>7, <2>9 DEF Good, TvCore
  <2>11. PathOK(n)
    BY <2>3, <2>9 DEF Good, PathOK
  <2>12. TvOK(n)
    BY <2>5, <2>9 DEF TvOK
  <2> QED BY <2>3, <2>4, <2>5, <2>7, <2>8, <2>9, <2>10, <2>11, <2>12 DEF Good
<1> QED BY <1>1, <1>2

LEMMA ApplyInfoDoes ==
  ASSUME NEW k, Good(k), k.connected, k.pathChange => k.infoChange,
         k.curRes = k.res, NEW o \in ApplyInfo(k)
  PROVE  /\ Good(o.h) /\ (o.ok => o.h.curMode = o.h.mode /\ o.h.tv = o.h.res)
         /\ \A x \in Asked : o.h[x] = k[x]
         /\ o.h.curRes = k.curRes /\ o.h.dst = k.dst
<1>1. CASE ~k.infoChange
  <2>1. o.h = k
    BY <1>1, OkIs DEF ApplyInfo
  <2> QED BY <1>1, <2>1 DEF Good, TvOK
<1>2. CASE k.infoChange
  <2> DEFINE i == [k EXCEPT !.curMode = k.mode]
             j == SetResolution(k.res, i)
  <2>1. o \in TvInit(j)
    BY <1>2 DEF ApplyInfo
  <2>2. i = [x \in Fields |-> IF x = "curMode" THEN k.mode ELSE k[x]]
    BY DEF Good, Shape, Fields
  <2> HIDE DEF i
  <2>3. /\ i = [x \in Fields |-> i[x]] /\ i.curMode = k.mode
        /\ \A x \in Fields \ {"curMode"} : i[x] = k[x]
    BY <2>2 DEF Fields
  <2>4. Shape(i) /\ MemoOK(i)
    BY <2>3, PlainShape DEF Good, Plain, Fields
  <2>5. /\ i.preset = k.preset /\ i.curRes = k.curRes /\ i.res = k.res /\ i.tv = k.tv
        /\ i.connected = k.connected /\ i.pathChange = k.pathChange /\ i.path = k.path
        /\ i.curPath = k.curPath /\ i.infoChange = k.infoChange
        /\ i.curPreset = k.curPreset /\ i.mode = k.mode /\ i.dst = k.dst
        /\ \A x \in Asked : i[x] = k[x]
    BY <2>3 DEF Asked, Fields
  <2>6. TvCore(i)
    BY <2>5 DEF Good, TvCore
  <2>7. PathOK(i)
    BY <2>5 DEF Good, PathOK
  <2>8. TvOK(i)
    BY <1>2, <2>5 DEF TvOK
  <2>9. Good(i) /\ k.res \in Res
    BY <2>4, <2>6, <2>7, <2>8 DEF Good, TvCore
  <2>10. /\ Good(j) /\ j.curRes = k.res /\ j.preset = k.res /\ j.curMode = i.curMode
         /\ \A x \in Asked : j[x] = i[x]
    BY <2>9, SetResolutionDoes
  <2>14. j = i
    BY <2>5 DEF SetResolution, j
  <2> HIDE DEF j
  <2>11. j.infoChange /\ j.mode = k.mode /\ j.res = k.res
    BY <1>2, <2>5, <2>10 DEF Asked
  <2>12. /\ Good(o.h) /\ (o.ok => o.h.tv = j.preset)
         /\ (\A x \in Asked : o.h[x] = j[x]) /\ o.h.curMode = j.curMode
         /\ o.h.curRes = j.curRes /\ o.h.dst = j.dst
    BY <2>1, <2>10, <2>11, TvInitDoes
  <2>13. o.h.mode = k.mode /\ o.h.res = k.res
    BY <2>11, <2>12 DEF Asked
  <2> QED BY <2>3, <2>5, <2>10, <2>12, <2>13, <2>14
<1> QED BY <1>1, <1>2

\* What a reset of a layer leaves: nothing but layers changed, and if it worked the mixer
\* has what the memo is going to say.
Ready(f, k, j) ==
  f.layer \in Graphics =>
    Fits(j.mxr[f.layer].setup, [src |-> f.src, size |-> k.dst], j.prev[f.layer])

LEMMA ResetVideoDoes ==
  ASSUME NEW k, Good(k), NEW f, NEW o \in ResetVideo(f, k)
  PROVE  Good(o.h) /\ Layered(k, o.h)
<1>1. PICK i : /\ i \in Ok(k) \/ i \in ClearBuffer("video", k)
               /\ \/ o = i
                  \/ \E j \in Configure("out", i.h) :
                        \/ o = j
                        \/ o \in Ok([j.h EXCEPT !.prev["video"] = k.dst])
  <2>1. PICK i : /\ i \in Ok(k) \/ i \in ClearBuffer("video", k)
                 /\ \/ o = i
                    \/ o \in Chain(Configure("out", i.h), LAMBDA j :
                               Ok([j EXCEPT !.prev["video"] = k.dst]))
    BY DEF ResetVideo, Chain
  <2> QED BY <2>1 DEF Chain
<1>2. Good(i.h) /\ Layered(k, i.h)
  BY <1>1, OkIs, ClearBufferDoes DEF Layers, Layered
<1>3. ASSUME NEW j \in Configure("out", i.h)
      PROVE  Good(j.h) /\ Layered(k, j.h)
  <2>1. Same(i.h, j.h)
    BY <1>2, ConfigureDoes DEF Scalers, Good
  <2> QED BY <1>2, <2>1, GoodSame, LayeredTrans
<1>4. ASSUME NEW j \in Configure("out", i.h),
             o \in Ok([j.h EXCEPT !.prev["video"] = k.dst])
      PROVE  Good(o.h) /\ Layered(k, o.h)
  <2> DEFINE m == j.h
             r == k.dst
  <2>1. o.h = [m EXCEPT !.prev["video"] = r]
    BY <1>4, OkIs
  <2>2. Good(m) /\ Layered(k, m)
    BY <1>3
  <2> HIDE DEF m, r
  <2>3. Good(o.h) /\ Layered(m, o.h)
    BY <2>1, <2>2, SetPrev DEF Layers, Graphics
  <2> QED BY <2>2, <2>3, LayeredTrans
<1> QED BY <1>1, <1>2, <1>3, <1>4

LEMMA ResetCaptureDoes ==
  ASSUME NEW k, Good(k), NEW f, NEW o \in ResetCapture(f, k)
  PROVE  Good(o.h) /\ Layered(k, o.h)
<1>1. CASE f.mode # "mirror"
  <2>1. o.h = k
    BY <1>1, OkIs DEF ResetCapture
  <2> QED BY <2>1 DEF Layered
<1>2. CASE f.mode = "mirror"
  <2>1. PICK j : /\ \/ j \in Ok(k)
                    \/ j \in Chain(StopExclusive("cap", k), LAMBDA i : Configure("cap", i))
                 /\ o = j \/ o \in Ok([j.h EXCEPT !.prev["video"] = NoSize])
    BY <1>2 DEF ResetCapture, Chain
  <2>2. ASSUME j \in Chain(StopExclusive("cap", k), LAMBDA i : Configure("cap", i))
        PROVE  Same(k, j.h)
    <3>1. PICK i \in StopExclusive("cap", k) : j = i \/ j \in Configure("cap", i.h)
      BY <2>2 DEF Chain
    <3>2. Same(k, i.h)
      BY StopExclusiveDoes, OneScalerSame DEF Scalers, Good
    <3> QED BY <3>1, <3>2, ConfigureDoes, SameTrans DEF Scalers, Same
  <2>3. j \in Ok(k) => j.h = k
    BY OkIs
  <2>4. Good(j.h) /\ Layered(k, j.h)
    BY <2>1, <2>2, <2>3, GoodSame DEF Layered
  <2>5. CASE o \in Ok([j.h EXCEPT !.prev["video"] = NoSize])
    <3> DEFINE m == j.h
    <3>1. o.h = [m EXCEPT !.prev["video"] = NoSize]
      BY <2>5, OkIs
    <3>2. Good(m) /\ Layered(k, m)
      BY <2>4
    <3> HIDE DEF m
    <3>3. Good(o.h) /\ Layered(m, o.h)
      BY <3>1, <3>2, SetPrev DEF Layers, Graphics
    <3> QED BY <3>2, <3>3, LayeredTrans
  <2> QED BY <2>1, <2>4, <2>5
<1> QED BY <1>1, <1>2

\* The mixer of a cleared layer is set up, and the rectangle written down.
LEMMA SetSetup ==
  ASSUME NEW k, Good(k), NEW l \in Graphics, k.memo[l] = Blank, NEW z
  PROVE  LET j == SetUp(l, z, k)
         IN  Good(j) /\ Layered(k, j) /\ j.mxr[l].setup = z /\ j.prev[l] = z.rect.size
<1> DEFINE j == SetUp(l, z, k)
           r == z.rect.size
           x == [setup |-> z, on |-> k.mxr[l].on]
           i == [k EXCEPT !.mxr[l] = x]
<1>1. [k.mxr[l] EXCEPT !.setup = z] = x
  <2> DEFINE y == k.mxr[l]
  <2>1. y = [setup |-> y.setup, on |-> y.on]
    BY DEF Good, Shape
  <2> HIDE DEF y
  <2>2. [y EXCEPT !.setup = z] = [setup |-> z, on |-> y.on]
    BY <2>1
  <2> QED BY <2>2 DEF y
<1>2. x = [setup |-> x.setup, on |-> x.on] /\ x.setup = z
  OBVIOUS
<1> HIDE DEF x, r
<1>3. j = [i EXCEPT !.prev[l] = r]
  BY <1>1 DEF SetUp, r
<1>4. OneMixer(l, k, i) /\ i.mxr[l] = x
  BY <1>2, SetMixer DEF Good
<1> HIDE DEF i
<1>5. Shape(i) /\ Layered(k, i) /\ i.memo = k.memo /\ i.prev = k.prev
  BY <1>4 DEF OneMixer, Layered, Fields
<1>6. MemoOK(i)
  BY <1>4, <1>5 DEF Good, MemoOK, OneMixer
<1>7. Good(i)
  BY <1>5, <1>6, GoodLayered
<1> HIDE DEF j
<1>8. Good(j) /\ Layered(i, j) /\ j.prev[l] = r /\ j.mxr = i.mxr
  BY <1>3, <1>5, <1>7, SetPrev DEF Layers
<1> QED BY <1>2, <1>4, <1>5, <1>8, LayeredTrans DEF j, r

LEMMA ResetGraphicDoes ==
  ASSUME NEW k, Good(k), NEW f, f.layer \in Graphics, NEW rect,
         Placed(rect, f.src, k.dst), NEW o \in ResetGraphic(f, rect, k)
  PROVE  Good(o.h) /\ Layered(k, o.h) /\ (o.ok => Ready(f, k, o.h))
<1> DEFINE z == [src |-> f.src, size |-> k.dst, rect |-> rect]
           l == f.layer
<1>1. PICK i \in ResetCapture(f, k) :
        \/ o = i /\ ~o.ok
        \/ o \in Chain(ClearBuffer(l, i.h), LAMBDA j :
                   Ok(SetUp(l, z, j)) \cup May("mixer", j))
  BY DEF ResetGraphic, Chain
<1>2. Good(i.h) /\ Layered(k, i.h)
  BY ResetCaptureDoes
<1>3. CASE o \in Chain(ClearBuffer(l, i.h), LAMBDA j :
                   Ok(SetUp(l, z, j)) \cup May("mixer", j))
  <2>1. PICK n \in ClearBuffer(l, i.h) :
          \/ o = n /\ ~o.ok
          \/ n.ok /\ \/ o \in Ok(SetUp(l, z, n.h))
                     \/ o \in May("mixer", n.h)
    BY <1>3 DEF Chain
  <2> DEFINE m == n.h
  <2>2. /\ Good(m) /\ Layered(k, m)
        /\ n.ok => m.memo[l] = Blank
    BY <1>2, ClearBufferDoes, LayeredTrans DEF Layers
  <2>3. \/ o.h = m /\ ~o.ok
        \/ n.ok /\ o.h = SetUp(l, z, m)
    BY <2>1, OkIs, MayIs
  <2> HIDE DEF m, l, z
  <2>4. CASE n.ok /\ o.h = SetUp(l, z, m)
    <3>1. /\ Good(o.h) /\ Layered(m, o.h)
          /\ o.h.mxr[l].setup = z /\ o.h.prev[l] = rect.size
      <4>1. Good(m) /\ m.memo[l] = Blank /\ l \in Graphics
        BY <2>2, <2>4 DEF l
      <4>2. z.rect.size = rect.size
        BY DEF z
      <4> QED BY <2>4, <4>1, <4>2, SetSetup
    <3>2. z.src = f.src /\ z.size = k.dst /\ z.rect = rect
      BY DEF z
    <3>3. Fits(z, [src |-> f.src, size |-> k.dst], rect.size)
      BY <3>2 DEF Fits
    <3>4. Ready(f, k, o.h)
      BY <3>1, <3>3 DEF Ready, l
    <3> QED BY <2>2, <3>1, <3>4, LayeredTrans
  <2> QED BY <2>2, <2>3, <2>4
<1> QED BY <1>1, <1>2, <1>3

\* When all of it worked, the memo is written and no change is pending any more.
LEMMA RememberDoes ==
  ASSUME NEW k, Good(k), NEW f, f.layer \in Layers, Ready(f, k, k),
         k.curPath = k.path, k.curMode = k.mode, k.tv = k.res
  PROVE  /\ Good(Remember(f, k)) /\ Remember(f, k).connected = k.connected
         /\ Remember(f, k).curRes = k.curRes /\ Remember(f, k).res = k.res
<1> DEFINE j == Remember(f, k)
           l == f.layer
           m == [k.memo EXCEPT ![l] = [src |-> f.src, size |-> k.dst]]
<1>1. j = [x \in Fields |-> CASE x = "memo" -> m [] x = "pathChange" -> FALSE
                              [] x = "infoChange" -> FALSE [] OTHER -> k[x]]
  BY DEF Remember, Good, Shape, Fields
<1>2. /\ m = [x \in Layers |-> m[x]] /\ m[l] = [src |-> f.src, size |-> k.dst]
      /\ \A x \in Layers : x # l => m[x] = k.memo[x]
  BY DEF Good, Shape
<1> HIDE DEF j, m, l
<1>3. /\ j = [x \in Fields |-> j[x]] /\ j.memo = m /\ j.prev = k.prev /\ j.mxr = k.mxr
      /\ \A x \in Fields \ {"memo", "pathChange", "infoChange"} : j[x] = k[x]
      /\ \A s \in Scalers : j[s] = k[s]
  BY <1>1 DEF Fields, Scalers
<1>4. Shape(j)
  BY <1>2, <1>3 DEF Good, Shape
<1>5. MemoOK(j)
  <2> SUFFICES ASSUME NEW g \in Graphics, j.memo[g] # Blank
               PROVE  Fits(j.mxr[g].setup, j.memo[g], j.prev[g])
    BY DEF MemoOK
  <2>1. CASE g = l
    <3>1. Fits(k.mxr[l].setup, [src |-> f.src, size |-> k.dst], k.prev[l])
      BY <2>1 DEF Ready, l
    <3> QED BY <1>2, <1>3, <2>1, <3>1
  <2>2. CASE g # l
    BY <1>2, <1>3, <2>2 DEF Good, MemoOK, Layers
  <2> QED BY <2>1, <2>2
<1>6. /\ j.preset = k.preset /\ j.curRes = k.curRes /\ j.res = k.res /\ j.tv = k.tv
      /\ j.connected = k.connected /\ j.path = k.path /\ j.curPath = k.curPath
      /\ j.curPreset = k.curPreset /\ j.mode = k.mode /\ j.curMode = k.curMode
  BY <1>3 DEF Fields
<1>7. TvCore(j) /\ PathOK(j) /\ TvOK(j)
  BY <1>6 DEF Good, TvCore, PathOK, TvOK
<1> QED BY <1>4, <1>5, <1>6, <1>7 DEF Good, j

LEMMA ResetDoes ==
  ASSUME NEW k, Good(k), k.connected, k.curRes = k.res, NEW f, f.layer \in Layers,
         NEW rect, f.layer \in Graphics => Placed(rect, f.src, k.dst),
         NEW o \in Reset(f, rect, k)
  PROVE  Good(o.h) /\ o.h.connected /\ o.h.curRes = o.h.res
<1>1. PICK i : /\ \/ k.pathChange /\ i \in ChangePath(k)
                  \/ ~k.pathChange /\ i \in Ok(k)
               /\ \/ o = i
                  \/ /\ i.ok
                     /\ \E j \in ApplyInfo([i.h EXCEPT !.infoChange = @ \/ k.pathChange]) :
                          \/ o = j
                          \/ /\ j.ok
                             /\ \E n : /\ \/ f.layer = "video" /\ n \in ResetVideo(f, j.h)
                                          \/ f.layer # "video" /\ n \in ResetGraphic(f, rect, j.h)
                                       /\ o = n \/ (n.ok /\ o \in Ok(Remember(f, n.h)))
  <2>1. PICK i : /\ \/ k.pathChange /\ i \in ChangePath(k)
                    \/ ~k.pathChange /\ i \in Ok(k)
                 /\ \/ o = i
                    \/ /\ i.ok
                       /\ o \in Chain(ApplyInfo([i.h EXCEPT !.infoChange = @ \/ k.pathChange]),
                            LAMBDA j :
                            Chain(IF f.layer = "video" THEN ResetVideo(f, j)
                                  ELSE ResetGraphic(f, rect, j),
                                  LAMBDA n : Ok(Remember(f, n))))
    BY DEF Reset, Chain
  <2>2. CASE i.ok /\ o # i
    <3>1. PICK j \in ApplyInfo([i.h EXCEPT !.infoChange = @ \/ k.pathChange]) :
            \/ o = j
            \/ /\ j.ok
               /\ o \in Chain(IF f.layer = "video" THEN ResetVideo(f, j.h)
                              ELSE ResetGraphic(f, rect, j.h),
                              LAMBDA n : Ok(Remember(f, n)))
      BY <2>1, <2>2 DEF Chain
    <3>2. CASE o # j
      <4>1. PICK n \in (IF f.layer = "video" THEN ResetVideo(f, j.h)
                        ELSE ResetGraphic(f, rect, j.h)) :
              o = n \/ (n.ok /\ o \in Ok(Remember(f, n.h)))
        BY <3>1, <3>2 DEF Chain
      <4> QED BY <2>1, <2>2, <3>1, <3>2, <4>1
    <3> QED BY <2>1, <2>2, <3>1, <3>2
  <2> QED BY <2>1, <2>2
<1>2. /\ Good(i.h) /\ i.h.connected /\ (i.ok => i.h.curPath = i.h.path)
      /\ i.h.pathChange = k.pathChange /\ i.h.curRes = i.h.res /\ i.h.dst = k.dst
  <2>1. CASE k.pathChange
    BY <1>1, <2>1, ChangePathDoes DEF Requested
  <2>2. CASE ~k.pathChange
    BY <1>1, <2>2, OkIs DEF Good, PathOK
  <2> QED BY <2>1, <2>2
<1> DEFINE m == [i.h EXCEPT !.infoChange = @ \/ k.pathChange]
<1>3. /\ Good(m) /\ m.connected /\ (m.pathChange => m.infoChange)
      /\ m.path = i.h.path /\ m.curPath = i.h.curPath
      /\ m.curRes = m.res /\ m.dst = k.dst
  <2> DEFINE g == i.h
  <2>0. /\ Good(g) /\ g.connected /\ g.pathChange = k.pathChange
        /\ g.curRes = g.res /\ g.dst = k.dst
    BY <1>2
  <2>1. m = [x \in Fields |-> IF x = "infoChange" THEN g.infoChange \/ k.pathChange ELSE g[x]]
    BY <2>0 DEF Good, Shape, Fields
  <2> HIDE DEF m, g
  <2>2. /\ m = [x \in Fields |-> m[x]] /\ \A x \in Fields \ {"infoChange"} : m[x] = g[x]
    BY <2>1 DEF Fields
  <2>3. m.infoChange <=> g.infoChange \/ k.pathChange
    BY <2>1 DEF Fields
  <2>4. Shape(m) /\ MemoOK(m)
    BY <2>0, <2>2, PlainShape DEF Good, Plain, Fields
  <2>5. /\ m.preset = g.preset /\ m.curRes = g.curRes /\ m.res = g.res /\ m.tv = g.tv
        /\ m.connected = g.connected /\ m.path = g.path /\ m.curPath = g.curPath
        /\ m.curPreset = g.curPreset /\ m.mode = g.mode /\ m.curMode = g.curMode
        /\ m.pathChange = g.pathChange /\ m.dst = g.dst
    BY <2>2 DEF Fields
  <2>6. TvCore(m) /\ PathOK(m)
    BY <2>0, <2>5 DEF Good, TvCore, PathOK
  <2>7. TvOK(m)
    BY <2>0, <2>3, <2>5 DEF Good, TvOK
  <2> QED BY <2>0, <2>3, <2>4, <2>5, <2>6, <2>7 DEF Good, g
<1>4. ASSUME NEW j \in ApplyInfo(m)
      PROVE  /\ Good(j.h) /\ j.h.connected
             /\ j.ok => j.h.curMode = j.h.mode /\ j.h.tv = j.h.res
             /\ j.h.path = m.path /\ j.h.curPath = m.curPath
             /\ j.h.curRes = j.h.res /\ j.h.dst = k.dst
  <2> HIDE DEF m
  <2> QED BY <1>3, <1>4, ApplyInfoDoes DEF Asked
<1>5. ASSUME NEW j \in ApplyInfo(m), i.ok, j.ok, NEW n,
             \/ f.layer = "video" /\ n \in ResetVideo(f, j.h)
             \/ f.layer # "video" /\ n \in ResetGraphic(f, rect, j.h),
             o = n \/ (n.ok /\ o \in Ok(Remember(f, n.h)))
      PROVE  Good(o.h) /\ o.h.connected /\ o.h.curRes = o.h.res
  <2> HIDE DEF m
  <2> DEFINE g == j.h
             r == n.h
  <2>1. /\ Good(g) /\ g.connected /\ g.curMode = g.mode /\ g.tv = g.res
        /\ g.curPath = g.path /\ g.curRes = g.res /\ g.dst = k.dst
    BY <1>2, <1>3, <1>4, <1>5
  <2>2. Good(r) /\ Layered(g, r) /\ (n.ok => Ready(f, g, r))
    <3>1. CASE f.layer = "video"
      BY <1>5, <2>1, <3>1, ResetVideoDoes DEF Ready, Graphics
    <3>2. CASE f.layer # "video"
      BY <1>5, <2>1, <3>2, ResetGraphicDoes DEF Layers
    <3> QED BY <3>1, <3>2
  <2> HIDE DEF g
  <2>3. o.h = r \/ (n.ok /\ o.h = Remember(f, r))
    BY <1>5, OkIs
  <2> HIDE DEF r
  <2>4. /\ r.connected = g.connected /\ r.curMode = g.curMode /\ r.mode = g.mode
        /\ r.tv = g.tv /\ r.res = g.res /\ r.curPath = g.curPath /\ r.path = g.path
        /\ r.dst = g.dst /\ r.curRes = g.curRes
    BY <2>2 DEF Layered, Fields
  <2>5. n.ok => Ready(f, r, r)
    BY <2>2, <2>4 DEF Ready
  <2>6. /\ r.curPath = r.path /\ r.curMode = r.mode /\ r.tv = r.res /\ r.connected
        /\ r.curRes = r.res
    BY <2>1, <2>4
  <2>7. n.ok => /\ Good(Remember(f, r)) /\ Remember(f, r).connected
                /\ Remember(f, r).curRes = Remember(f, r).res
    BY <2>2, <2>5, <2>6, RememberDoes
  <2> QED BY <2>2, <2>3, <2>6, <2>7
<1> HIDE DEF m
<1>6. CASE o = i
  BY <1>2, <1>6
<1>7. ASSUME i.ok, NEW j \in ApplyInfo(m),
             \/ o = j
             \/ /\ j.ok
                /\ \E n : /\ \/ f.layer = "video" /\ n \in ResetVideo(f, j.h)
                             \/ f.layer # "video" /\ n \in ResetGraphic(f, rect, j.h)
                          /\ o = n \/ (n.ok /\ o \in Ok(Remember(f, n.h)))
      PROVE  Good(o.h) /\ o.h.connected /\ o.h.curRes = o.h.res
  BY <1>4, <1>5, <1>7
<1>8. \/ o = i
      \/ /\ i.ok
         /\ \E j \in ApplyInfo(m) :
              \/ o = j
              \/ /\ j.ok
                 /\ \E n : /\ \/ f.layer = "video" /\ n \in ResetVideo(f, j.h)
                              \/ f.layer # "video" /\ n \in ResetGraphic(f, rect, j.h)
                           /\ o = n \/ (n.ok /\ o \in Ok(Remember(f, n.h)))
  BY <1>1, Zenon DEF m
<1> QED BY <1>6, <1>7, <1>8, Zenon

LEMMA RunLayerDoes ==
  ASSUME NEW k, Good(k), NEW f, f.layer \in Layers, NEW o \in RunLayer(f, k)
  PROVE  /\ Good(o.h) /\ o.h.connected = k.connected
         /\ o.h.curRes = k.curRes /\ o.h.res = k.res
<1>1. CASE f.layer = "video"
  <2>1. o \in RunScaler("out", k) \/ o \in Ok(k)
    BY <1>1 DEF RunLayer
  <2>2. o \in RunScaler("out", k) => Same(k, o.h)
    BY RunScalerDoes DEF Scalers, Good
  <2> QED BY <2>1, <2>2, OkIs, GoodSame DEF Layered, Fields
<1>2. CASE f.layer # "video"
  <2> DEFINE l == f.layer
             j == [k EXCEPT !.mxr[l].on = TRUE]
  <2>1. l \in Graphics
    BY <1>2 DEF Layers
  <2>2. o \in Fail(k) \/ o \in Ok(j) \/ o \in May("mixer", k)
    BY <1>2 DEF RunLayer
  <2>3. Same(k, j)
    <3>1. ASSUME NEW b
          PROVE  /\ OneMixer(l, k, [k EXCEPT !.mxr[l].on = b])
                 /\ [k EXCEPT !.mxr[l].on = b].mxr[l].setup = k.mxr[l].setup
      <4> DEFINE n == [k EXCEPT !.mxr[l].on = b]
      <4>1. OneMixer(l, k, n) /\ n.mxr[l] = [setup |-> k.mxr[l].setup, on |-> b]
        BY <2>1, SetStream DEF Good
      <4> HIDE DEF n
      <4>2. n.mxr[l].setup = k.mxr[l].setup
        BY <4>1
      <4> QED BY <4>1, <4>2 DEF n
    <3>2. OneMixer(l, k, j) /\ j.mxr[l].setup = k.mxr[l].setup
      BY <3>1, Zenon
    <3> HIDE DEF j
    <3> QED BY <2>1, <3>2, OneMixerSame
  <2> HIDE DEF j
  <2>4. o.h = k \/ o.h = j
    BY <2>2, OkIs, FailIs, MayIs
  <2> QED BY <2>3, <2>4, GoodSame DEF Layered, Fields
<1> QED BY <1>1, <1>2
-----------------------------------------------------------------------------
(* The methods. *)

\* A disconnected object holds no scaler and streams on no layer.
QuietOK(k) ==
  ~k.connected => /\ \A s \in Scalers : k[s].at = "null"
                  /\ \A g \in Graphics : ~k.mxr[g].on

\* A connected object has taken the resolution asked for, if not yet told the television.
ResKnown(k) == k.connected => k.curRes = k.res

\* The inductive invariant.
HdmiInv == Good(h) /\ QuietOK(h) /\ ResKnown(h)

LEMMA FlushInv ==
  ASSUME HdmiInv, NEW f \in Frames, Flush(f)
  PROVE  HdmiInv'
<1>1. f.layer \in Layers /\ h.connected /\ Good(h) /\ h.curRes = h.res
  <2>1. f.layer \in Layers
    BY DEF Frames, Layers, Graphics
  <2> QED BY <2>1 DEF Flush, HdmiInv, ResKnown
<1>2. PICK o : /\ h' = o.h
               /\ o \in Chain(IF NeedsReset(f, h) THEN Reset(f, Rect(f, h), h) ELSE Ok(h),
                    LAMBDA i :
                    Chain(IF f.layer # "video" /\ h.path = "writeback"
                          THEN RunScaler("cap", i) ELSE Ok(i),
                          LAMBDA j : RunLayer(f, j)))
  BY DEF Flush, Do
<1>3. PICK i : /\ i \in Reset(f, Rect(f, h), h) \/ i \in Ok(h)
               /\ \/ o = i
                  \/ o \in Chain(IF f.layer # "video" /\ h.path = "writeback"
                                 THEN RunScaler("cap", i.h) ELSE Ok(i.h),
                                 LAMBDA j : RunLayer(f, j))
  BY <1>2 DEF Chain
<1>9. f.layer \in Graphics => Placed(Rect(f, h), f.src, h.dst)
  BY DEF Placed, Rect, Graphics
<1>4. Good(i.h) /\ i.h.connected /\ i.h.curRes = i.h.res
  <2> DEFINE rect == Rect(f, h)
  <2>1. f.layer \in Graphics => Placed(rect, f.src, h.dst)
    BY <1>9
  <2>2. i \in Reset(f, rect, h) \/ i \in Ok(h)
    BY <1>3
  <2> HIDE DEF rect
  <2> QED BY <1>1, <2>1, <2>2, ResetDoes, OkIs
<1>5. ASSUME NEW j, j \in RunScaler("cap", i.h) \/ j \in Ok(i.h)
      PROVE  Good(j.h) /\ j.h.connected /\ j.h.curRes = j.h.res
  <2>1. j \in RunScaler("cap", i.h) => Same(i.h, j.h)
    BY <1>4, RunScalerDoes DEF Scalers, Good
  <2> QED BY <1>4, <1>5, <2>1, OkIs, GoodSame DEF Layered, Fields
<1>6. ASSUME o \in Chain(IF f.layer # "video" /\ h.path = "writeback"
                         THEN RunScaler("cap", i.h) ELSE Ok(i.h),
                         LAMBDA j : RunLayer(f, j))
      PROVE  Good(o.h) /\ o.h.connected /\ o.h.curRes = o.h.res
  <2>1. PICK j : /\ j \in RunScaler("cap", i.h) \/ j \in Ok(i.h)
                 /\ o = j \/ o \in RunLayer(f, j.h)
    BY <1>6 DEF Chain
  <2>2. Good(j.h) /\ j.h.connected /\ j.h.curRes = j.h.res
    BY <1>5, <2>1
  <2>3. o \in RunLayer(f, j.h) => /\ Good(o.h) /\ o.h.connected = j.h.connected
                                  /\ o.h.curRes = j.h.curRes /\ o.h.res = j.h.res
    BY <1>1, <2>2, RunLayerDoes
  <2>4. o = j => Good(o.h) /\ o.h.connected /\ o.h.curRes = o.h.res
    BY <2>2
  <2> QED BY <2>1, <2>2, <2>3, <2>4
<1>7. o = i => Good(o.h) /\ o.h.connected /\ o.h.curRes = o.h.res
  BY <1>4
<1>8. Good(h') /\ h'.connected /\ h'.curRes = h'.res
  BY <1>2, <1>3, <1>6, <1>7
<1> QED BY <1>1, <1>8 DEF HdmiInv, QuietOK, ResKnown

\* A change of fields that are not a layer's or a scaler's.
LEMMA PlainInv ==
  ASSUME HdmiInv, h' = [x \in Fields |-> h'[x]], \A x \in Fields \ Plain : h'[x] = h[x],
         TvCore(h'), PathOK(h'), TvOK(h'), ResKnown(h'), ~h'.connected => ~h.connected
  PROVE  HdmiInv'
<1>1. Shape(h') /\ MemoOK(h')
  BY PlainShape DEF HdmiInv, Good
<1>2. h'.mxr = h.mxr /\ \A s \in Scalers : h'[s] = h[s]
  BY DEF Plain, Fields, Scalers
<1> QED BY <1>1, <1>2 DEF HdmiInv, Good, QuietOK

LEMMA TakeResolutionDoes ==
  ASSUME NEW k, Good(k), NEW r \in Res
  PROVE  LET j == TakeResolution(r, k)
         IN  /\ j = [x \in Fields |-> j[x]]
             /\ \A x \in Fields \ Plain : j[x] = k[x]
             /\ TvCore(j) /\ PathOK(j) /\ TvOK(j) /\ j.connected = k.connected
             /\ j.curRes = r /\ j.res = r
<1> DEFINE i == SetResolution(r, k)
           j == TakeResolution(r, k)
<1>1. /\ Good(i) /\ i.curRes = r /\ \A x \in Asked \cup Scalers : i[x] = k[x]
  BY SetResolutionDoes
<1>2. \A x \in Fields \ Plain : i[x] = k[x]
  BY DEF SetResolution, Good, Shape, Fields, Plain
<1>3. j = [x \in Fields |-> CASE x = "res" -> r [] x = "infoChange" -> i.infoChange \/ k.res # r
                              [] OTHER -> i[x]]
  BY <1>1 DEF TakeResolution, Good, Shape, Fields
<1> HIDE DEF i, j
<1>4. /\ j = [x \in Fields |-> j[x]] /\ j.res = r
      /\ \A x \in Fields \ {"res", "infoChange"} : j[x] = i[x]
  BY <1>3 DEF Fields
<1>5. j.infoChange <=> i.infoChange \/ k.res # r
  BY <1>3 DEF Fields
<1>6. /\ j.preset = i.preset /\ j.curRes = i.curRes /\ j.tv = i.tv
      /\ j.connected = i.connected /\ j.path = i.path /\ j.curPath = i.curPath
      /\ j.curPreset = i.curPreset /\ j.mode = i.mode /\ j.curMode = i.curMode
      /\ j.pathChange = i.pathChange /\ i.connected = k.connected /\ i.res = k.res
  BY <1>1, <1>4 DEF Fields, Asked
<1>7. TvCore(j)
  BY <1>1, <1>4, <1>6 DEF Good, TvCore
<1>8. PathOK(j)
  BY <1>1, <1>6 DEF Good, PathOK
<1>9. TvOK(j)
  BY <1>1, <1>4, <1>5, <1>6 DEF Good, TvOK
<1>10. \A x \in Fields \ Plain : j[x] = k[x]
  BY <1>2, <1>4 DEF Fields, Plain
<1> QED BY <1>1, <1>4, <1>6, <1>7, <1>8, <1>9, <1>10 DEF j

LEMMA CalibratedIn ==
  ASSUME NEW r \in Res
  PROVE  Calibrated(r) \subseteq Res
BY HdmiAssumption DEF Calibrated

LEMMA ConnectInv ==
  ASSUME HdmiInv, Connect
  PROVE  HdmiInv'
<1>1. CASE UNCHANGED h
  BY <1>1 DEF HdmiInv
<1>2. ASSUME NEW r \in Calibrated(h.res),
             h' = [TakeResolution(r, h) EXCEPT !.connected = TRUE, !.infoChange = TRUE,
                                               !.pathChange = TRUE]
      PROVE  HdmiInv'
  <2> DEFINE j == TakeResolution(r, h)
  <2>1. /\ j = [x \in Fields |-> j[x]] /\ \A x \in Fields \ Plain : j[x] = h[x]
        /\ TvCore(j) /\ j.curRes = r /\ j.res = r
    BY <1>2, TakeResolutionDoes, CalibratedIn DEF HdmiInv, Good, TvCore
  <2>2. h' = [x \in Fields |-> CASE x \in {"connected", "infoChange", "pathChange"} -> TRUE
                                 [] OTHER -> j[x]]
    BY <1>2, <2>1 DEF Fields
  <2> HIDE DEF j
  <2>3. /\ h' = [x \in Fields |-> h'[x]]
        /\ \A x \in Fields \ {"connected", "infoChange", "pathChange"} : h'[x] = j[x]
    BY <2>2 DEF Fields
  <2>4. h'.connected /\ h'.infoChange /\ h'.pathChange
    BY <2>2 DEF Fields
  <2>5. /\ h'.preset = j.preset /\ h'.curRes = j.curRes /\ h'.tv = j.tv
        /\ h'.curPreset = j.curPreset /\ h'.res = j.res
        /\ \A x \in Fields \ Plain : h'[x] = h[x]
    BY <2>1, <2>3 DEF Fields, Plain
  <2>6. TvCore(h')
    BY <2>1, <2>5 DEF TvCore
  <2>7. PathOK(h') /\ TvOK(h') /\ ResKnown(h')
    BY <2>1, <2>4, <2>5 DEF PathOK, TvOK, ResKnown
  <2> QED BY <2>3, <2>4, <2>5, <2>6, <2>7, PlainInv
<1> QED BY <1>1, <1>2 DEF Connect

\* What a failed call leaves of a connected object.
LEMMA SameInv ==
  ASSUME HdmiInv, Same(h, h'), Quieter(h, h') \/ h.connected
  PROVE  HdmiInv'
<1>1. /\ Good(h') /\ h'.connected = h.connected
      /\ h'.curRes = h.curRes /\ h'.res = h.res
  BY GoodSame DEF HdmiInv, Layered, Fields
<1> QED BY <1>1 DEF HdmiInv, QuietOK, Quieter, ResKnown

LEMMA DisconnectInv ==
  ASSUME HdmiInv, Disconnect
  PROVE  HdmiInv'
<1>1. Good(h) /\ Shape(h) /\ h.connected
  BY DEF HdmiInv, Good, Disconnect
<1>2. PICK o : /\ h' = o.h
               /\ o \in Chain(StopAndFree("out", h), LAMBDA i :
                        Chain(StopAndFree("cap", i), LAMBDA j :
                        Chain(StopLayers(Graphics, j), LAMBDA n : Ok(Disconnected(n)))))
  BY DEF Disconnect, Do
<1>3. PICK i \in StopAndFree("out", h) :
        \/ o = i
        \/ o \in Chain(StopAndFree("cap", i.h), LAMBDA j :
                 Chain(StopLayers(Graphics, j), LAMBDA n : Ok(Disconnected(n))))
  BY <1>2 DEF Chain
<1>4. Same(h, i.h)
  BY <1>1, StopAndFreeDoes DEF Scalers
<1>5. CASE o = i
  BY <1>1, <1>2, <1>4, <1>5, SameInv
<1>6. CASE o # i
  <2>1. PICK j \in StopAndFree("cap", i.h) :
          \/ o = j
          \/ o \in Chain(StopLayers(Graphics, j.h), LAMBDA n : Ok(Disconnected(n)))
    BY <1>3, <1>6 DEF Chain
  <2>2. Same(h, j.h)
    BY <1>4, StopAndFreeDoes, SameTrans DEF Scalers, Same
  <2>3. CASE o = j
    BY <1>1, <1>2, <2>2, <2>3, SameInv
  <2>4. CASE o # j
    <3>1. PICK n \in StopLayers(Graphics, j.h) :
            o = n \/ (n.ok /\ o \in Ok(Disconnected(n.h)))
      BY <2>1, <2>4 DEF Chain
    <3> DEFINE k == n.h
    <3>2. Same(h, k) /\ (n.ok => \A g \in Graphics : ~k.mxr[g].on)
      BY <2>2, StopLayersDoes, SameTrans DEF Same
    <3>3. CASE o = n
      BY <1>1, <1>2, <3>2, <3>3, SameInv
    <3>4. CASE o # n
      <4>1. n.ok /\ h' = Disconnected(k)
        BY <1>2, <3>1, <3>4, OkIs
      <4> HIDE DEF k
      <4>2. Good(k)
        BY <1>1, <3>2, GoodSame
      <4>3. h' = [x \in Fields |->
                    CASE x \in {"out", "cap"} -> NoHandle
                      [] x = "connected" -> FALSE [] x = "mode" -> "ycbcr"
                      [] x \in {"res", "preset"} -> DefaultRes
                      [] x \in {"curMode", "curRes", "curPath"} -> None
                      [] OTHER -> k[x]]
        BY <4>1, <4>2 DEF Disconnected, Good, Shape, Fields
      <4>4. /\ h' = [x \in Fields |-> h'[x]] /\ h'.out = NoHandle /\ h'.cap = NoHandle
            /\ h'.mxr = k.mxr /\ h'.memo = k.memo /\ h'.prev = k.prev
            /\ h'.res = DefaultRes /\ h'.curRes = None
            /\ h'.tv = k.tv /\ h'.curPreset = k.curPreset
        BY <4>3 DEF Fields
      <4>5. ~h'.connected
        BY <4>3 DEF Fields
      <4>6. Shape(h')
        BY <4>2, <4>4 DEF Good, Shape, Handle, NoHandle, Scalers
      <4>7. TvCore(h')
        BY <4>2, <4>4, HdmiAssumption DEF Good, TvCore, HdmiInv
      <4>8. MemoOK(h')
        BY <4>2, <4>4 DEF Good, MemoOK
      <4>9. QuietOK(h')
        BY <3>2, <4>1, <4>4 DEF QuietOK, Scalers, NoHandle
      <4> QED BY <4>5, <4>6, <4>7, <4>8, <4>9 DEF HdmiInv, Good, PathOK, TvOK, ResKnown
    <3> QED BY <3>3, <3>4
  <2> QED BY <2>3, <2>4
<1> QED BY <1>5, <1>6

\* The setters.
LEMMA SettersInv ==
  ASSUME HdmiInv,
         \/ SetInfo
         \/ \E p \in Paths : SetHdmiPath(p)
         \/ \E m \in OutModes : SetHdmiOutputMode(m)
         \/ \E r \in Res : SetHdmiResolution(r)
  PROVE  HdmiInv'
<1>1. Good(h)
  BY DEF HdmiInv
<1>2. CASE \E r \in Res : SetHdmiResolution(r)
  <2>1. PICK r \in Res : h' = TakeResolution(r, h)
    BY <1>1, <1>2, CalibratedIn DEF SetHdmiResolution
  <2> QED BY <1>1, <2>1, TakeResolutionDoes, PlainInv DEF ResKnown
<1>3. ASSUME NEW x \in {"path", "mode"}, NEW v, NEW y \in {"pathChange", "infoChange"},
             \/ x = "path" /\ y = "pathChange" /\ h' = [h EXCEPT !.path = v, !.pathChange = TRUE]
             \/ x = "mode" /\ y = "infoChange" /\ h' = [h EXCEPT !.mode = v, !.infoChange = TRUE]
             \/ x = "mode" /\ y = "infoChange" /\ v = h.mode /\ h' = [h EXCEPT !.infoChange = TRUE]
      PROVE  HdmiInv'
  <2>1. h' = [z \in Fields |-> CASE z = x -> v [] z = y -> TRUE [] OTHER -> h[z]]
    BY <1>1, <1>3 DEF Good, Shape, Fields
  <2>2. /\ h' = [z \in Fields |-> h'[z]] /\ \A z \in Fields \ Plain : h'[z] = h[z]
        /\ \A z \in Fields \ {x, y} : h'[z] = h[z]
    BY <2>1 DEF Fields, Plain
  <2>3. h'[y]
    BY <2>1 DEF Fields
  <2>4. /\ h'.preset = h.preset /\ h'.curRes = h.curRes /\ h'.res = h.res /\ h'.tv = h.tv
        /\ h'.curPreset = h.curPreset /\ h'.connected = h.connected
        /\ h'.curPath = h.curPath /\ h'.curMode = h.curMode
    BY <2>2 DEF Fields
  <2>5. TvCore(h') /\ ResKnown(h')
    BY <1>1, <2>4 DEF Good, TvCore, HdmiInv, ResKnown
  <2>6. CASE y = "pathChange"
    <3>1. x = "path" /\ h'.pathChange /\ h'.infoChange = h.infoChange /\ h'.mode = h.mode
      BY <1>3, <2>2, <2>3, <2>6 DEF Fields
    <3>2. PathOK(h') /\ TvOK(h')
      BY <1>1, <2>4, <3>1 DEF Good, PathOK, TvOK
    <3> QED BY <2>2, <2>4, <2>5, <3>2, PlainInv
  <2>7. CASE y = "infoChange"
    <3>1. x = "mode" /\ h'.infoChange /\ h'.pathChange = h.pathChange /\ h'.path = h.path
      BY <1>3, <2>2, <2>3, <2>7 DEF Fields
    <3>2. PathOK(h') /\ TvOK(h')
      BY <1>1, <2>4, <3>1 DEF Good, PathOK, TvOK
    <3> QED BY <2>2, <2>4, <2>5, <3>2, PlainInv
  <2> QED BY <2>6, <2>7
<1>4. CASE \E p \in Paths : SetHdmiPath(p)
  BY <1>3, <1>4 DEF SetHdmiPath
<1>5. CASE \E m \in OutModes : SetHdmiOutputMode(m)
  BY <1>3, <1>5 DEF SetHdmiOutputMode
<1>6. CASE SetInfo
  BY <1>3, <1>6 DEF SetInfo
<1> QED BY <1>2, <1>4, <1>5, <1>6

LEMMA ClearInv ==
  ASSUME HdmiInv, NEW l \in Layers, Clear(l) \/ SetHdmiLayerDisable(l)
  PROVE  HdmiInv'
<1>1. Shape(h)
  BY DEF HdmiInv, Good
<1>2. PICK i : /\ i \in JustStopScaler("cap", h) \/ i \in Ok(h)
               /\ h' = i.h \/ \E o \in StopLayer(l, i.h) : h' = o.h
  <2>1. CASE Clear(l)
    BY <2>1 DEF Clear, Do, Chain
  <2>2. CASE SetHdmiLayerDisable(l)
    <3>1. PICK o \in StopLayer(l, h) : h' = o.h
      BY <2>2 DEF SetHdmiLayerDisable, Do
    <3> DEFINE i == [ok |-> TRUE, h |-> h]
    <3>2. i \in Ok(h) /\ i.h = h
      BY DEF Ok
    <3> QED BY <3>1, <3>2
  <2> QED BY <2>1, <2>2
<1>3. Same(h, i.h) /\ Quieter(h, i.h)
  <2>1. CASE i \in Ok(h)
    BY <1>1, <2>1, OkIs DEF Same, Quieter
  <2>2. CASE i \in JustStopScaler("cap", h)
    <3>1. OneScaler("cap", h, i.h) /\ (h["cap"].at = "null" => i.h = h)
      BY <1>1, <2>2, JustStopScalerDoes DEF Scalers
    <3>2. /\ Same(h, i.h) /\ i.h.mxr = h.mxr
          /\ \A z \in Scalers : z # "cap" => i.h[z] = h[z]
      BY <1>1, <3>1, OneScalerSame DEF Scalers
    <3> QED BY <3>1, <3>2 DEF Quieter
  <2> QED BY <1>2, <2>1, <2>2
<1>4. ASSUME NEW o \in StopLayer(l, i.h)
      PROVE  Same(h, o.h) /\ Quieter(h, o.h)
  <2>1. Same(i.h, o.h) /\ Quieter(i.h, o.h)
    BY <1>3, StopLayerDoes DEF Same
  <2> QED BY <1>3, <2>1, SameTrans DEF Quieter
<1> QED BY <1>2, <1>3, <1>4, SameInv

LEMMA HdmiInitInv == HdmiInit => HdmiInv
<1> SUFFICES ASSUME HdmiInit PROVE HdmiInv
  OBVIOUS
<1>1. Shape(h)
  <2>1. h = [x \in Fields |-> h[x]]
    <3> HIDE DEF NoSetup, NoSize, NoHandle, Blank
    <3> QED BY DEF HdmiInit, Fields
  <2>2. h.out = NoHandle /\ h.cap = NoHandle
    BY DEF HdmiInit
  <2>3. h.mxr = [g \in Graphics |-> [setup |-> NoSetup, on |-> FALSE]]
    BY DEF HdmiInit
  <2>4. h.memo = [l \in Layers |-> Blank] /\ h.prev = [l \in Layers |-> NoSize]
    BY DEF HdmiInit
  <2>5. \A s \in Scalers : h[s] = NoHandle
    BY <2>2 DEF Scalers
  <2>6. Handle(NoHandle)
    BY DEF Handle, NoHandle
  <2>7. \A s \in Scalers : Handle(h[s])
    BY <2>5, <2>6
  <2>8. \A g \in Graphics : h.mxr[g] = [setup |-> h.mxr[g].setup, on |-> h.mxr[g].on]
    <3>1. ASSUME NEW g \in Graphics
          PROVE  h.mxr[g] = [setup |-> h.mxr[g].setup, on |-> h.mxr[g].on]
      <4>1. h.mxr[g] = [setup |-> NoSetup, on |-> FALSE]
        BY <2>3
      <4> QED BY ONLY <4>1
    <3> QED BY <3>1
  <2>9. h.mxr = [g \in Graphics |-> h.mxr[g]]
    BY <2>3
  <2>10. h.memo = [l \in Layers |-> h.memo[l]] /\ h.prev = [l \in Layers |-> h.prev[l]]
    BY <2>4
  <2> QED BY <2>1, <2>7, <2>8, <2>9, <2>10 DEF Shape
<1>2. TvCore(h) /\ MemoOK(h)
  BY HdmiAssumption DEF HdmiInit, TvCore, MemoOK, Blank, Layers
<1>3. PathOK(h) /\ TvOK(h) /\ QuietOK(h) /\ ResKnown(h)
  BY DEF HdmiInit, PathOK, TvOK, QuietOK, Scalers, NoHandle, ResKnown
<1> QED BY <1>1, <1>2, <1>3 DEF HdmiInv, Good

LEMMA HdmiNextInv == HdmiInv /\ [HdmiNext]_h => HdmiInv'
<1> SUFFICES ASSUME HdmiInv, [HdmiNext]_h PROVE HdmiInv'
  OBVIOUS
<1>1. CASE UNCHANGED h
  BY <1>1 DEF HdmiInv
<1> QED BY <1>1, ConnectInv, DisconnectInv, SettersInv, ClearInv, FlushInv DEF HdmiNext

LEMMA HdmiAlways == HdmiSpec => []HdmiInv
BY HdmiInitInv, HdmiNextInv, PTL DEF HdmiSpec
-----------------------------------------------------------------------------
\* While the object is connected, the scaler of the requested path is in use or the
\* change is still pending: no failed reset loses setHdmiPath.
THEOREM PathIsChanged == HdmiSpec => []PathChangeIsPending
<1>1. HdmiInv => PathChangeIsPending
  BY DEF HdmiInv, Good, PathOK, PathChangeIsPending
<1> QED BY <1>1, HdmiAlways, PTL

\* While the object is connected, the television shows the requested mode and
\* resolution or the change is still pending, whatever step of m_reset failed.
THEOREM TvShows == HdmiSpec => []TvShowsRequest
<1>1. HdmiInv => TvShowsRequest
  BY DEF HdmiInv, Good, TvOK, TvShowsRequest
<1> QED BY <1>1, HdmiAlways, PTL

\* disconnect leaves no scaler handle and no stream on a mixer layer, however the
\* calls before it ended.
THEOREM DisconnectQuiets == HdmiSpec => []DisconnectedIsQuiet
<1>1. HdmiInv => DisconnectedIsQuiet
  BY DEF HdmiInv, QuietOK, Scalers, DisconnectedIsQuiet
<1> QED BY <1>1, HdmiAlways, PTL

\* A frame that m_Doflush shows without a reset finds the mixer layer set up for a frame
\* of its size and format, for this screen and for its size on it; a scaled frame
\* finds its place as well, but where an unscaled one has the same size.
THEOREM UnresetFits == HdmiSpec => []UnresetFrameFits
<1>1. HdmiInv => UnresetFrameFits
  <2> SUFFICES ASSUME HdmiInv, NEW f \in Frames, f.layer \in Graphics, ~NeedsReset(f, h)
               PROVE  LET set == h.mxr[f.layer].setup
                      IN  /\ set.src = f.src /\ set.size = h.dst
                          /\ set.rect.size = Rect(f, h).size
                          /\ Scaled(f) /\ set.rect.size # OwnSize(f.src) =>
                               set.rect = Rect(f, h)
    BY DEF UnresetFrameFits
  <2> DEFINE g == f.layer
             m == h.memo[g]
  <2>1. m = [src |-> f.src, size |-> h.dst] /\ h.prev[g] = Rect(f, h).size
    BY DEF NeedsReset
  <2>2. m.src = f.src /\ m.size = h.dst
    BY <2>1
  <2>3. f.src \in Srcs
    BY DEF Frames
  <2>4. m # Blank
    <3>1. f.src.w # 0
      BY <2>3, HdmiAssumption
    <3>2. Blank.src.w = 0
      BY DEF Blank, NoSrc
    <3> QED BY <2>2, <3>1, <3>2
  <2>5. Fits(h.mxr[g].setup, m, h.prev[g])
    BY <2>4 DEF HdmiInv, Good, MemoOK
  <2>6. Scaled(f) => Rect(f, h) = CalRect(f.src, h.dst)
    BY DEF Rect, Graphics
  <2> HIDE DEF m
  <2> QED BY <2>1, <2>2, <2>5, <2>6 DEF Fits, Placed
<1> QED BY <1>1, HdmiAlways, PTL
=============================================================================
