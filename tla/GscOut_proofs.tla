---------------------------- MODULE GscOut_proofs ----------------------------
(***************************************************************************)
(* Proofs about GscOut for every ring size N >= 3, every number of frames  *)
(* the display keeps, and every choice of driver calls that may fail; and, *)
(* in a second part, about Hwc, the hardware composer on top of a scaler,  *)
(* for every screen, every set of layer lists and every set of faults.     *)
(***************************************************************************)
EXTENDS GscOut, Hwc, TLAPS, FiniteSetTheorems, WellFoundedInduction

USE NAssumption, HoldAssumption, FaultsAssumption

\* While the driver does not stream, what it holds are the first indices of
\* the ring, and buf_idx is either just past them or was reset to 0.
QueuedFromZero ==
  ~sq.on => /\ sq.ndone = 0
            /\ Len(sq.fifo) <= N
            /\ \A k \in 1 .. Len(sq.fifo) : sq.fifo[k] = k - 1
            /\ src.buf_idx # 0 => src.buf_idx = Len(sq.fifo)

\* The ring index d places before buf_idx.
RingBack(i, d) == IF i - d >= 0 THEN i - d ELSE i - d + N

\* While the stream runs, the driver holds the indices just before buf_idx,
\* oldest first.
RingOrder ==
  src.stream_on =>
     /\ live /\ sq.on /\ sq.count = N
     /\ Len(sq.fifo) <= N
     /\ \A k \in 1 .. Len(sq.fifo) :
           sq.fifo[k] = RingBack(src.buf_idx, Len(sq.fifo) + 1 - k)

\* The inductive invariant.
IInv == TypeOK /\ QueuedFromZero /\ RingOrder

-----------------------------------------------------------------------------
\* The index after i, without the modulo.
LEMMA NextIdxValue ==
  ASSUME NEW i \in Indices
  PROVE  NextIdx(i) = IF i + 1 = N THEN 0 ELSE i + 1
<1>1. CASE i + 1 = N
  BY <1>1 DEF NextIdx, Indices
<1>2. CASE i + 1 # N
  BY <1>2 DEF NextIdx, Indices
<1> QED BY <1>1, <1>2

\* The initial state satisfies the invariant.
LEMMA InitInv == Init => IInv
<1> SUFFICES ASSUME Init PROVE IInv
  OBVIOUS
<1>1. sq = Fresh /\ src = ZeroSrc
  BY DEF Init
<1>2. sq.fifo = <<>> /\ sq.ndone = 0 /\ src.stream_on = FALSE /\ src.buf_idx = 0
  BY <1>1 DEF Fresh, ZeroSrc
<1>3. sq \in Queues
  BY <1>1 DEF Fresh, Queues
<1>4. src \in Srcs
  BY <1>1 DEF ZeroSrc, Indices, Srcs
<1>5. last \in Lasts
  BY DEF Init, Ops, Rets, Lasts
<1>6. held \subseteq Steps /\ live \in BOOLEAN /\ call \in {"none", "dqbuf"}
  BY DEF Init, Steps
<1>7. sq.ndone <= Len(sq.fifo)
  BY <1>2
<1>8. TypeOK
  BY <1>3, <1>4, <1>5, <1>6, <1>7 DEF TypeOK
<1> QED
  BY <1>2, <1>8 DEF IInv, QueuedFromZero, RingOrder

\* An emptied, stopped queue under a handle whose flag is down.
LEMMA EmptyInv ==
  ASSUME TypeOK', src'.stream_on = FALSE, src'.buf_idx = 0,
         sq'.fifo = <<>>, sq'.ndone = 0
  PROVE  IInv'
BY DEF IInv, QueuedFromZero, RingOrder

\* What a call that has returned leaves in `last' is typed.
LEMMA ReturnsTyped ==
  ASSUME NEW op \in Ops, NEW r \in Rets, Returns(op, r)
  PROVE  last' \in Lasts
BY DEF Returns, Lasts

LEMMA CreateInv == ASSUME IInv, Create PROVE IInv'
<1>1. src' = ZeroSrc /\ sq' = Fresh /\ call' = call
  BY DEF Create
<1>2. sq'.fifo = <<>> /\ sq'.ndone = 0 /\ src'.stream_on = FALSE /\ src'.buf_idx = 0
  BY <1>1 DEF Fresh, ZeroSrc
<1>3. PICK k \in 0 .. Len(CreateOrder) :
        IF k = Len(CreateOrder)
        THEN /\ live' = TRUE
             /\ held' = held \cup Taken(k)
             /\ Returns("create", 0)
        ELSE /\ live' = FALSE
             /\ \E u \in Unlinked : held' = Dropped(held \cup Taken(k), u)
             /\ Returns("create", -1)
  BY DEF Create
<1>4. Taken(k) \subseteq Steps
  BY DEF Taken, CreateOrder, Steps
<1>5. held' \subseteq Steps /\ live' \in BOOLEAN
  BY <1>3, <1>4 DEF IInv, TypeOK, Dropped
<1>6. last' \in Lasts
  BY <1>3, ReturnsTyped DEF Ops, Rets
<1>7. sq' \in Queues
  BY <1>1 DEF Fresh, Queues
<1>8. src' \in Srcs
  BY <1>1 DEF ZeroSrc, Indices, Srcs
<1>9. TypeOK'
  BY <1>1, <1>2, <1>5, <1>6, <1>7, <1>8 DEF IInv, TypeOK
<1> QED
  BY <1>2, <1>9, EmptyInv

LEMMA DestroyInv == ASSUME IInv, Destroy PROVE IInv'
<1>1. src' = ZeroSrc /\ sq' = Fresh /\ call' = call /\ live' = FALSE
  BY DEF Destroy
<1>2. sq'.fifo = <<>> /\ sq'.ndone = 0 /\ src'.stream_on = FALSE /\ src'.buf_idx = 0
  BY <1>1 DEF Fresh, ZeroSrc
<1>3. held' \subseteq Steps
  BY DEF Destroy, Dropped, IInv, TypeOK
<1>4. last' \in Lasts
  BY ReturnsTyped DEF Destroy, Ops, Rets
<1>5. sq' \in Queues
  BY <1>1 DEF Fresh, Queues
<1>6. src' \in Srcs
  BY <1>1 DEF ZeroSrc, Indices, Srcs
<1>7. live' \in BOOLEAN
  BY <1>1
<1>8. call' \in {"none", "dqbuf"} /\ sq'.ndone <= Len(sq'.fifo)
  BY <1>1, <1>2 DEF IInv, TypeOK
<1>9. TypeOK'
  BY <1>3, <1>4, <1>5, <1>6, <1>7, <1>8 DEF TypeOK
<1> QED
  BY <1>2, <1>9, EmptyInv

\* REQBUFS on a queue that does not stream.
LEMMA ReqbufsValue ==
  ASSUME NEW q \in Queues, NEW n \in {0, N}
  PROVE  /\ Reqbufs(q, n) \in Queues
         /\ Reqbufs(q, n).fifo = <<>>
         /\ Reqbufs(q, n).ndone = 0
         /\ Reqbufs(q, n).on = q.on
         /\ Reqbufs(q, n).count = n
BY DEF Queues, Reqbufs

LEMMA StreamoffValue ==
  ASSUME NEW q \in Queues
  PROVE  /\ Streamoff(q) \in Queues
         /\ Streamoff(q).fifo = <<>>
         /\ Streamoff(q).ndone = 0
         /\ Streamoff(q).on = FALSE
BY DEF Queues, Streamoff

LEMMA QbufValue ==
  ASSUME NEW q \in Queues, NEW i \in Indices
  PROVE  /\ Qbuf(q, i) \in Queues
         /\ Qbuf(q, i).fifo = Append(q.fifo, i)
         /\ Qbuf(q, i).ndone = q.ndone
         /\ Qbuf(q, i).on = q.on
         /\ Qbuf(q, i).count = q.count
BY DEF Queues, Qbuf

LEMMA DqbufValue ==
  ASSUME NEW q \in Queues, CanDqbuf(q), q.ndone <= Len(q.fifo)
  PROVE  /\ Dqbuf(q) \in Queues
         /\ Dqbuf(q).fifo = Tail(q.fifo)
         /\ Dqbuf(q).ndone = q.ndone - 1
         /\ Dqbuf(q).on = q.on
         /\ Dqbuf(q).count = q.count
         /\ q.fifo # <<>>
BY DEF Queues, CanDqbuf, Dqbuf

\* A step that lowers the flag, resets the ring and leaves the queue alone.
LEMMA ForgetInv ==
  ASSUME IInv, TypeOK', UNCHANGED sq, src'.stream_on = FALSE, src'.buf_idx = 0
  PROVE  IInv'
BY DEF IInv, QueuedFromZero, RingOrder

LEMMA ConfigInv == ASSUME IInv, Config PROVE IInv'
<1>1. live' = live /\ held' = held /\ call' = call
  BY DEF Config
<1>2. last' \in Lasts
  BY ReturnsTyped DEF Config, ConfigRefused, ConfigFails, ConfigNoBuffers,
                      ConfigDone, Ops, Rets
<1>3. ConfigReset \in Srcs /\ ConfigReset.stream_on = src.stream_on
                          /\ ConfigReset.buf_idx = 0
  BY DEF ConfigReset, IInv, TypeOK, Srcs, Indices
<1>4. CASE UNCHANGED <<src, sq>>
  BY <1>1, <1>2, <1>4 DEF IInv, TypeOK, QueuedFromZero, RingOrder
<1>5. CASE ~src.stream_on /\ src' = ConfigReset /\ UNCHANGED sq
  <2>1. TypeOK'
    BY <1>1, <1>2, <1>3, <1>5 DEF IInv, TypeOK
  <2> QED
    BY <1>3, <1>5, <2>1, ForgetInv DEF IInv, TypeOK, Srcs
<1>6. CASE ~src.stream_on /\ src' = ConfigReset /\ sq' = Reqbufs(sq, N)
  <2>1. sq' \in Queues /\ sq'.fifo = <<>> /\ sq'.ndone = 0
    BY <1>6, ReqbufsValue DEF IInv, TypeOK
  <2>2. TypeOK'
    BY <1>1, <1>2, <1>3, <1>6, <2>1 DEF IInv, TypeOK
  <2> QED
    BY <1>3, <1>6, <2>1, <2>2, EmptyInv DEF IInv, TypeOK, Srcs
<1> QED
  BY <1>4, <1>5, <1>6 DEF Config, ConfigRefused, ConfigFails, ConfigNoBuffers,
                          ConfigDone

\* Queueing buf_idx behind a stopped queue, or behind a running one, keeps the
\* order of the ring.
LEMMA QbufStoppedOrder ==
  ASSUME IInv, ~sq.on, CanQbuf(sq, src.buf_idx)
  PROVE  LET q == Qbuf(sq, src.buf_idx) IN
         /\ Len(sq.fifo) = src.buf_idx
         /\ Len(q.fifo) = src.buf_idx + 1
         /\ \A k \in 1 .. Len(q.fifo) : q.fifo[k] = k - 1
<1> DEFINE f == sq.fifo
           i == src.buf_idx
<1>1. f \in Seq(Indices) /\ i \in Indices /\ sq \in Queues
  BY DEF IInv, TypeOK, Queues, Srcs
<1>2. \A k \in 1 .. Len(f) : f[k] = k - 1
  BY DEF IInv, QueuedFromZero
<1>3. Len(f) = i
  <2>1. CASE i # 0
    BY <2>1 DEF IInv, QueuedFromZero
  <2>2. CASE i = 0
    <3>1. \A k \in 1 .. Len(f) : f[k] # 0
      BY <2>2, <1>1 DEF CanQbuf, Outstanding
    <3>2. Len(f) \in Nat
      BY <1>1
    <3>3. ~(Len(f) >= 1)
      BY <1>2, <3>1, <3>2
    <3> QED BY <3>2, <3>3, <2>2
  <2> QED BY <2>1, <2>2
<1>4. Qbuf(sq, i).fifo = Append(f, i)
  BY <1>1, QbufValue
<1>5. Len(Append(f, i)) = i + 1
  BY <1>1, <1>3
<1>6. \A k \in 1 .. i + 1 : Append(f, i)[k] = k - 1
  BY <1>1, <1>2, <1>3 DEF Indices
<1> QED
  BY <1>3, <1>4, <1>5, <1>6

LEMMA QbufRunningOrder ==
  ASSUME IInv, src.stream_on, CanQbuf(sq, src.buf_idx)
  PROVE  LET q == Qbuf(sq, src.buf_idx) IN
         /\ Len(q.fifo) <= N
         /\ \A k \in 1 .. Len(q.fifo) :
               q.fifo[k] = RingBack(NextIdx(src.buf_idx), Len(q.fifo) + 1 - k)
<1> DEFINE f == sq.fifo
           i == src.buf_idx
<1>1. f \in Seq(Indices) /\ i \in Indices /\ sq \in Queues /\ Len(f) \in Nat
  BY DEF IInv, TypeOK, Queues, Srcs
<1>2. Len(f) <= N /\ \A k \in 1 .. Len(f) : f[k] = RingBack(i, Len(f) + 1 - k)
  BY DEF IInv, RingOrder
<1>3. Len(f) < N
  <2> SUFFICES ASSUME Len(f) = N PROVE FALSE
    BY <1>1, <1>2
  <2>1. f[1] = RingBack(i, N)
    BY <1>2
  <2>2. RingBack(i, N) = i
    BY <1>1 DEF RingBack, Indices
  <2>3. f[1] \in Outstanding(sq)
    BY <1>1 DEF Outstanding
  <2> QED BY <2>1, <2>2, <2>3 DEF CanQbuf
<1>4. Qbuf(sq, i).fifo = Append(f, i)
  BY <1>1, QbufValue
<1>5. Len(Append(f, i)) = Len(f) + 1
  BY <1>1
<1>6. ASSUME NEW k \in 1 .. Len(f) + 1
      PROVE  Append(f, i)[k] = RingBack(NextIdx(i), Len(f) + 2 - k)
  <2>1. NextIdx(i) = IF i + 1 = N THEN 0 ELSE i + 1
    BY <1>1, NextIdxValue
  <2>2. CASE k = Len(f) + 1
    <3>1. Append(f, i)[k] = i
      BY <1>1, <2>2
    <3>2. RingBack(NextIdx(i), 1) = i
      BY <1>1, <2>1 DEF RingBack, Indices
    <3> QED BY <1>1, <2>2, <3>1, <3>2
  <2>3. CASE k \in 1 .. Len(f)
    <3>1. Append(f, i)[k] = RingBack(i, Len(f) + 1 - k)
      BY <1>1, <1>2, <2>3
    <3>2. Len(f) + 1 - k \in 1 .. N - 1
      BY <1>1, <1>3, <2>3
    <3>3. RingBack(NextIdx(i), Len(f) + 2 - k) = RingBack(i, Len(f) + 1 - k)
      <4>1. \A d \in 1 .. N - 1 : RingBack(NextIdx(i), d + 1) = RingBack(i, d)
        BY <1>1, <2>1 DEF RingBack, Indices
      <4>2. Len(f) + 2 - k = (Len(f) + 1 - k) + 1
        BY <1>1, <2>3
      <4> QED BY <3>2, <4>1, <4>2
    <3> QED BY <3>1, <3>3
  <2> QED BY <1>1, <2>2, <2>3
<1> QED
  BY <1>1, <1>3, <1>4, <1>5, <1>6

\* Taking the oldest buffer back keeps the order of the ring.
LEMMA DqbufOrder ==
  ASSUME IInv, src.stream_on, sq.fifo # <<>>
  PROVE  LET f == Tail(sq.fifo) IN
         /\ Len(f) <= N
         /\ \A k \in 1 .. Len(f) : f[k] = RingBack(src.buf_idx, Len(f) + 1 - k)
<1> DEFINE f == sq.fifo
<1>1. f \in Seq(Indices) /\ f # <<>> /\ Len(f) \in Nat
  BY DEF IInv, TypeOK, Queues
<1>2. Len(f) <= N /\ \A k \in 1 .. Len(f) : f[k] = RingBack(src.buf_idx, Len(f) + 1 - k)
  BY DEF IInv, RingOrder
<1>3. Len(Tail(f)) = Len(f) - 1 /\ \A k \in 1 .. Len(f) - 1 : Tail(f)[k] = f[k + 1]
  BY <1>1
<1>4. ASSUME NEW k \in 1 .. Len(f) - 1
      PROVE  Tail(f)[k] = RingBack(src.buf_idx, Len(f) - k)
  <2>1. \A n \in Nat : \A j \in 1 .. n - 1 : j + 1 \in 1 .. n /\ n + 1 - (j + 1) = n - j
    OBVIOUS
  <2>2. k + 1 \in 1 .. Len(f) /\ Len(f) + 1 - (k + 1) = Len(f) - k
    BY <1>1, <2>1
  <2> QED BY <1>2, <1>3, <2>2
<1> HIDE DEF f
<1>5. \A k \in 1 .. Len(f) - 1 : (Len(f) - 1) + 1 - k = Len(f) - k
  BY <1>1
<1> QED
  BY <1>1, <1>2, <1>3, <1>4, <1>5 DEF f
-----------------------------------------------------------------------------
LEMMA RunInv == ASSUME IInv, Run PROVE IInv'
<1>1. live' = live /\ held' = held /\ call' = call /\ live
  BY DEF Run, Idle
<1>2. last' \in Lasts
  BY ReturnsTyped DEF Run, RunRefused, RunQueues, RunStarts, RunStartFails, Ops, Rets
<1>3. src \in Srcs /\ src.buf_idx \in Indices /\ src.stream_on \in BOOLEAN
      /\ sq \in Queues /\ Len(sq.fifo) \in Nat /\ sq.ndone \in Nat
      /\ sq.ndone <= Len(sq.fifo) /\ sq.on \in BOOLEAN
  BY DEF IInv, TypeOK, Srcs, Queues
<1>4. CountUp(src.qbuf_cnt) \in 0 .. N
  BY <1>3 DEF CountUp, Srcs
<1>5. NextIdx(src.buf_idx) = (IF src.buf_idx + 1 = N THEN 0 ELSE src.buf_idx + 1)
      /\ NextIdx(src.buf_idx) \in Indices
  BY <1>3, NextIdxValue DEF Indices
<1>6. /\ Qbuf(sq, src.buf_idx) \in Queues
      /\ Qbuf(sq, src.buf_idx).ndone = sq.ndone
      /\ Qbuf(sq, src.buf_idx).on = sq.on
      /\ Qbuf(sq, src.buf_idx).count = sq.count
      /\ Len(Qbuf(sq, src.buf_idx).fifo) = Len(sq.fifo) + 1
  <2>1. Len(Append(sq.fifo, src.buf_idx)) = Len(sq.fifo) + 1
    BY <1>3 DEF Queues
  <2> QED BY <1>3, <2>1, QbufValue
<1>7. CASE RunRefused
  BY <1>1, <1>2, <1>7 DEF RunRefused, IInv, TypeOK, QueuedFromZero, RingOrder
<1>8. CASE RunQueues
  <2>1. /\ src'.stream_on = src.stream_on
        /\ src'.buf_idx = NextIdx(src.buf_idx)
        /\ src'.qbuf_cnt = CountUp(src.qbuf_cnt)
        /\ src' \in Srcs
    BY <1>3, <1>4, <1>5, <1>8 DEF RunQueues, Srcs
  <2>2. sq' = Qbuf(sq, src.buf_idx)
    BY <1>8 DEF RunQueues
  <2>3. TypeOK'
    BY <1>1, <1>2, <1>3, <1>6, <2>1, <2>2 DEF IInv, TypeOK
  <2>4. QueuedFromZero'
    <3> SUFFICES ASSUME ~sq.on PROVE QueuedFromZero'
      BY <1>6, <2>2 DEF QueuedFromZero
    <3>1. /\ Len(sq'.fifo) = src.buf_idx + 1
          /\ \A k \in 1 .. Len(sq'.fifo) : sq'.fifo[k] = k - 1
      BY <1>8, <2>2, QbufStoppedOrder DEF RunQueues
    <3>2. sq'.ndone = 0
      BY <1>6, <2>2 DEF IInv, QueuedFromZero
    <3>3. src'.buf_idx # 0 => src'.buf_idx = src.buf_idx + 1
      BY <1>5, <2>1
    <3>4. src.buf_idx + 1 <= N
      BY <1>3 DEF Indices
    <3> QED BY <3>1, <3>2, <3>3, <3>4 DEF QueuedFromZero
  <2>5. RingOrder'
    <3> SUFFICES ASSUME src.stream_on PROVE RingOrder'
      BY <2>1 DEF RingOrder
    <3>1. /\ Len(sq'.fifo) <= N
          /\ \A k \in 1 .. Len(sq'.fifo) :
                sq'.fifo[k] = RingBack(src'.buf_idx, Len(sq'.fifo) + 1 - k)
      BY <1>8, <2>1, <2>2, QbufRunningOrder DEF RunQueues
    <3>2. live' /\ sq'.on /\ sq'.count = N
      BY <1>1, <1>6, <2>2 DEF IInv, RingOrder
    <3> QED BY <3>1, <3>2 DEF RingOrder
  <2> QED BY <2>3, <2>4, <2>5 DEF IInv
<1>9. CASE RunStarts
  <2>1. /\ src'.buf_idx = NextIdx(src.buf_idx) /\ src' \in Srcs
        /\ src.buf_idx + 1 = N - 2
    BY <1>3, <1>4, <1>5, <1>9 DEF RunStarts, Srcs, StartsNow, StartAt
  <2>2. ~sq.on /\ CanQbuf(sq, src.buf_idx) /\ sq' = Streamon(Qbuf(sq, src.buf_idx))
    BY <1>9 DEF RunStarts, CanStreamon
  <2>3. /\ sq'.on = TRUE /\ sq' \in Queues
        /\ sq'.fifo = Qbuf(sq, src.buf_idx).fifo
        /\ sq'.ndone = sq.ndone /\ sq'.count = sq.count
    BY <1>6, <2>2 DEF Streamon, Queues
  <2>4. TypeOK'
    BY <1>1, <1>2, <1>3, <1>6, <2>1, <2>3 DEF IInv, TypeOK
  <2>5. /\ Len(sq'.fifo) = src.buf_idx + 1
        /\ \A k \in 1 .. Len(sq'.fifo) : sq'.fifo[k] = k - 1
    BY <2>2, <2>3, QbufStoppedOrder
  <2>6. src'.buf_idx = src.buf_idx + 1
    BY <1>3, <1>5, <2>1 DEF Indices
  <2>7. \A k \in 1 .. src.buf_idx + 1 :
          RingBack(src.buf_idx + 1, src.buf_idx + 2 - k) = k - 1
    BY <1>3 DEF RingBack, Indices
  <2>8. \A k \in 1 .. Len(sq'.fifo) :
          sq'.fifo[k] = RingBack(src'.buf_idx, Len(sq'.fifo) + 1 - k)
    <3> SUFFICES ASSUME NEW k \in 1 .. Len(sq'.fifo)
                 PROVE  sq'.fifo[k] = RingBack(src'.buf_idx, Len(sq'.fifo) + 1 - k)
      OBVIOUS
    <3>1. Len(sq'.fifo) + 1 - k = src.buf_idx + 2 - k /\ k \in 1 .. src.buf_idx + 1
      BY <1>3, <2>5 DEF Indices
    <3>2. sq'.fifo[k] = k - 1
      BY <2>5
    <3> QED BY <2>6, <2>7, <3>1, <3>2
  <2>9. sq'.count = N /\ Len(sq'.fifo) <= N
    BY <1>3, <2>1, <2>2, <2>3, <2>5 DEF CanQbuf, Queues, Indices
  <2>10. RingOrder'
    BY <1>1, <2>3, <2>8, <2>9 DEF RingOrder
  <2> QED BY <2>3, <2>4, <2>10 DEF IInv, QueuedFromZero
<1>10. CASE RunStartFails
  <2>0. src.buf_idx + 1 = N - 2 /\ ~src.stream_on /\ src.buf_idx + 1 \in Indices
    BY <1>3, <1>10 DEF RunStartFails, StartsNow, StartAt, Indices
  <2>1. /\ src'.stream_on = src.stream_on
        /\ src'.buf_idx = src.buf_idx + 1
        /\ src' \in Srcs
    BY <1>3, <1>4, <1>10, <2>0 DEF RunStartFails, Srcs
  <2>2. CanQbuf(sq, src.buf_idx) /\ sq' = Qbuf(sq, src.buf_idx)
    BY <1>10 DEF RunStartFails
  <2>3. TypeOK'
    BY <1>1, <1>2, <1>3, <1>6, <2>1, <2>2 DEF IInv, TypeOK
  <2>4. QueuedFromZero'
    <3> SUFFICES ASSUME ~sq.on PROVE QueuedFromZero'
      BY <1>6, <2>2 DEF QueuedFromZero
    <3>1. /\ Len(sq'.fifo) = src.buf_idx + 1
          /\ \A k \in 1 .. Len(sq'.fifo) : sq'.fifo[k] = k - 1
      BY <2>2, QbufStoppedOrder
    <3>2. sq'.ndone = 0
      BY <1>6, <2>2 DEF IInv, QueuedFromZero
    <3>3. src.buf_idx + 1 <= N
      BY <1>3 DEF Indices
    <3> QED BY <2>1, <3>1, <3>2, <3>3 DEF QueuedFromZero
  <2>5. RingOrder'
    BY <2>0, <2>1 DEF RingOrder
  <2> QED BY <2>3, <2>4, <2>5 DEF IInv
<1> QED
  BY <1>7, <1>8, <1>9, <1>10 DEF Run

LEMMA WaitInv == ASSUME IInv, Wait PROVE IInv'
<1>1. live' = live /\ held' = held /\ src' = src /\ sq' = sq
  BY DEF Wait
<1>2. last' \in Lasts
  <2>1. CASE WaitSkips \/ WaitRefused
    BY <2>1, ReturnsTyped DEF WaitSkips, WaitRefused, Ops, Rets
  <2>2. CASE WaitBlocks
    BY <2>2 DEF WaitBlocks, IInv, TypeOK
  <2> QED BY <2>1, <2>2 DEF Wait
<1>3. call' \in {"none", "dqbuf"}
  BY DEF Wait, WaitSkips, WaitRefused, WaitBlocks, IInv, TypeOK
<1> QED
  BY <1>1, <1>2, <1>3 DEF IInv, TypeOK, QueuedFromZero, RingOrder

LEMMA WaitReturnsInv == ASSUME IInv, WaitReturns PROVE IInv'
<1>1. /\ live' = live /\ held' = held /\ src' = src
      /\ call' = "none" /\ sq' = Dqbuf(sq) /\ CanDqbuf(sq)
  BY DEF WaitReturns
<1>2. last' \in Lasts
  BY ReturnsTyped DEF WaitReturns, Ops, Rets
<1>3. sq \in Queues /\ sq.ndone <= Len(sq.fifo) /\ sq.on
      /\ Len(sq.fifo) \in Nat /\ sq.ndone \in Nat
  BY <1>1 DEF IInv, TypeOK, CanDqbuf, Queues
<1>4. /\ sq' \in Queues /\ sq'.fifo = Tail(sq.fifo) /\ sq'.ndone = sq.ndone - 1
      /\ sq'.on = sq.on /\ sq'.count = sq.count /\ sq.fifo # <<>>
  BY <1>1, <1>3, DqbufValue
<1>5. Len(sq'.fifo) = Len(sq.fifo) - 1
  BY <1>3, <1>4 DEF Queues
<1>6. TypeOK'
  BY <1>1, <1>2, <1>3, <1>4, <1>5 DEF IInv, TypeOK
<1>7. QueuedFromZero'
  BY <1>3, <1>4 DEF QueuedFromZero
<1>8. RingOrder'
  <2> SUFFICES ASSUME src.stream_on PROVE RingOrder'
    BY <1>1 DEF RingOrder
  <2>1. /\ Len(sq'.fifo) <= N
        /\ \A k \in 1 .. Len(sq'.fifo) :
              sq'.fifo[k] = RingBack(src'.buf_idx, Len(sq'.fifo) + 1 - k)
    BY <1>1, <1>4, DqbufOrder
  <2>2. live' /\ sq'.on /\ sq'.count = N
    BY <1>1, <1>4 DEF IInv, RingOrder
  <2> QED BY <2>1, <2>2 DEF RingOrder
<1> QED
  BY <1>6, <1>7, <1>8 DEF IInv

LEMMA StopInv == ASSUME IInv, Stop PROVE IInv'
<1>1. live' = live /\ held' = held /\ call' = call /\ src' = Forgotten
  BY DEF Stop
<1>2. src' \in Srcs /\ src'.stream_on = FALSE /\ src'.buf_idx = 0
  BY <1>1 DEF Forgotten, Srcs, Indices
<1>3. last' \in Lasts
  BY ReturnsTyped DEF Stop, StopSkips, StopFails, StopStreams, Ops, Rets
<1>4. CASE UNCHANGED sq
  <2>1. TypeOK'
    BY <1>1, <1>2, <1>3, <1>4 DEF IInv, TypeOK
  <2> QED BY <1>2, <1>4, <2>1, ForgetInv
<1>5. CASE sq' \in {Reqbufs(sq, 0), Streamoff(sq), Reqbufs(Streamoff(sq), 0)}
  <2>1. sq' \in Queues /\ sq'.fifo = <<>> /\ sq'.ndone = 0
    <3>1. sq \in Queues
      BY DEF IInv, TypeOK
    <3>2. /\ Streamoff(sq) \in Queues
          /\ Streamoff(sq).fifo = <<>> /\ Streamoff(sq).ndone = 0
      BY <3>1, StreamoffValue
    <3>3. \A q \in Queues : /\ Reqbufs(q, 0) \in Queues
                            /\ Reqbufs(q, 0).fifo = <<>> /\ Reqbufs(q, 0).ndone = 0
      BY ReqbufsValue
    <3> QED BY <1>5, <3>1, <3>2, <3>3
  <2>2. TypeOK'
    BY <1>1, <1>2, <1>3, <2>1 DEF IInv, TypeOK
  <2> QED BY <1>2, <2>1, <2>2, EmptyInv
<1> QED
  BY <1>4, <1>5 DEF Stop, StopSkips, StopFails, StopStreams

LEMMA JustStopInv == ASSUME IInv, JustStop PROVE IInv'
<1>1. live' = live /\ held' = held /\ call' = call /\ src' = Forgotten
  BY DEF JustStop
<1>2. src' \in Srcs /\ src'.stream_on = FALSE /\ src'.buf_idx = 0
  BY <1>1 DEF Forgotten, Srcs, Indices
<1>3. last' \in Lasts
  BY ReturnsTyped DEF JustStop, Ops, Rets
<1>4. CASE UNCHANGED sq
  <2>1. TypeOK'
    BY <1>1, <1>2, <1>3, <1>4 DEF IInv, TypeOK
  <2> QED BY <1>2, <1>4, <2>1, ForgetInv
<1>5. CASE sq' = Streamoff(sq)
  <2>1. sq' \in Queues /\ sq'.fifo = <<>> /\ sq'.ndone = 0
    BY <1>5, StreamoffValue DEF IInv, TypeOK
  <2>2. TypeOK'
    BY <1>1, <1>2, <1>3, <2>1 DEF IInv, TypeOK
  <2> QED BY <1>2, <2>1, <2>2, EmptyInv
<1> QED
  BY <1>4, <1>5 DEF JustStop

LEMMA CompleteInv == ASSUME IInv, Complete PROVE IInv'
<1>1. /\ live' = live /\ held' = held /\ src' = src /\ call' = call
      /\ last' = last /\ sq' = Finish(sq) /\ CanFinish(sq, Hold)
  BY DEF Complete
<1>2. sq \in Queues /\ Len(sq.fifo) \in Nat /\ sq.ndone \in Nat
  BY DEF IInv, TypeOK, Queues
<1>3. /\ sq' \in Queues /\ sq'.fifo = sq.fifo /\ sq'.ndone = sq.ndone + 1
      /\ sq'.on = sq.on /\ sq'.count = sq.count /\ sq.on
  BY <1>1, <1>2 DEF Finish, CanFinish, Queues
<1>4. sq'.ndone <= Len(sq'.fifo)
  BY <1>1, <1>2, <1>3 DEF CanFinish
<1> QED
  BY <1>1, <1>3, <1>4 DEF IInv, TypeOK, QueuedFromZero, RingOrder
-----------------------------------------------------------------------------
\* Every step keeps the invariant.
LEMMA NextInv == IInv /\ [Next]_vars => IInv'
<1> SUFFICES ASSUME IInv, [Next]_vars PROVE IInv'
  OBVIOUS
<1>1. CASE UNCHANGED vars
  BY <1>1 DEF vars, IInv, TypeOK, QueuedFromZero, RingOrder
<1> QED
  BY <1>1, CreateInv, DestroyInv, ConfigInv, RunInv, WaitInv, WaitReturnsInv,
     StopInv, JustStopInv, CompleteInv DEF Next

\* What TLC checks of one ring holds of all: the invariant is kept by every step.
THEOREM Invariance == Spec => []IInv
BY InitInv, NextInv, PTL DEF Spec

\* The variables are well typed whatever calls fail, for every ring size.
THEOREM TypeCorrect == Spec => []TypeOK
<1>1. IInv => TypeOK
  BY DEF IInv
<1> QED BY <1>1, Invariance, PTL

\* stream_on never claims a stream the driver does not run.
THEOREM FlagTruth == Spec => []FlagIsBacked
<1>1. IInv => FlagIsBacked
  BY DEF IInv, RingOrder, FlagIsBacked
<1> QED BY <1>1, Invariance, PTL

\* A live handle that was never configured, or whose buffers a stop freed, has
\* its index at 0.
IndexAllocated == src.buf_idx # 0 => sq.count = N

LEMMA IndexInv ==
  ASSUME IInv, IndexAllocated, [Next]_vars PROVE IndexAllocated'
<1>1. src \in Srcs /\ sq \in Queues
  BY DEF IInv, TypeOK
<1>2. CASE src'.buf_idx = 0
  BY <1>2 DEF IndexAllocated
<1>3. CASE src' = src /\ sq'.count = sq.count
  BY <1>3 DEF IndexAllocated
<1>4. CASE CanQbuf(sq, src.buf_idx) /\ sq'.count = sq.count
  <2>1. src.buf_idx < sq.count /\ src.buf_idx \in Nat /\ sq.count \in {0, N}
    BY <1>1, <1>4 DEF CanQbuf, Srcs, Indices, Queues
  <2> QED BY <1>4, <2>1 DEF IndexAllocated
<1>5. CASE Create \/ Destroy \/ Config \/ Stop \/ JustStop
  <2>1. src' = ZeroSrc \/ src' = ConfigReset \/ src' = Forgotten \/ UNCHANGED <<src, sq>>
    BY <1>5 DEF Create, Destroy, Config, ConfigRefused, ConfigFails, ConfigNoBuffers,
       ConfigDone, Stop, JustStop
  <2> QED BY <2>1, <1>2, <1>3 DEF ZeroSrc, ConfigReset, Forgotten
<1>6. CASE Run
  BY <1>3, <1>4, <1>6 DEF Run, RunRefused, RunQueues, RunStarts, RunStartFails, Qbuf, Streamon
<1>7. CASE Wait \/ WaitReturns \/ Complete \/ UNCHANGED vars
  BY <1>7, <1>3 DEF Wait, WaitReturns, Complete, vars, Dqbuf, Finish
<1> QED
  BY <1>5, <1>6, <1>7 DEF Next

\* exynos_gsc_out_run is turned away by the driver only when all N buffers are
\* with it: while the stream runs, and after a STREAMON that failed as well.
THEOREM RingRefusal == Spec => []RefusedOnlyWhenFull
<1>1. IInv /\ IndexAllocated => RefusedOnlyWhenFull
  <2> SUFFICES ASSUME IInv, IndexAllocated,
                      src.stream_on \/ (~sq.on /\ src.buf_idx # 0),
                      ~CanQbuf(sq, src.buf_idx)
               PROVE  Len(sq.fifo) = N
    BY DEF RefusedOnlyWhenFull
  <2> DEFINE i == src.buf_idx
  <2>1. i \in Indices /\ Len(sq.fifo) \in Nat /\ sq.fifo \in Seq(Indices)
    BY DEF IInv, TypeOK, Srcs, Queues
  <2>2. sq.count = N /\ Len(sq.fifo) <= N
    BY DEF IInv, RingOrder, QueuedFromZero, IndexAllocated
  <2>3. PICK k \in 1 .. Len(sq.fifo) : sq.fifo[k] = i
    <3>1. i < sq.count
      BY <2>1, <2>2 DEF Indices
    <3>2. i \in Outstanding(sq)
      BY <3>1 DEF CanQbuf
    <3>3. DOMAIN sq.fifo = 1 .. Len(sq.fifo)
      BY <2>1
    <3> QED BY <3>2, <3>3 DEF Outstanding
  <2>4. CASE src.stream_on
    <3>1. RingBack(i, Len(sq.fifo) + 1 - k) = i
      BY <2>3, <2>4 DEF IInv, RingOrder
    <3>2. Len(sq.fifo) + 1 - k \in 1 .. N
      BY <2>1, <2>2
    <3>3. \A d \in 1 .. N : RingBack(i, d) = i => d = N
      BY <2>1 DEF RingBack, Indices
    <3> QED BY <2>1, <2>2, <3>1, <3>2, <3>3
  <2>5. CASE ~sq.on /\ i # 0
    <3>1. sq.fifo[k] = k - 1 /\ i = Len(sq.fifo)
      BY <2>5, <2>3 DEF IInv, QueuedFromZero
    <3>2. k - 1 = Len(sq.fifo)
      BY <2>3, <3>1
    <3>3. k \in Int /\ k <= Len(sq.fifo)
      BY <2>1, <2>3
    <3> QED BY <2>1, <3>2, <3>3
  <2> QED BY <2>4, <2>5
<1>2. Init => IndexAllocated
  BY DEF Init, ZeroSrc, IndexAllocated
<1> QED BY <1>1, <1>2, IndexInv, Invariance, PTL DEF Spec

\* With the ring full, the buffer that comes back next is the one that the next
\* run queues, although the code never reads the index DQBUF returns.
THEOREM RingReuse == Spec => []OldestIsNext
<1>1. IInv => OldestIsNext
  <2> SUFFICES ASSUME IInv, src.stream_on, Len(sq.fifo) = N
               PROVE  Head(sq.fifo) = src.buf_idx
    BY DEF OldestIsNext
  <2>1. src.buf_idx \in Indices /\ sq.fifo \in Seq(Indices)
    BY DEF IInv, TypeOK, Srcs, Queues
  <2>2. sq.fifo[1] = RingBack(src.buf_idx, N)
    BY DEF IInv, RingOrder
  <2> QED BY <2>1, <2>2 DEF RingBack, Indices
<1> QED BY <1>1, Invariance, PTL

\* A stop that answers 0 has left the driver stopped with no buffer, also after
\* an earlier STREAMOFF failed behind a flag already lowered.
THEOREM StopTruth == Spec => []StopMeansStopped
<1>1. Init => StopMeansStopped
  BY DEF Init, StopMeansStopped
<1>2. ASSUME IInv, StopMeansStopped, [Next]_vars PROVE StopMeansStopped'
  <2> SUFFICES ASSUME last' = [op |-> "stop", ret |-> 0]
               PROVE  ~sq'.on /\ sq'.fifo = <<>>
    BY DEF StopMeansStopped
  <2>1. CASE last' = last /\ sq' = sq
    BY <1>2, <2>1 DEF StopMeansStopped
  <2>2. CASE Complete
    BY <1>2, <2>2 DEF StopMeansStopped, Complete, CanFinish
  <2>3. CASE Stop
    <3>1. sq \in Queues
      BY <1>2 DEF IInv, TypeOK
    <3>2. CASE StopSkips
      BY <3>1, <3>2, ReqbufsValue DEF StopSkips, CanReqbufs
    <3>3. CASE StopFails
      BY <3>3 DEF StopFails, Returns
    <3>4. CASE StopStreams
      <4>1. Streamoff(sq) \in Queues /\ Streamoff(sq).fifo = <<>> /\ ~Streamoff(sq).on
        BY <3>1, StreamoffValue
      <4>2. /\ Reqbufs(Streamoff(sq), 0).fifo = <<>>
            /\ ~Reqbufs(Streamoff(sq), 0).on
        BY <4>1, ReqbufsValue
      <4> QED BY <3>4, <4>1, <4>2 DEF StopStreams
    <3> QED BY <2>3, <3>2, <3>3, <3>4 DEF Stop
  <2>4. CASE Create \/ Destroy \/ Config \/ Run \/ JustStop \/ WaitReturns
    BY <2>4 DEF Create, Destroy, Config, ConfigRefused, ConfigFails,
       ConfigNoBuffers, ConfigDone, Run, RunRefused, RunQueues, RunStarts,
       RunStartFails, JustStop, WaitReturns, Returns
  <2>5. CASE Wait
    BY <2>1, <2>5 DEF Wait, WaitSkips, WaitRefused, WaitBlocks, Returns
  <2> QED
    BY <1>2, <2>1, <2>2, <2>3, <2>4, <2>5 DEF Next, vars
<1> QED BY <1>1, <1>2, Invariance, PTL DEF Spec
-----------------------------------------------------------------------------
(* What the process holds of the media device. *)

\* A handle the caller has was made in all its steps, which is what destroy relies on
\* when it takes the link to the display down only behind a known sub-device.
LiveHoldsAll == live => held = Steps

\* A whole creation takes every step; the link to the display is taken after the
\* sub-device became known.
LEMMA TakenValue ==
  /\ Taken(Len(CreateOrder)) = Steps
  /\ \A k \in 0 .. Len(CreateOrder) : /\ Taken(k) \subseteq Steps
                                      /\ "sd_sink" \in Taken(k) => "sd_known" \in Taken(k)
<1>1. Len(CreateOrder) = 8
  BY DEF CreateOrder
<1>2. /\ CreateOrder[1] = "media" /\ CreateOrder[2] = "sink" /\ CreateOrder[3] = "sd_known"
      /\ CreateOrder[4] = "sd" /\ CreateOrder[5] = "vd_sd" /\ CreateOrder[6] = "sd_sink"
      /\ CreateOrder[7] = "vd" /\ CreateOrder[8] = "cap"
  BY DEF CreateOrder
<1>3. Steps = {CreateOrder[1], CreateOrder[2], CreateOrder[3], CreateOrder[4],
               CreateOrder[5], CreateOrder[6], CreateOrder[7], CreateOrder[8]}
  BY <1>2 DEF Steps
<1>4. Taken(8) = Steps
  <2>1. \A i : i \in 1 .. 8 <=> i \in {1, 2, 3, 4, 5, 6, 7, 8}
    OBVIOUS
  <2> QED BY <1>3, <2>1 DEF Taken
<1>5. ASSUME NEW k \in 0 .. 8
      PROVE  Taken(k) \subseteq Steps /\ ("sd_sink" \in Taken(k) => "sd_known" \in Taken(k))
  <2>1. Taken(k) \subseteq Taken(8)
    BY DEF Taken
  <2>2. ASSUME "sd_sink" \in Taken(k) PROVE "sd_known" \in Taken(k)
    <3>1. PICK i \in 1 .. k : CreateOrder[i] = "sd_sink"
      BY <2>2 DEF Taken
    <3>2. i \in {1, 2, 3, 4, 5, 6, 7, 8}
      OBVIOUS
    <3>3. i = 6
      BY <1>2, <3>1, <3>2
    <3>4. 3 \in 1 .. k
      BY <3>3
    <3> QED BY <1>2, <3>4 DEF Taken
  <2> QED BY <1>4, <2>1, <2>2
<1> QED BY <1>1, <1>4, <1>5

\* Taking a handle apart leaves the link inside the scaler, and the one to the
\* display only where taking it down failed or the sub-device was not known.
LEMMA DroppedLeaves ==
  ASSUME NEW h \in SUBSET Steps, NEW u \in Unlinked,
         "sd_sink" \in h => "sd_known" \in h \/ "unlink" \in Faults
  PROVE  Dropped(h, u) \subseteq {"vd_sd"} \cup {l \in {"sd_sink"} : "unlink" \in Faults}
BY DEF Dropped, Unlinked, Steps

\* No creation that failed and no destroy leaves a descriptor open, nor, unless taking
\* it down failed, the link to the display up: destroy finds every step taken, and a
\* creation that failed before the sub-device was known has not made the link.
THEOREM NoLeak == Spec => []NothingLeftOpen
<1>1. Init => LiveHoldsAll /\ NothingLeftOpen
  BY DEF Init, LiveHoldsAll, NothingLeftOpen
<1>2. ASSUME IInv, LiveHoldsAll, NothingLeftOpen, [Next]_vars
      PROVE  LiveHoldsAll' /\ NothingLeftOpen'
  <2>1. CASE Create
    <3>1. ~live /\ held \subseteq Steps
      BY <1>2, <2>1 DEF Create, IInv, TypeOK
    <3>2. PICK k \in 0 .. Len(CreateOrder) :
            IF k = Len(CreateOrder)
            THEN live' = TRUE /\ held' = held \cup Taken(k)
            ELSE live' = FALSE /\ \E u \in Unlinked : held' = Dropped(held \cup Taken(k), u)
      BY <2>1 DEF Create
    <3>3. CASE k = Len(CreateOrder)
      BY <3>1, <3>2, <3>3, TakenValue DEF LiveHoldsAll, NothingLeftOpen
    <3>4. CASE k # Len(CreateOrder)
      <4>1. live' = FALSE
        BY <3>2, <3>4
      <4>2. PICK u \in Unlinked : held' = Dropped(held \cup Taken(k), u)
        BY <3>2, <3>4
      <4>3. held \cup Taken(k) \in SUBSET Steps
        BY <3>1, TakenValue
      <4>4. "sd_sink" \in held => "unlink" \in Faults
        BY <1>2, <3>1 DEF NothingLeftOpen
      <4>5. "sd_sink" \in held \cup Taken(k) =>
              "sd_known" \in held \cup Taken(k) \/ "unlink" \in Faults
        BY <4>4, TakenValue
      <4> QED BY <4>1, <4>2, <4>3, <4>5, DroppedLeaves DEF LiveHoldsAll, NothingLeftOpen
    <3> QED BY <3>3, <3>4
  <2>2. CASE Destroy
    <3>1. live' = FALSE /\ held = Steps /\ "sd_known" \in Steps
      BY <1>2, <2>2 DEF Destroy, Idle, LiveHoldsAll, Steps
    <3>2. PICK u \in Unlinked : held' = Dropped(held, u)
      BY <2>2 DEF Destroy
    <3> QED BY <3>1, <3>2, DroppedLeaves DEF LiveHoldsAll, NothingLeftOpen
  <2>3. CASE live' = live /\ held' = held
    BY <1>2, <2>3 DEF LiveHoldsAll, NothingLeftOpen
  <2> QED
    BY <1>2, <2>1, <2>2, <2>3 DEF Next, vars, Config, Run, Wait, WaitReturns, Stop,
                                  JustStop, Complete
<1> QED BY <1>1, <1>2, Invariance, PTL DEF Spec
-----------------------------------------------------------------------------
(* GscOut implements Stream: each call of the library is one step of      *)
(* Stream, each completion of the scaler and the beginning of a wait is a *)
(* stutter.                                                               *)

\* The variables that Stream sees, and their next values, have their types.
LEMMA SeenTyped ==
  ASSUME IInv
  PROVE  /\ live \in BOOLEAN /\ src.stream_on \in BOOLEAN /\ sq.on \in BOOLEAN
         /\ Len(sq.fifo) \in Nat /\ sq \in Queues /\ src \in Srcs
BY DEF IInv, TypeOK, Srcs, Queues

\* What the driver's operations do to the length of its queue.
LEMMA Lengths ==
  ASSUME NEW q \in Queues
  PROVE  /\ Len(Fresh.fifo) = 0
         /\ Len(Streamoff(q).fifo) = 0
         /\ \A n \in {0, N} : Len(Reqbufs(q, n).fifo) = 0
         /\ \A i \in Indices : Len(Qbuf(q, i).fifo) = Len(q.fifo) + 1
         /\ q.fifo # <<>> => Len(Tail(q.fifo)) = Len(q.fifo) - 1
<1>1. q.fifo \in Seq(Indices)
  BY DEF Queues
<1>2. Fresh.fifo = <<>> /\ Streamoff(q).fifo = <<>>
  BY StreamoffValue DEF Fresh
<1>3. \A n \in {0, N} : Reqbufs(q, n).fifo = <<>>
  BY ReqbufsValue
<1>4. ASSUME NEW i \in Indices PROVE Len(Qbuf(q, i).fifo) = Len(q.fifo) + 1
  <2>1. Qbuf(q, i).fifo = Append(q.fifo, i)
    BY QbufValue
  <2> QED BY <1>1, <2>1
<1> QED
  BY <1>1, <1>2, <1>3, <1>4

\* A new handle is at rest, as Stream's is.
LEMMA CreateMakes == ASSUME IInv, Create PROVE Promise!Make
<1>1. ~live /\ src' = ZeroSrc /\ sq' = Fresh
  BY DEF Create
<1>2. src'.stream_on = FALSE /\ sq'.on = FALSE /\ Len(sq'.fifo) = 0
  BY <1>1 DEF ZeroSrc, Fresh
<1>3. \/ live' = TRUE /\ Returns("create", 0)
      \/ live' = FALSE /\ Returns("create", -1)
  BY DEF Create
<1> QED
  BY <1>1, <1>2, <1>3 DEF Promise!Make, Promise!AtRest, Promise!Returned, Returns

LEMMA DestroyFrees == ASSUME IInv, Destroy PROVE Promise!Free
<1>1. live /\ live' = FALSE /\ src' = ZeroSrc /\ sq' = Fresh /\ Returns("destroy", 0)
  BY DEF Destroy, Idle
<1>2. src'.stream_on = FALSE /\ sq'.on = FALSE /\ Len(sq'.fifo) = 0
  BY <1>1 DEF ZeroSrc, Fresh
<1> QED
  BY <1>1, <1>2 DEF Promise!Free, Promise!AtRest, Promise!Returned, Returns

\* A claimed stream refuses its configuration; otherwise REQBUFS drops the
\* buffers, and only of a driver at rest.
LEMMA ConfigConfigures == ASSUME IInv, Config PROVE Promise!Configure
<1>1. live /\ live' = live
  BY DEF Config, Idle
<1>2. Len(sq.fifo) \in Nat /\ sq \in Queues
  BY SeenTyped
<1>3. CASE ConfigRefused
  BY <1>1, <1>3 DEF ConfigRefused, Returns, Promise!Configure, Promise!Result, Promise!Returned
<1>4. CASE ConfigFails \/ ConfigNoBuffers
  BY <1>1, <1>4 DEF ConfigFails, ConfigNoBuffers, ConfigReset, Returns,
                    Promise!Configure, Promise!Result, Promise!Returned
<1>5. CASE ConfigDone
  <2>1. ~src.stream_on /\ src'.stream_on = src.stream_on /\ Returns("config", 0)
    BY <1>5 DEF ConfigDone, ConfigReset
  <2>2. ~sq.on /\ sq'.on = sq.on /\ Len(sq'.fifo) = 0
    BY <1>2, <1>5, ReqbufsValue, Lengths DEF ConfigDone, CanReqbufs
  <2> QED
    BY <1>1, <2>1, <2>2 DEF Returns, Promise!Configure, Promise!Result, Promise!Returned
<1> QED
  BY <1>3, <1>4, <1>5 DEF Config

\* One buffer more; the flag rises only together with the stream, and a STREAMON
\* that failed is no success.
LEMMA RunFeeds == ASSUME IInv, Run PROVE Promise!Feed
<1>1. live /\ live' = live
  BY DEF Run, Idle
<1>2. /\ Len(sq.fifo) \in Nat /\ sq \in Queues /\ src \in Srcs /\ src.buf_idx \in Indices
      /\ src.stream_on \in BOOLEAN /\ sq.on \in BOOLEAN
  BY SeenTyped DEF Srcs
<1>3. LET q == Qbuf(sq, src.buf_idx) IN
      /\ q \in Queues /\ q.on = sq.on /\ Len(q.fifo) = Len(sq.fifo) + 1
  BY <1>2, QbufValue, Lengths
<1>4. CASE RunRefused
  BY <1>1, <1>2, <1>4 DEF RunRefused, Returns, Promise!Feed, Promise!Result, Promise!Returned
<1>5. CASE RunQueues
  <2>1. src'.stream_on = src.stream_on /\ sq' = Qbuf(sq, src.buf_idx) /\ Returns("run", 0)
    BY <1>2, <1>5 DEF RunQueues, Srcs
  <2> QED
    BY <1>1, <1>2, <1>3, <2>1 DEF Returns, Promise!Feed, Promise!Result, Promise!Returned
<1>6. CASE RunStarts
  <2>1. src'.stream_on = TRUE /\ ~sq.on /\ sq' = Streamon(Qbuf(sq, src.buf_idx))
        /\ Returns("run", 0)
    BY <1>6 DEF RunStarts, CanStreamon
  <2>2. sq'.on = TRUE /\ Len(sq'.fifo) = Len(sq.fifo) + 1
    BY <1>3, <2>1 DEF Streamon, Queues
  <2> QED
    BY <1>1, <1>2, <2>1, <2>2 DEF Returns, Promise!Feed, Promise!Result, Promise!Returned
<1>7. CASE RunStartFails
  <2>1. src'.stream_on = src.stream_on /\ sq' = Qbuf(sq, src.buf_idx) /\ Returns("run", -1)
    BY <1>2, <1>7 DEF RunStartFails, Srcs
  <2> QED
    BY <1>1, <1>2, <1>3, <2>1 DEF Returns, Promise!Feed, Promise!Result, Promise!Returned
<1> QED
  BY <1>4, <1>5, <1>6, <1>7 DEF Run

\* A wait that begins to block is nothing to the user; one that returns at once
\* brings nothing.
LEMMA WaitCollects == ASSUME IInv, Wait PROVE Promise!Collect \/ UNCHANGED Promise!vars
<1>1. live /\ live' = live /\ src' = src /\ sq' = sq
  BY DEF Wait, Idle
<1>2. CASE WaitSkips \/ WaitRefused
  BY <1>1, <1>2 DEF WaitSkips, WaitRefused, Returns, Promise!Collect, Promise!Result,
                    Promise!Returned
<1>3. CASE WaitBlocks
  BY <1>1, <1>3 DEF WaitBlocks, Promise!vars
<1> QED
  BY <1>2, <1>3 DEF Wait

LEMMA WaitReturnsCollects ==
  ASSUME IInv, WaitReturns, live PROVE Promise!Collect
<1>1. live' = live /\ src' = src /\ sq' = Dqbuf(sq) /\ CanDqbuf(sq) /\ Returns("wait", 0)
  BY DEF WaitReturns
<1>2. sq \in Queues /\ Len(sq.fifo) \in Nat /\ sq.ndone <= Len(sq.fifo) /\ sq.on
  BY <1>1, SeenTyped DEF IInv, TypeOK, CanDqbuf
<1>3. sq'.on = sq.on /\ sq'.fifo = Tail(sq.fifo) /\ sq.fifo # <<>>
  BY <1>1, <1>2, DqbufValue
<1>4. Len(sq'.fifo) = Len(sq.fifo) - 1 /\ Len(sq'.fifo) \in Nat
  BY <1>1, <1>2, <1>3, Lengths, DqbufValue DEF Queues
<1> QED
  BY <1>1, <1>2, <1>3, <1>4 DEF Returns, Promise!Collect, Promise!Result, Promise!Returned

\* 0 is answered for a stop only with the driver at rest.
LEMMA StopStops == ASSUME IInv, Stop PROVE Promise!Stop
<1>1. live /\ live' = live /\ src'.stream_on = FALSE
  BY DEF Stop, Idle, Forgotten
<1>2. sq \in Queues
  BY SeenTyped
<1>3. CASE StopFails
  BY <1>1, <1>3 DEF StopFails, Returns, Promise!Stop, Promise!Result, Promise!Returned
<1>4. CASE StopSkips
  <2>1. sq'.on = FALSE /\ Len(sq'.fifo) = 0 /\ Returns("stop", 0)
    BY <1>2, <1>4, ReqbufsValue, Lengths DEF StopSkips, CanReqbufs, Queues
  <2> QED
    BY <1>1, <2>1 DEF Returns, Promise!Stop, Promise!Result, Promise!Returned
<1>5. CASE StopStreams
  <2>1. /\ Streamoff(sq) \in Queues /\ Streamoff(sq).on = FALSE
        /\ Len(Streamoff(sq).fifo) = 0
    BY <1>2, StreamoffValue, Lengths
  <2>2. Reqbufs(Streamoff(sq), 0).on = FALSE /\ Len(Reqbufs(Streamoff(sq), 0).fifo) = 0
    BY <2>1, ReqbufsValue, Lengths
  <2>3. sq'.on = FALSE /\ Len(sq'.fifo) = 0
        /\ (Returns("stop", 0) \/ Returns("stop", -1))
    BY <1>5, <2>1, <2>2 DEF StopStreams
  <2> QED
    BY <1>1, <2>3 DEF Returns, Promise!Stop, Promise!Result, Promise!Returned
<1> QED
  BY <1>3, <1>4, <1>5 DEF Stop

LEMMA JustStopStops == ASSUME IInv, JustStop PROVE Promise!JustStop
<1>1. live /\ live' = live /\ src'.stream_on = FALSE
  BY DEF JustStop, Idle, Forgotten
<1>2. Streamoff(sq).on = FALSE /\ Len(Streamoff(sq).fifo) = 0
  BY SeenTyped, StreamoffValue, Lengths
<1>3. \/ UNCHANGED sq /\ (Returns("just_stop", 0) \/ Returns("just_stop", -1))
      \/ src.stream_on /\ sq' = Streamoff(sq) /\ Returns("just_stop", 0)
  BY DEF JustStop
<1> QED
  BY <1>1, <1>2, <1>3 DEF Returns, Promise!JustStop, Promise!Result, Promise!Returned

\* The scaler's completions move no buffer out of the queue.
LEMMA CompleteStutters == ASSUME IInv, Complete PROVE UNCHANGED Promise!vars
<1>1. live' = live /\ src' = src /\ last' = last /\ sq' = Finish(sq) /\ sq \in Queues
  BY SeenTyped DEF Complete
<1>2. sq'.on = sq.on /\ sq'.fifo = sq.fifo
  BY <1>1 DEF Finish, Queues
<1> QED
  BY <1>1, <1>2 DEF Promise!vars
-----------------------------------------------------------------------------
\* Only the holder of a handle waits on it.
Waiting == call = "dqbuf" => live

LEMMA WaitingInv == Waiting /\ [Next]_vars => Waiting'
BY DEF Waiting, Next, vars, Create, Destroy, Config, Run, Wait, WaitSkips, WaitRefused,
       WaitBlocks, WaitReturns, Stop, JustStop, Complete, Idle

\* Every step is one of Stream, or nothing to its users.
LEMMA NextImplements == IInv /\ Waiting /\ [Next]_vars => [Promise!Next]_Promise!vars
<1> SUFFICES ASSUME IInv, Waiting, [Next]_vars
             PROVE  Promise!Next \/ UNCHANGED Promise!vars
  OBVIOUS
<1>1. CASE UNCHANGED vars
  BY <1>1 DEF vars, Promise!vars
<1>2. CASE WaitReturns
  BY <1>2, WaitReturnsCollects DEF Waiting, WaitReturns, Promise!Next
<1> QED
  BY <1>1, <1>2, CreateMakes, DestroyFrees, ConfigConfigures, RunFeeds, WaitCollects,
     StopStops, JustStopStops, CompleteStutters DEF Next, Promise!Next

LEMMA InitImplements == Init => Promise!Init /\ Waiting
BY DEF Init, Promise!Init, ZeroSrc, Fresh, Waiting

\* Whatever calls fail in whatever order, for every ring size, the output handle
\* keeps the promise of Stream.
THEOREM OutputKeepsPromise == Spec => Implements
<1>1. Spec => []Waiting
  BY InitImplements, WaitingInv, PTL DEF Spec
<1> QED
  BY <1>1, Invariance, InitImplements, NextImplements, PTL DEF Spec, Implements, Promise!Spec

-----------------------------------------------------------------------------
(* The second part: the hardware composer (Hwc), for every set of lists of     *)
(* layers, every screen, both default modes and every call that may fail.      *)

Modes == {"m2m", "output"}
Bufs == Handles \cup {NoBuf}
Places == [x : Int, y : Int, w : Int, h : Int]
Layers == [shape : Shapes, h : Bufs, type : {"fb", "overlay"}]
WindowRecords ==
  [place : Places, crop : Places, mode : Modes, needCfg : BOOLEAN, started : BOOLEAN,
   reserved : BOOLEAN, layer : Nat, prev : Bufs]
Contexts ==
  [mode : Modes, numHwc : Nat, numFb : Nat, numSkip : Nat, inited : BOOLEAN, count : Nat,
   rectChanged : BOOLEAN, needTry : BOOLEAN, delay : Nat]
Scalers ==
  [at : {"live", "null"}, mode : Modes, cfg : [place : Places, crop : Places],
   on : {"off", "on", "stuck"}]

HwcTypeOK ==
  /\ list \in Seq(Layers)
  /\ win \in [Wins -> WindowRecords]
  /\ lit \in [Windows -> BOOLEAN]
  /\ virt \in [1 .. DummyWins -> [prev : Bufs, layer : Nat]]
  /\ ctx \in Contexts /\ gsc \in Scalers
  /\ phase \in {"prepare", "set"}

\* The windows learn of every switch of the scaler that succeeded, and a scaler that
\* could not be made does nothing.
ModesAgree ==
  /\ gsc.mode = ctx.mode
  /\ gsc.at = "live" => \A i \in Wins : win[i].mode = gsc.mode
  /\ gsc.at = "null" => gsc.on = "off" /\ gsc.cfg = Unset

\* What Decide found of layer i of l for the window w, and what stays true of them.
Backs(w, i, l, g) ==
  /\ i \in DOMAIN l /\ l[i].shape.kind = "yuv" /\ Fits[l[i].shape]
  /\ w.reserved /\ w.layer = i
  /\ w.place = Place[l[i].shape] /\ w.crop = l[i].shape.crop
  /\ g.at = "live"
  /\ g.mode = "output" /\ i = First(Having(l, "yuv")) => ~NeedsMemory(l[i].shape)

\* A list has at most one overlay, in window 0.
Backed ==
  /\ ctx.numHwc \in 0 .. 1
  /\ list # NoList /\ ctx.numHwc = 1 =>
       Backs(win[0], win[0].layer, list, gsc) /\ list[win[0].layer].type = "overlay"

\* A configured output handle belongs to a started window w and has its rectangles.
StreamOK(g, w) ==
  /\ g.on = "on" => g.mode = "output" /\ g.cfg # Unset
  /\ g.mode = "output" /\ g.on # "stuck" /\ g.cfg # Unset =>
       w.started /\ g.cfg = [place |-> w.place, crop |-> w.crop]
StreamKnown == StreamOK(gsc, win[0])

\* A frame without overlays that was not swapped left the stream for the next one.
Ended == phase = "prepare" /\ ctx.numHwc = 0 /\ gsc.on = "on" => uiDrawn = Failed

\* Once the UI layers are written down they are all of the list's, at most NUM_OF_DUMMY_WIN.
Virtuals == ctx.numFb + ctx.numSkip
WrittenDown ==
  /\ ~ctx.inited => ctx.numSkip = 0
  /\ ctx.numFb = 0 \/ ctx.numSkip = 0
  /\ ctx.inited => /\ list # NoList /\ ctx.numHwc = 1 /\ Virtuals \in 1 .. DummyWins
                   /\ Having(list, "rgb") = {virt[v].layer : v \in 1 .. Virtuals}
  /\ list # NoList /\ ctx.numHwc = 1 => Cardinality(Having(list, "rgb")) <= Virtuals

\* Their buffers are those of the frame that set draws, drew, or that is still shown.
UiKnown ==
  ctx.inited => \A v \in 1 .. Virtuals :
    LET i == virt[v].layer IN
    /\ phase = "set" \/ ctx.numSkip > 0 => list[i].h = virt[v].prev
    /\ IF phase = "set" /\ ctx.numSkip = 0
       THEN list[i].type = "fb"
       ELSE uiDrawn # Failed => i \in DOMAIN uiDrawn /\ uiDrawn[i] = virt[v].prev

\* The inductive invariant.
HwcInv ==
  HwcTypeOK /\ ModesAgree /\ Backed /\ StreamKnown /\ Ended /\ WrittenDown /\ UiKnown
-----------------------------------------------------------------------------
(* Types. *)

\* The lists of an instance are made of its shapes.
LEMMA ShapesTyped ==
  /\ Shapes \subseteq Shape
  /\ \A l \in Lists : /\ l \in Seq(Shapes) /\ l # <<>>
<1>1. Lists \subseteq Seq(Shape) /\ <<>> \notin Lists
  BY HwcAssumption
<1>2. ASSUME NEW l \in Lists PROVE Range(l) \subseteq Shapes /\ Range(l) \subseteq Shape
  <2>1. l \in Seq(Shape)
    BY <1>1
  <2> QED BY <2>1 DEF Shapes, Range
<1>3. ASSUME NEW l \in Lists PROVE l \in Seq(Shapes)
  <2>1. l \in [1 .. Len(l) -> Shape] /\ Len(l) \in Nat /\ DOMAIN l = 1 .. Len(l)
    BY <1>1
  <2>2. \A i \in 1 .. Len(l) : l[i] \in Shapes
    BY <1>2, <2>1 DEF Range
  <2> QED BY <2>1, <2>2
<1> QED BY <1>1, <1>2, <1>3 DEF Shapes

\* A shape has rectangles, and so has what lies of it on the screen.
LEMMA PlacesTyped ==
  ASSUME NEW shape \in Shapes
  PROVE  /\ shape \in Shape /\ shape.frame \in Rect /\ shape.crop \in Rect
         /\ Place[shape] \in Places /\ shape.crop \in Places /\ NoPlace \in Places
         /\ shape.frame \in Places
<1>1. shape \in Shape
  BY ShapesTyped
<1>2. shape.frame \in Rect /\ shape.crop \in Rect
  BY <1>1 DEF Shape
<1>3. shape.frame \in Places /\ shape.crop \in Places
  BY <1>2 DEF Rect, Places
<1>4. Screen.w \in Int /\ Screen.h \in Int
  BY HwcAssumption
<1>5. \A a, b, c \in Int : Clipped(a, b, c) \in Int
  BY DEF Clipped
<1>6. Place[shape] \in Places
  <2> DEFINE f == shape.frame
  <2>1. Place[shape] = [x |-> IF f.x < 0 THEN 0 ELSE f.x, y |-> IF f.y < 0 THEN 0 ELSE f.y,
                        w |-> Clipped(f.x, f.w, Screen.w), h |-> Clipped(f.y, f.h, Screen.h)]
    BY DEF Place
  <2>2. f.x \in Int /\ f.y \in Int /\ f.w \in Int /\ f.h \in Int
    BY <1>3 DEF Places
  <2>3. Clipped(f.x, f.w, Screen.w) \in Int /\ Clipped(f.y, f.h, Screen.h) \in Int
    BY <1>4, <1>5, <2>2
  <2> HIDE DEF f
  <2> QED BY <2>1, <2>2, <2>3 DEF Places
<1> QED BY <1>1, <1>2, <1>3, <1>6 DEF NoPlace, Places

\* Every choice of buffers gives each layer a buffer or none.
LEMMA BuffersTyped ==
  ASSUME NEW l \in Seq(Shapes), NEW b \in Buffers(l)
  PROVE  DOMAIN b = DOMAIN l /\ \A i \in DOMAIN l : b[i] \in Bufs
BY DEF Buffers, Bufs

\* A list the caller makes anew is one of layers, and not empty.
LEMMA NewListsTyped ==
  ASSUME NEW l \in NewLists
  PROVE  l \in Seq(Layers) /\ l # NoList
<1>0. PICK m \in Lists : \E b \in Buffers(m) :
        l = [i \in DOMAIN m |-> [shape |-> m[i], h |-> b[i], type |-> "fb"]]
  BY DEF NewLists
<1>1. PICK b \in Buffers(m) :
        l = [i \in DOMAIN m |-> [shape |-> m[i], h |-> b[i], type |-> "fb"]]
  BY <1>0
<1>2. m \in Seq(Shapes) /\ m # <<>>
  BY ShapesTyped
<1>3. Len(m) \in Nat /\ DOMAIN m = 1 .. Len(m) /\ Len(m) # 0 /\ \A i \in 1 .. Len(m) : m[i] \in Shapes
  BY <1>2
<1>4. \A i \in 1 .. Len(m) : b[i] \in Bufs
  BY <1>2, <1>3, BuffersTyped
<1>5. l \in [1 .. Len(m) -> Layers]
  BY <1>1, <1>3, <1>4 DEF Layers
<1> QED BY <1>3, <1>5 DEF NoList

\* A refilled list is the old one with other buffers.
Refills(l) ==
  /\ l \in Seq(Layers) /\ l # NoList
  /\ DOMAIN l = DOMAIN list
  /\ \A i \in DOMAIN l : l[i].shape = list[i].shape /\ l[i].type = list[i].type

\* With the same geometry the list keeps its shapes.
LEMMA RefilledTyped ==
  ASSUME HwcTypeOK, list # NoList, NEW l \in Refilled
  PROVE  Refills(l)
<1> DEFINE m == [i \in DOMAIN list |-> list[i].shape]
<1>1. Len(list) \in Nat /\ DOMAIN list = 1 .. Len(list) /\ Len(list) # 0
      /\ \A i \in 1 .. Len(list) : list[i] \in Layers
  BY DEF HwcTypeOK, NoList
<1>2. m \in [1 .. Len(list) -> Shapes]
  BY <1>1 DEF Layers
<1>3. m \in Seq(Shapes) /\ DOMAIN m = DOMAIN list
  BY <1>1, <1>2
<1>4. PICK b \in Buffers(m) : l = [i \in DOMAIN list |-> [list[i] EXCEPT !.h = b[i]]]
  BY DEF Refilled
<1>5. \A i \in DOMAIN list : b[i] \in Bufs
  BY <1>3, <1>4, BuffersTyped
<1>6. \A i \in DOMAIN list : /\ l[i] = [list[i] EXCEPT !.h = b[i]] /\ l[i] \in Layers
                             /\ l[i].shape = list[i].shape /\ l[i].type = list[i].type
  BY <1>1, <1>4, <1>5 DEF Layers
<1>7. l \in [1 .. Len(list) -> Layers] /\ DOMAIN l = DOMAIN list
  BY <1>1, <1>4, <1>6
<1> QED BY <1>1, <1>6, <1>7 DEF Refills, NoList
-----------------------------------------------------------------------------
(* hwc_prepare: a new decision. *)

\* What gsc_mode_change_check leaves.
LEMMA SwitchedIs ==
  ASSUME HwcTypeOK, ModesAgree, StreamKnown, NEW l \in Seq(Layers), NEW change \in Switched(l)
  PROVE  /\ change.gsc \in Scalers /\ change.win \in [Wins -> WindowRecords]
         /\ change.gsc.mode = WantedMode(l)
         /\ change.gsc.at = "live" => \A i \in Wins : change.win[i].mode = change.gsc.mode
         /\ change.gsc.at = "null" => change.gsc.on = "off" /\ change.gsc.cfg = Unset
         /\ StreamOK(change.gsc, change.win[0])
<1>1. WantedMode(l) \in Modes
  BY HwcAssumption DEF WantedMode, HwcTypeOK, Contexts, Modes
<1>2. Unset \in [place : Places, crop : Places] /\ NoPlace \in Places
  BY DEF Unset, NoPlace, Places
<1>3. CASE change = [gsc |-> gsc, win |-> win] /\ WantedMode(l) = ctx.mode
  BY <1>3 DEF HwcTypeOK, ModesAgree, StreamKnown
<1>4. CASE change = [gsc |-> Handle(WantedMode(l)),
                     win |-> [i \in Wins |-> [win[i] EXCEPT !.mode = WantedMode(l), !.place = NoPlace]]]
  <2>1. change.gsc = [at |-> "live", mode |-> WantedMode(l), cfg |-> Unset, on |-> "off"]
    BY <1>4 DEF Handle
  <2>2. change.gsc \in Scalers
    BY <1>1, <1>2, <2>1 DEF Scalers
  <2>3. ASSUME NEW i \in Wins
        PROVE  change.win[i] \in WindowRecords /\ change.win[i].mode = WantedMode(l)
    <3>1. win[i] \in WindowRecords
      BY DEF HwcTypeOK
    <3>2. change.win[i] = [win[i] EXCEPT !.mode = WantedMode(l), !.place = NoPlace]
      BY <1>4
    <3> QED BY <1>1, <1>2, <3>1, <3>2 DEF WindowRecords
  <2>4. change.win = [i \in Wins |-> change.win[i]]
    BY <1>4
  <2> QED BY <2>1, <2>2, <2>3, <2>4 DEF StreamOK
<1>5. CASE change = [gsc |-> [Handle(WantedMode(l)) EXCEPT !.at = "null"], win |-> win]
  <2>1. change.gsc = [at |-> "null", mode |-> WantedMode(l), cfg |-> Unset, on |-> "off"]
    BY <1>5 DEF Handle
  <2>2. change.gsc \in Scalers
    BY <1>1, <1>2, <2>1 DEF Scalers
  <2> QED BY <1>5, <2>1, <2>2 DEF StreamOK, HwcTypeOK
<1> QED BY <1>3, <1>4, <1>5 DEF Switched

\* Of several videos none goes to the second window.
LEMMA OneVideo ==
  ASSUME NEW l \in Seq(Layers), NEW i \in DOMAIN l, NEW j \in DOMAIN l, i # j,
         l[i].shape.kind = "yuv", l[j].shape.kind = "yuv"
  PROVE  Cardinality(Having(l, "yuv")) # 1
<1>1. Len(l) \in Nat /\ DOMAIN l = 1 .. Len(l)
  OBVIOUS
<1>2. IsFiniteSet(1 .. Len(l))
  BY <1>1, FS_Interval
<1>3. IsFiniteSet(Having(l, "yuv"))
  BY <1>1, <1>2, FS_Subset DEF Having
<1>4. {i, j} \subseteq Having(l, "yuv")
  BY DEF Having
<1>5. Cardinality(Having(l, "yuv")) = 1 => \E x : Having(l, "yuv") = {x}
  BY <1>3, FS_Singleton
<1> QED BY <1>4, <1>5

\* What assign_overlay_window has done to the windows after k layers of l.
Passes == [n : 0 .. 1, fb : Int, overlays : SUBSET Nat, needTry : BOOLEAN,
           win : [Wins -> WindowRecords]]
PassOK(s, k, l, change) ==
  /\ s \in Passes /\ s.fb = k - s.n
  /\ \A i \in Wins : /\ s.win[i].mode = change.win[i].mode
                     /\ s.win[i].started = change.win[i].started
  /\ s.n = 0 => /\ s.overlays = {}
                /\ s.win[0].place = change.win[0].place /\ s.win[0].crop = change.win[0].crop
  /\ s.n = 1 => /\ s.win[0].layer \in 1 .. k /\ s.overlays = {s.win[0].layer}
                /\ Backs(s.win[0], s.win[0].layer, l, change.gsc)
                /\ Busy(change.win[0]) => /\ s.win[0].place = change.win[0].place
                                          /\ s.win[0].crop = change.win[0].crop

\* A window that is given a layer has its rectangles and is reserved for it.
LEMMA GivenTyped ==
  ASSUME NEW w \in WindowRecords, NEW layer \in Layers, NEW i \in Nat
  PROVE  /\ Given(w, layer, i) \in WindowRecords
         /\ Given(w, layer, i).place = Place[layer.shape]
         /\ Given(w, layer, i).crop = layer.shape.crop
         /\ Given(w, layer, i).reserved /\ Given(w, layer, i).layer = i
         /\ Given(w, layer, i).mode = w.mode /\ Given(w, layer, i).started = w.started
<1>1. layer.shape \in Shapes /\ layer.h \in Bufs
  BY DEF Layers
<1>2. Place[layer.shape] \in Places /\ layer.shape.crop \in Places
  BY <1>1, PlacesTyped
<1>3. Moved(w, layer) \in BOOLEAN
  BY DEF Moved
<1> HIDE DEF Moved
<1>4. (w.needCfg \/ Moved(w, layer)) \in BOOLEAN
  OBVIOUS
<1>5. (IF Moved(w, layer) /\ ~layer.shape.cam THEN NoBuf ELSE w.prev) \in Bufs
  BY DEF WindowRecords, Bufs
<1> DEFINE a == w.needCfg \/ Moved(w, layer)
           b == IF Moved(w, layer) /\ ~layer.shape.cam THEN NoBuf ELSE w.prev
<1>6. Given(w, layer, i) = [w EXCEPT !.place = Place[layer.shape], !.crop = layer.shape.crop,
                              !.needCfg = a, !.reserved = TRUE, !.layer = i, !.prev = b]
  BY DEF Given
<1>7. a \in BOOLEAN /\ b \in Bufs
  BY <1>4, <1>5
<1> HIDE DEF a, b
<1> QED BY <1>2, <1>6, <1>7 DEF WindowRecords

\* One layer of assign_overlay_window.
LEMMA AssignKeepsPass ==
  ASSUME HwcTypeOK, NEW l \in Seq(Layers), NEW change \in Switched(l),
         change.gsc.mode = WantedMode(l), NEW geometry \in BOOLEAN,
         NEW k \in 1 .. Len(l), NEW s, PassOK(s, k - 1, l, change)
  PROVE  PassOK(Assign(s, l, k, change.gsc, geometry), k, l, change)
<1> DEFINE g == change.gsc
           w == s.win[s.n]
           may == Overlayable(l, k, s.n, g)
           wait == (s.needTry /\ Busy(w)) \/ CameraWaits(w, l[k], geometry)
           rest == s.fb + 1
           passed == [s EXCEPT !.fb = rest]
           yes == TRUE
           again == [s EXCEPT !.fb = rest, !.needTry = yes]
           next == s.n + 1
           overlays == s.overlays \cup {k}
           tries == s.needTry /\ Stays(w, l[k])
           v == Given(w, l[k], k)
           windows == [s.win EXCEPT ![s.n] = v]
           given == [s EXCEPT !.n = next, !.overlays = overlays, !.needTry = tries, !.win = windows]
           a == Assign(s, l, k, g, geometry)
<1>1. l[k] \in Layers /\ Len(l) \in Nat /\ DOMAIN l = 1 .. Len(l) /\ k \in Nat
  OBVIOUS
<1>2. s \in Passes /\ s.n \in 0 .. 1 /\ s.fb \in Int /\ s.fb = k - 1 - s.n /\ s.needTry \in BOOLEAN
      /\ s.overlays \in SUBSET Nat /\ s.win \in [Wins -> WindowRecords]
  BY DEF PassOK, Passes
<1>3. a = IF ~may \/ wait THEN passed ELSE IF TryAgain(w, lit[s.n], l[k]) THEN again ELSE given
  BY DEF Assign
<1>31. rest \in Int /\ yes \in BOOLEAN
  BY <1>2
<1>4. PassOK(passed, k, l, change)
  <2> HIDE DEF rest
  <2>1. passed.n = s.n /\ passed.fb = rest /\ passed.overlays = s.overlays
        /\ passed.win = s.win /\ passed \in Passes
    BY <1>2, <1>31 DEF Passes
  <2> HIDE DEF passed
  <2> USE DEF rest
  <2> QED BY <1>1, <1>2, <2>1 DEF PassOK
<1>5. PassOK(again, k, l, change)
  <2> HIDE DEF rest, yes
  <2>1. again.n = s.n /\ again.fb = rest /\ again.overlays = s.overlays
        /\ again.win = s.win /\ again \in Passes
    BY <1>2, <1>31 DEF Passes
  <2> HIDE DEF again
  <2> USE DEF rest
  <2> QED BY <1>1, <1>2, <2>1 DEF PassOK
<1>6. CASE s.n = 1
  <2>1. s.win[0].layer \in 1 .. (k - 1) /\ Backs(s.win[0], s.win[0].layer, l, g)
    BY <1>6 DEF PassOK
  <2>2. ~may
    <3>1. SUFFICES ASSUME may PROVE FALSE
      OBVIOUS
    <3>2. Cardinality(Having(l, "yuv")) = 1 /\ Fits[l[k].shape]
      BY <1>6, <3>1 DEF Overlayable
    <3>3. l[k].shape.kind = "yuv"
      BY <1>1, <3>2 DEF Fits, Layers
    <3>4. l[s.win[0].layer].shape.kind = "yuv" /\ s.win[0].layer \in DOMAIN l
      BY <2>1 DEF Backs
    <3> QED BY <1>1, <2>1, <3>2, <3>3, <3>4, OneVideo
  <2> QED BY <1>3, <1>4, <2>2
<1>7. CASE s.n = 0
  <2>0. s.win[0] \in WindowRecords /\ w = s.win[0]
    BY <1>2, <1>7 DEF Wins
  <2>1. SUFFICES ASSUME may, ~wait, ~TryAgain(w, lit[s.n], l[k])
                 PROVE  PassOK(a, k, l, change)
    <3> HIDE DEF may, wait, passed, again, given
    <3> QED BY <1>3, <1>4, <1>5
  <2>2. /\ v \in WindowRecords
        /\ v.place = Place[l[k].shape] /\ v.crop = l[k].shape.crop
        /\ v.reserved /\ v.layer = k /\ v.mode = s.win[0].mode /\ v.started = s.win[0].started
    <3> HIDE DEF w
    <3>1. w \in WindowRecords /\ l[k] \in Layers /\ k \in Nat
      BY <1>1, <2>0
    <3>2. v \in WindowRecords
      BY <3>1, GivenTyped
    <3>3. v.place = Place[l[k].shape] /\ v.crop = l[k].shape.crop
      BY <3>1, GivenTyped
    <3>4. v.reserved
      BY <3>1, GivenTyped
    <3>5. v.layer = k /\ v.mode = w.mode /\ v.started = w.started
      BY <3>1, GivenTyped
    <3> QED BY <2>0, <3>2, <3>3, <3>4, <3>5
  <2>4. a = given
    BY <1>3, <2>1
  <2>5. windows \in [Wins -> WindowRecords] /\ windows[0] = v
    <3>1. v \in WindowRecords
      BY <2>2
    <3> HIDE DEF v
    <3> QED BY <1>2, <1>7, <3>1 DEF Wins
  <2>51. \A i \in Wins : i # 0 => windows[i] = s.win[i]
    <3> HIDE DEF v
    <3> QED BY <1>2, <1>7 DEF Wins
  <2>6. l[k].shape.kind = "yuv" /\ Fits[l[k].shape] /\ g.at = "live"
    <3>1. Fits[l[k].shape] /\ g.at = "live"
      BY <2>1 DEF Overlayable
    <3> QED BY <1>1, <3>1 DEF Fits, Layers
  <2>7. g.mode = "output" /\ k = First(Having(l, "yuv")) => ~NeedsMemory(l[k].shape)
    <3>1. k \in Having(l, "yuv")
      BY <1>1, <2>6 DEF Having
    <3> QED BY <3>1 DEF WantedMode
  <2>8. Backs(v, k, l, g)
    BY <1>1, <2>2, <2>6, <2>7 DEF Backs
  <2>9. \A i \in Wins : /\ windows[i].mode = change.win[i].mode
                        /\ windows[i].started = change.win[i].started
    <3> HIDE DEF windows, v
    <3> QED BY <2>0, <2>2, <2>5, <2>51 DEF PassOK, Wins
  <2>10. Busy(change.win[0]) => v.place = change.win[0].place /\ v.crop = change.win[0].crop
    <3>1. w.mode = change.win[0].mode /\ w.started = change.win[0].started
          /\ w.place = change.win[0].place /\ w.crop = change.win[0].crop
      BY <1>7, <2>0 DEF PassOK, Wins
    <3>2. Busy(w) => Stays(w, l[k])
      BY <2>1 DEF TryAgain
    <3> QED BY <2>2, <3>1, <3>2 DEF Busy, Stays, Moved, Cropped
  <2>11. given.n = 1 /\ given.fb = s.fb /\ given.overlays = {k} /\ given.win = windows
         /\ given \in Passes
    <3>1. s.overlays = {}
      BY <1>7 DEF PassOK
    <3>2. overlays = {k} /\ overlays \in SUBSET Nat
      BY <1>1, <3>1
    <3>3. next = 1 /\ next \in 0 .. 1
      BY <1>7
    <3>4. tries \in BOOLEAN
      BY <1>2
    <3> HIDE DEF next, overlays, tries, windows
    <3>5. given.n = next /\ given.fb = s.fb /\ given.overlays = overlays /\ given.win = windows
          /\ given \in Passes
      BY <1>2, <2>5, <3>2, <3>3, <3>4 DEF Passes
    <3> QED BY <3>2, <3>3, <3>5
  <2>12. a.n = 1 /\ a.fb = s.fb /\ a.overlays = {k} /\ a.win = windows /\ a \in Passes
    <3> HIDE DEF given, a, windows
    <3> QED BY <2>4, <2>11
  <2> HIDE DEF windows, v, a, given
  <2> QED BY <1>1, <1>2, <1>7, <2>2, <2>5, <2>8, <2>9, <2>10, <2>12 DEF PassOK
<1> QED BY <1>2, <1>6, <1>7

\* A set of numbers that is not empty has a least one: how the loop over the layers
\* is reasoned about.
LEMMA LeastExists ==
  ASSUME NEW S \in SUBSET Nat, S # {}
  PROVE  \E i \in S : \A j \in S : i <= j
<1>1. PICK i \in S : \A j \in S : ~(<<j, i>> \in OpToRel(<, Nat))
  BY NatLessThanWellFounded, WFMin
<1>2. \A j \in S : ~(j < i)
  BY <1>1 DEF OpToRel
<1> QED BY <1>2

\* All of assign_overlay_window: the layers are taken one after the other, and what
\* holds before a layer holds after it.
LEMMA AssignedIsPass ==
  ASSUME HwcTypeOK, ModesAgree, StreamKnown, NEW l \in Seq(Layers), NEW change \in Switched(l),
         NEW geometry \in BOOLEAN
  PROVE  PassOK(Assigned(l, change, geometry), Len(l), l, change)
<1> DEFINE n == Len(l)
           windows == [i \in Wins |-> [change.win[i] EXCEPT !.reserved = FALSE]]
           start == [n |-> 0, fb |-> 0, overlays |-> {}, needTry |-> ctx.needTry, win |-> windows]
           Good(g, m) ==
             g = [i \in 0 .. m |-> IF i = 0 THEN start
                                   ELSE Assign(g[i - 1], l, i, change.gsc, geometry)]
<1>1. n \in Nat
  OBVIOUS
<1>2. change.win \in [Wins -> WindowRecords] /\ change.gsc.mode = WantedMode(l)
  BY SwitchedIs
<1>3. PassOK(start, 0, l, change)
  <2>1. ASSUME NEW i \in Wins
        PROVE  /\ windows[i] \in WindowRecords
               /\ windows[i].mode = change.win[i].mode
               /\ windows[i].started = change.win[i].started
               /\ windows[i].place = change.win[i].place
               /\ windows[i].crop = change.win[i].crop
    <3>1. change.win[i] \in WindowRecords
      BY <1>2
    <3> DEFINE no == FALSE
    <3>2. windows[i] = [change.win[i] EXCEPT !.reserved = no] /\ no \in BOOLEAN
      OBVIOUS
    <3> HIDE DEF no, windows
    <3> QED BY <3>1, <3>2 DEF WindowRecords
  <2>2. windows \in [Wins -> WindowRecords]
    BY <2>1
  <2>3. ctx.needTry \in BOOLEAN
    BY DEF HwcTypeOK, Contexts
  <2> HIDE DEF windows
  <2>4. start \in Passes
    BY <2>2, <2>3 DEF Passes
  <2> QED BY <2>1, <2>4 DEF PassOK, Wins
<1> HIDE DEF start
<1>4. \A m \in 0 .. n : \E g : Good(g, m)
  <2> DEFINE S == {m \in 0 .. n : ~\E g : Good(g, m)}
  <2>1. SUFFICES ASSUME S # {} PROVE FALSE
    OBVIOUS
  <2>2. S \in SUBSET Nat
    BY <1>1
  <2> HIDE DEF Good, S
  <2>3. PICK m \in S : \A j \in S : m <= j
    BY <2>1, <2>2, LeastExists
  <2>4. m \in 0 .. n /\ ~\E g : Good(g, m)
    BY DEF S
  <2>5. CASE m = 0
    <3>1. Good([i \in 0 .. 0 |-> start], 0)
      BY DEF Good
    <3> QED BY <2>4, <2>5, <3>1
  <2>6. CASE m # 0
    <3>1. m - 1 \in 0 .. n /\ m - 1 \notin S /\ m \in Nat
      BY <1>1, <2>3, <2>4, <2>6
    <3>2. PICK g : Good(g, m - 1)
      BY <3>1 DEF S
    <3> DEFINE f == [i \in 0 .. m |-> IF i = m THEN Assign(g[m - 1], l, m, change.gsc, geometry)
                                    ELSE g[i]]
    <3>3. ASSUME NEW i \in 0 .. m
          PROVE  f[i] = IF i = 0 THEN start ELSE Assign(f[i - 1], l, i, change.gsc, geometry)
      <4>1. CASE i = m
        <5>1. f[m - 1] = g[m - 1]
          BY <2>6, <3>1
        <5> QED BY <2>6, <4>1, <5>1
      <4>2. CASE i # m
        <5>1. i \in 0 .. m - 1
          BY <3>1, <4>2
        <5>2. f[i] = g[i]
          BY <4>2
        <5>3. g[i] = IF i = 0 THEN start ELSE Assign(g[i - 1], l, i, change.gsc, geometry)
          BY <3>2, <5>1 DEF Good
        <5>4. i # 0 => f[i - 1] = g[i - 1]
          BY <3>1, <5>1
        <5> QED BY <5>2, <5>3, <5>4
      <4> QED BY <4>1, <4>2
    <3>4. Good(f, m)
      <4>1. f = [i \in 0 .. m |-> f[i]]
        OBVIOUS
      <4> HIDE DEF f
      <4> QED BY <3>3, <4>1 DEF Good
    <3> QED BY <2>4, <3>4
  <2> QED BY <2>5, <2>6
<1> DEFINE G == CHOOSE g : Good(g, n)
<1>5. Good(G, n)
  <2>1. \E g : Good(g, n)
    BY <1>1, <1>4
  <2> HIDE DEF Good
  <2> QED BY <2>1
<1>6. Assigned(l, change, geometry) = G[n]
  BY DEF Assigned, start
<1> HIDE DEF G
<1>7. \A k \in 0 .. n : PassOK(G[k], k, l, change)
  <2> DEFINE S == {k \in 0 .. n : ~PassOK(G[k], k, l, change)}
  <2>1. SUFFICES ASSUME S # {} PROVE FALSE
    OBVIOUS
  <2>2. S \in SUBSET Nat
    BY <1>1
  <2> HIDE DEF S
  <2>3. PICK k \in S : \A j \in S : k <= j
    BY <2>1, <2>2, LeastExists
  <2>4. k \in 0 .. n /\ ~PassOK(G[k], k, l, change)
    BY DEF S
  <2>5. G[k] = IF k = 0 THEN start ELSE Assign(G[k - 1], l, k, change.gsc, geometry)
    BY <1>5, <2>4
  <2>6. k # 0
    BY <1>3, <2>4, <2>5
  <2>7. k - 1 \in 0 .. n /\ k \in 1 .. n
    BY <1>1, <2>4, <2>6
  <2>8. PassOK(G[k - 1], k - 1, l, change)
    BY <2>3, <2>4, <2>7 DEF S
  <2>9. PassOK(Assign(G[k - 1], l, k, change.gsc, geometry), k, l, change)
    BY <1>2, <2>7, <2>8, AssignKeepsPass
  <2> QED BY <2>4, <2>5, <2>6, <2>9
<1> QED BY <1>1, <1>6, <1>7

\* The kinds of the layers, and what backs a window, are a matter of the shapes.
SameShapes(l, m) == DOMAIN m = DOMAIN l /\ \A i \in DOMAIN l : m[i].shape = l[i].shape

\* What the overlay of a list rests on depends on the shapes alone.
LEMMA ShapesDecide ==
  ASSUME NEW l, NEW m, SameShapes(l, m)
  PROVE  /\ \A kind : Having(m, kind) = Having(l, kind)
         /\ \A w, i, g : Backs(w, i, l, g) => Backs(w, i, m, g)
<1>1. ASSUME NEW kind PROVE Having(m, kind) = Having(l, kind)
  BY DEF Having, SameShapes
<1>2. ASSUME NEW w, NEW i, NEW g, Backs(w, i, l, g)
      PROVE  Backs(w, i, m, g)
  <2>1. i \in DOMAIN l
    BY <1>2 DEF Backs
  <2>2. m[i].shape = l[i].shape /\ DOMAIN m = DOMAIN l
    BY <2>1 DEF SameShapes
  <2>3. Having(m, "yuv") = Having(l, "yuv")
    BY <1>1
  <2> QED BY <1>2, <2>2, <2>3 DEF Backs
<1> QED BY <1>1, <1>2

\* Beside a video a list has at most one UI layer less than layers.
LEMMA UiBesideVideo ==
  ASSUME NEW l \in Seq(Layers), NEW i \in DOMAIN l, l[i].shape.kind = "yuv"
  PROVE  Cardinality(Having(l, "rgb")) \in Nat /\ Cardinality(Having(l, "rgb")) <= Len(l) - 1
<1> DEFINE all == 1 .. Len(l)
<1>1. Len(l) \in Nat /\ DOMAIN l = all /\ i \in all
  OBVIOUS
<1>2. IsFiniteSet(all) /\ Cardinality(all) = Len(l)
  <2>1. Cardinality(all) = IF 1 > Len(l) THEN 0 ELSE Len(l) - 1 + 1
    BY <1>1, FS_Interval
  <2>2. IsFiniteSet(all)
    BY <1>1, FS_Interval
  <2> HIDE DEF all
  <2> QED BY <1>1, <2>1, <2>2
<1>3. IsFiniteSet(all \ {i}) /\ Cardinality(all \ {i}) = Len(l) - 1
  <2> HIDE DEF all
  <2> QED BY <1>1, <1>2, FS_RemoveElement
<1>4. Having(l, "rgb") \subseteq all \ {i}
  BY <1>1 DEF Having
<1> HIDE DEF all
<1>5. IsFiniteSet(Having(l, "rgb"))
      /\ Cardinality(Having(l, "rgb")) <= Cardinality(all \ {i})
  BY <1>3, <1>4, FS_Subset
<1> QED BY <1>3, <1>5, FS_CardinalityType

\* A prepare that looks at the whole list.
LEMMA DecideKeeps ==
  ASSUME HwcTypeOK, ModesAgree, StreamKnown, NEW l \in Seq(Layers), l # NoList,
         NEW geometry \in BOOLEAN, phase' = "set", UNCHANGED <<lit, uiDrawn>>,
         ClearVirtual, Decide(l, geometry)
  PROVE  HwcInv'
<1>1. PICK change \in Switched(l) :
        LET done == Assigned(l, change, geometry)
        IN /\ gsc' = change.gsc
           /\ win' = done.win
           /\ list' = [i \in DOMAIN l |->
                         [l[i] EXCEPT !.type = IF i \in done.overlays THEN "overlay" ELSE "fb"]]
           /\ ctx' = [ctx EXCEPT !.mode = WantedMode(l), !.numHwc = done.n, !.numFb = done.fb,
                                 !.numSkip = 0, !.inited = FALSE, !.count = 0,
                                 !.rectChanged = geometry, !.needTry = done.needTry]
  BY Zenon DEF Decide
<1> DEFINE done == Assigned(l, change, geometry)
           n == done.n
           fb == done.fb
           mode == WantedMode(l)
           zero == 0
           no == FALSE
           tries == done.needTry
<1>2. /\ change.gsc \in Scalers /\ change.win \in [Wins -> WindowRecords]
      /\ change.gsc.mode = mode
      /\ change.gsc.at = "live" => \A i \in Wins : change.win[i].mode = change.gsc.mode
      /\ change.gsc.at = "null" => change.gsc.on = "off" /\ change.gsc.cfg = Unset
      /\ StreamOK(change.gsc, change.win[0])
  BY SwitchedIs
<1>3. PassOK(done, Len(l), l, change)
  BY AssignedIsPass
<1>4. gsc' = change.gsc /\ win' = done.win
      /\ list' = [i \in DOMAIN l |->
                    [l[i] EXCEPT !.type = IF i \in done.overlays THEN "overlay" ELSE "fb"]]
  BY <1>1
<1>5. ctx' = [ctx EXCEPT !.mode = mode, !.numHwc = n, !.numFb = fb, !.numSkip = zero, !.inited = no,
                         !.count = zero, !.rectChanged = geometry, !.needTry = tries]
  BY <1>1
<1> HIDE DEF done, mode
<1>6. Len(l) \in Nat /\ DOMAIN l = 1 .. Len(l) /\ \A i \in DOMAIN l : l[i] \in Layers
  OBVIOUS
<1>7. n \in 0 .. 1 /\ fb = Len(l) - n /\ done.overlays \in SUBSET Nat /\ tries \in BOOLEAN
      /\ done.win \in [Wins -> WindowRecords]
  BY <1>3 DEF PassOK, Passes
<1>8. n = 1 => /\ done.win[0].layer \in DOMAIN l /\ done.overlays = {done.win[0].layer}
               /\ Backs(done.win[0], done.win[0].layer, l, change.gsc)
               /\ l[done.win[0].layer].shape.kind = "yuv"
  BY <1>3, <1>6 DEF PassOK, Backs
<1>9. fb \in Nat /\ n \in Nat
  BY <1>6, <1>7, <1>8
<1>10. zero \in Nat /\ no \in BOOLEAN /\ mode \in Modes
  BY <1>2 DEF Scalers
<1>11. /\ ctx' \in Contexts /\ ctx'.mode = mode /\ ctx'.numHwc = n /\ ctx'.numFb = fb
       /\ ctx'.numSkip = 0 /\ ~ctx'.inited
  <2>1. ctx \in Contexts
    BY DEF HwcTypeOK
  <2> HIDE DEF n, fb, zero, no, tries
  <2>2. /\ ctx' \in Contexts /\ ctx'.mode = mode /\ ctx'.numHwc = n /\ ctx'.numFb = fb
        /\ ctx'.numSkip = zero /\ ctx'.inited = no
    BY <1>5, <1>7, <1>9, <1>10, <2>1 DEF Contexts
  <2> QED BY <2>2 DEF zero, no
<1>12. list' \in Seq(Layers) /\ list' # NoList /\ SameShapes(l, list')
       /\ \A i \in done.overlays \cap DOMAIN l : list'[i].type = "overlay"
  <2>1. ASSUME NEW i \in DOMAIN l
        PROVE  list'[i] \in Layers /\ list'[i].shape = l[i].shape
               /\ (i \in done.overlays => list'[i].type = "overlay")
    <3> DEFINE type == IF i \in done.overlays THEN "overlay" ELSE "fb"
    <3>1. type \in {"overlay", "fb"} /\ (i \in done.overlays => type = "overlay")
      OBVIOUS
    <3>2. list'[i] = [l[i] EXCEPT !.type = type]
      BY <1>4
    <3> HIDE DEF type
    <3> QED BY <1>6, <3>1, <3>2 DEF Layers
  <2>2. list' = [i \in 1 .. Len(l) |-> list'[i]]
    BY <1>4, <1>6
  <2>3. list' \in [1 .. Len(l) -> Layers]
    BY <1>6, <2>1, <2>2
  <2>4. DOMAIN l # {}
    BY <1>6 DEF NoList
  <2>5. DOMAIN list' = DOMAIN l /\ list' \in Seq(Layers)
    BY <1>6, <2>3
  <2> QED BY <2>1, <2>4, <2>5 DEF SameShapes, NoList
<1>13. virt' \in [1 .. DummyWins -> [prev : Bufs, layer : Nat]]
  BY DEF ClearVirtual, HwcTypeOK, Bufs
<1>14. HwcTypeOK'
  BY <1>2, <1>4, <1>7, <1>11, <1>12, <1>13 DEF HwcTypeOK
<1>15. ModesAgree'
  BY <1>2, <1>3, <1>4, <1>11 DEF ModesAgree, PassOK
<1>16. Backed'
  BY <1>4, <1>7, <1>8, <1>11, <1>12, ShapesDecide DEF Backed
<1>17. StreamKnown'
  <2> DEFINE g == change.gsc
             w == done.win[0]
             v == change.win[0]
  <2>1. g.on = "on" => g.mode = "output" /\ g.cfg # Unset
    BY <1>2 DEF StreamOK
  <2>2. ASSUME g.mode = "output", g.on # "stuck", g.cfg # Unset
        PROVE  w.started /\ g.cfg = [place |-> w.place, crop |-> w.crop]
    <3>1. g.at = "live" /\ v.mode = "output"
      BY <1>2, <2>2 DEF Scalers, Wins
    <3>2. v.started /\ g.cfg = [place |-> v.place, crop |-> v.crop]
      BY <1>2, <2>2 DEF StreamOK
    <3>3. w.started = v.started
      BY <1>3 DEF PassOK, Wins
    <3>4. w.place = v.place /\ w.crop = v.crop
      BY <1>3, <1>7, <3>1, <3>2 DEF PassOK, Busy
    <3> QED BY <3>2, <3>3, <3>4
  <2> QED BY <1>4, <2>1, <2>2 DEF StreamKnown, StreamOK
<1>18. WrittenDown'
  <2>1. Having(list', "rgb") = Having(l, "rgb")
    BY <1>12, ShapesDecide
  <2>2. n = 1 => Cardinality(Having(l, "rgb")) \in Nat
                 /\ Cardinality(Having(l, "rgb")) <= Len(l) - 1
    BY <1>8, UiBesideVideo
  <2> QED BY <1>7, <1>9, <1>11, <2>1, <2>2 DEF WrittenDown, Virtuals
<1> QED BY <1>11, <1>14, <1>15, <1>16, <1>17, <1>18 DEF HwcInv, Ended, UiKnown
-----------------------------------------------------------------------------
(* hwc_prepare: the decision to skip the drawing of UI layers. *)

\* Setting the type of some layers leaves their shapes and buffers.
LEMMA TypedIs ==
  ASSUME NEW l \in Seq(Layers), l # NoList, NEW which, NEW type \in {"fb", "overlay"}
  PROVE  LET m == Typed(l, which, type)
         IN /\ m \in Seq(Layers) /\ m # NoList /\ SameShapes(l, m)
            /\ \A i \in DOMAIN l : /\ m[i].h = l[i].h
                                  /\ (i \in which => m[i].type = type)
                                  /\ (i \notin which => m[i].type = l[i].type)
<1> DEFINE m == Typed(l, which, type)
<1>0. Len(l) \in Nat /\ DOMAIN l = 1 .. Len(l) /\ \A i \in DOMAIN l : l[i] \in Layers
  OBVIOUS
<1>00. DOMAIN l # {}
  <2>1. Len(l) # 0
    BY DEF NoList
  <2>2. 1 \in DOMAIN l
    BY <1>0, <2>1
  <2> QED BY <2>2
<1>1. Len(l) \in Nat /\ DOMAIN l = 1 .. Len(l) /\ DOMAIN l # {} /\ \A i \in DOMAIN l : l[i] \in Layers
  BY <1>0, <1>00
<1>2. m = [i \in DOMAIN l |-> IF i \in which THEN [l[i] EXCEPT !.type = type] ELSE l[i]]
  BY DEF Typed
<1>3. ASSUME NEW i \in DOMAIN l
      PROVE  /\ m[i] \in Layers /\ m[i].shape = l[i].shape /\ m[i].h = l[i].h
             /\ (i \in which => m[i].type = type)
             /\ (i \notin which => m[i].type = l[i].type)
  <2>1. m[i] = IF i \in which THEN [l[i] EXCEPT !.type = type] ELSE l[i]
    BY <1>2
  <2>2. l[i] \in Layers
    BY <1>1
  <2> HIDE DEF m
  <2> QED BY <2>1, <2>2 DEF Layers
<1>4. m \in [1 .. Len(l) -> Layers]
  BY <1>1, <1>2, <1>3
<1>5. m \in Seq(Layers) /\ DOMAIN m = DOMAIN l
  BY <1>1, <1>4
<1> HIDE DEF m
<1>6. m # NoList
  BY <1>1, <1>5 DEF NoList
<1> QED BY <1>3, <1>5, <1>6 DEF SameShapes, m

\* Whatever becomes of the UI layers, the video keeps its window.
LEMMA VideoStays ==
  ASSUME HwcInv, phase = "prepare", list # NoList, ctx.numHwc = 1,
         phase' = "set", UNCHANGED <<win, gsc, lit, uiDrawn>>,
         ctx' \in Contexts, ctx'.mode = ctx.mode, ctx'.numHwc = 1,
         virt' \in [1 .. DummyWins -> [prev : Bufs, layer : Nat]],
         list' \in Seq(Layers), list' # NoList, SameShapes(list, list'),
         \A i \in Having(list, "yuv") : list'[i].type = list[i].type
  PROVE  HwcTypeOK' /\ ModesAgree' /\ Backed' /\ StreamKnown' /\ Ended'
<1>1. HwcTypeOK'
  BY DEF HwcInv, HwcTypeOK
<1>2. ModesAgree' /\ StreamKnown' /\ Ended'
  BY DEF HwcInv, ModesAgree, StreamKnown, StreamOK, Ended
<1>3. Backs(win[0], win[0].layer, list, gsc) /\ list[win[0].layer].type = "overlay"
  BY DEF HwcInv, Backed
<1>4. win[0].layer \in Having(list, "yuv")
  BY <1>3 DEF Backs, Having
<1>5. Backs(win[0], win[0].layer, list', gsc)
  BY <1>3, ShapesDecide
<1>6. Backed'
  BY <1>3, <1>4, <1>5 DEF Backed
<1> QED BY <1>1, <1>2, <1>6

\* The first and the second of at most two.
LEMMA NthOfFew ==
  ASSUME NEW S \in SUBSET Nat, IsFiniteSet(S), Cardinality(S) \in 0 .. 2
  PROVE  S = {Nth(S, v) : v \in 1 .. Cardinality(S)}
<1>1. CASE Cardinality(S) = 0
  <2>1. S = {} /\ 1 .. Cardinality(S) = {}
    BY <1>1, FS_EmptySet
  <2> QED BY <2>1
<1>2. CASE Cardinality(S) = 1
  <2>1. PICK a : S = {a}
    BY <1>2, FS_Singleton
  <2>2. {j \in S : j <= a} = {a}
    BY <2>1
  <2>3. Cardinality({j \in S : j <= a}) = 1
    BY <2>2, FS_Singleton
  <2>4. Nth(S, 1) = a
    BY <2>1, <2>3 DEF Nth
  <2>5. 1 .. Cardinality(S) = {1}
    BY <1>2
  <2> QED BY <2>1, <2>4, <2>5
<1>3. CASE Cardinality(S) = 2
  <2>1. PICK a \in S : \A j \in S : a <= j
    <3>1. S # {}
      BY <1>3, FS_EmptySet
    <3> QED BY <3>1, LeastExists
  <2>2. Cardinality(S \ {a}) = 1 /\ IsFiniteSet(S \ {a})
    BY <1>3, FS_RemoveElement
  <2>3. PICK b : S \ {a} = {b}
    BY <2>2, FS_Singleton
  <2>4. S = {a, b} /\ a # b /\ a \in Nat /\ b \in Nat /\ a < b
    <3>1. b \in S /\ b # a
      BY <2>3
    <3>2. S = {a, b}
      BY <2>1, <2>3
    <3>3. a \in Nat /\ b \in Nat /\ a <= b
      BY <2>1, <3>1
    <3> QED BY <3>1, <3>2, <3>3
  <2>5. {j \in S : j <= a} = {a} /\ {j \in S : j <= b} = S
    BY <2>4
  <2>6. Cardinality({j \in S : j <= a}) = 1 /\ Cardinality({j \in S : j <= b}) = 2
    <3>1. Cardinality({a}) = 1
      BY FS_Singleton
    <3> QED BY <1>3, <2>5, <3>1
  <2>7. Nth(S, 1) = a
    BY <2>4, <2>6 DEF Nth
  <2>8. Nth(S, 2) = b
    BY <2>4, <2>6 DEF Nth
  <2>9. 1 .. Cardinality(S) = {1, 2}
    BY <1>3
  <2> QED BY <2>4, <2>7, <2>8, <2>9
<1> QED BY <1>1, <1>2, <1>3

\* The layers written down are numbered from one.
LEMMA VirtualIs ==
  ASSUME HwcTypeOK
  PROVE  /\ Virtual = 1 .. Virtuals /\ Virtuals \in Nat /\ Virtuals = ctx.numFb + ctx.numSkip
         /\ Cardinality(Virtual) = Virtuals
<1>1. ctx.numFb \in Nat /\ ctx.numSkip \in Nat
  BY DEF HwcTypeOK, Contexts
<1>2. Virtual = 1 .. Virtuals /\ Virtuals \in Nat /\ Virtuals = ctx.numFb + ctx.numSkip
  BY <1>1 DEF Virtual, Virtuals
<1>3. Cardinality(1 .. Virtuals) = IF 1 > Virtuals THEN 0 ELSE Virtuals - 1 + 1
  <2>1. 1 \in Int /\ Virtuals \in Int
    BY <1>2
  <2> QED BY <2>1, FS_Interval
<1>4. Cardinality(1 .. Virtuals) = Virtuals
  BY <1>2, <1>3
<1> QED BY <1>2, <1>4

\* The list of a call whose geometry has not changed.
LEMMA RefilledIs ==
  ASSUME NEW l, list \in Seq(Layers), Refills(l), NEW which, NEW type \in {"fb", "overlay"},
         which \cap Having(list, "yuv") = {}
  PROVE  LET m == Typed(l, which, type)
         IN /\ m \in Seq(Layers) /\ m # NoList /\ SameShapes(list, m)
            /\ \A i \in DOMAIN list : m[i].h = l[i].h /\ (i \in which => m[i].type = type)
            /\ \A i \in Having(list, "yuv") : m[i].type = list[i].type
<1> DEFINE m == Typed(l, which, type)
<1>1. l \in Seq(Layers) /\ l # NoList /\ DOMAIN l = DOMAIN list
      /\ \A i \in DOMAIN list : l[i].shape = list[i].shape /\ l[i].type = list[i].type
  BY DEF Refills
<1>2. /\ m \in Seq(Layers) /\ m # NoList /\ SameShapes(l, m)
      /\ \A i \in DOMAIN l : /\ m[i].h = l[i].h
                            /\ (i \in which => m[i].type = type)
                            /\ (i \notin which => m[i].type = l[i].type)
  BY <1>1, TypedIs
<1> HIDE DEF m
<1>3. SameShapes(list, m)
  BY <1>1, <1>2 DEF SameShapes
<1>4. \A i \in Having(list, "yuv") : i \in DOMAIN list /\ i \notin which
  BY DEF Having
<1> QED BY <1>1, <1>2, <1>3, <1>4 DEF m

\* A frame whose UI layers are skipped: their buffers are those last drawn.
LEMMA SkipKeeps ==
  ASSUME HwcInv, phase = "prepare", list # NoList, ctx.numHwc = 1, NEW l, Refills(l),
         phase' = "set", UNCHANGED <<win, gsc, lit, uiDrawn>>,
         ctx.inited, Same(l) = Virtual, Skip(l)
  PROVE  HwcInv'
<1>1. HwcTypeOK /\ WrittenDown /\ UiKnown
  BY DEF HwcInv
<1>2. Virtual = 1 .. Virtuals /\ Virtuals \in 1 .. DummyWins /\ Cardinality(Virtual) = Virtuals
      /\ Having(list, "rgb") = {virt[v].layer : v \in 1 .. Virtuals}
  BY <1>1, VirtualIs DEF WrittenDown
<1>3. Shown(l) = Having(list, "rgb") /\ Shown(l) \cap Having(list, "yuv") = {}
  BY <1>2 DEF Shown, Having
<1>4. list' = Typed(l, Shown(l), "overlay") /\ virt' = virt
  BY DEF Skip
<1>5. list \in Seq(Layers) /\ ctx \in Contexts
      /\ virt \in [1 .. DummyWins -> [prev : Bufs, layer : Nat]]
  BY <1>1 DEF HwcTypeOK
<1>6. /\ list' \in Seq(Layers) /\ list' # NoList /\ SameShapes(list, list')
      /\ \A i \in DOMAIN list : list'[i].h = l[i].h
      /\ \A i \in Having(list, "yuv") : list'[i].type = list[i].type
  BY <1>3, <1>4, <1>5, RefilledIs
<1> DEFINE zero == 0
           some == Cardinality(Virtual)
           count == ctx.count + 1
<1>7. ctx' = [ctx EXCEPT !.numFb = zero, !.numSkip = some, !.count = count]
  BY DEF Skip
<1>8. some \in Nat /\ zero \in Nat /\ count \in Nat
  BY <1>2, <1>5 DEF Contexts, DummyWins
<1>9. /\ ctx' \in Contexts /\ ctx'.mode = ctx.mode /\ ctx'.numHwc = 1
      /\ ctx'.numFb = 0 /\ ctx'.numSkip = Virtuals /\ ctx'.inited = ctx.inited
  <2> HIDE DEF zero, some, count
  <2>1. /\ ctx' \in Contexts /\ ctx'.mode = ctx.mode /\ ctx'.numHwc = ctx.numHwc
        /\ ctx'.numFb = zero /\ ctx'.numSkip = some /\ ctx'.inited = ctx.inited
    BY <1>5, <1>7, <1>8 DEF Contexts
  <2> QED BY <1>2, <2>1 DEF zero, some
<1>10. HwcTypeOK' /\ ModesAgree' /\ Backed' /\ StreamKnown' /\ Ended'
  BY <1>4, <1>5, <1>6, <1>9, VideoStays
<1>11. Virtuals' = Virtuals
  BY <1>2, <1>9 DEF Virtuals, DummyWins
<1>12. Having(list', "rgb") = Having(list, "rgb")
  BY <1>6, ShapesDecide
<1>13. WrittenDown'
  <2>1. list # NoList /\ ctx.numHwc = 1 => Cardinality(Having(list, "rgb")) <= Virtuals
    BY <1>1 DEF WrittenDown
  <2> QED BY <1>2, <1>4, <1>6, <1>9, <1>11, <1>12, <2>1 DEF WrittenDown
<1>14. UiKnown'
  <2>1. SUFFICES ASSUME NEW v \in 1 .. Virtuals
                 PROVE  /\ list'[virt[v].layer].h = virt[v].prev
                        /\ uiDrawn # Failed => /\ virt[v].layer \in DOMAIN uiDrawn
                                               /\ uiDrawn[virt[v].layer] = virt[v].prev
    <3>1. ctx'.numSkip > 0
      BY <1>2, <1>9 DEF DummyWins
    <3> QED BY <1>4, <1>9, <1>11, <3>1 DEF UiKnown
  <2>2. virt[v].layer \in DOMAIN list
    BY <1>2 DEF Having
  <2>3. l[virt[v].layer].h = virt[v].prev
    BY <1>2 DEF Same
  <2>4. uiDrawn # Failed => /\ virt[v].layer \in DOMAIN uiDrawn
                            /\ uiDrawn[virt[v].layer] = virt[v].prev
    BY <1>1 DEF UiKnown
  <2> QED BY <1>6, <2>2, <2>3, <2>4
<1> QED BY <1>10, <1>13, <1>14 DEF HwcInv

\* A frame whose UI is drawn again, with its buffers written down.
LEMMA RedrawKeeps ==
  ASSUME HwcInv, phase = "prepare", list # NoList, ctx.numHwc = 1, NEW l, Refills(l),
         phase' = "set", UNCHANGED <<win, gsc, lit, uiDrawn>>, ctx.inited, Redraw(l)
  PROVE  HwcInv'
<1>1. HwcTypeOK /\ WrittenDown
  BY DEF HwcInv
<1>2. Virtual = 1 .. Virtuals /\ Virtuals \in 1 .. DummyWins /\ Cardinality(Virtual) = Virtuals
      /\ Having(list, "rgb") = {virt[v].layer : v \in 1 .. Virtuals}
  BY <1>1, VirtualIs DEF WrittenDown
<1>3. Shown(l) = Having(list, "rgb") /\ Shown(l) \cap Having(list, "yuv") = {}
  BY <1>2 DEF Shown, Having
<1>4. list' = Typed(l, Shown(l), "fb")
      /\ virt' = [v \in DOMAIN virt |->
                   IF v \in Virtual THEN [virt[v] EXCEPT !.prev = l[virt[v].layer].h] ELSE virt[v]]
  BY DEF Redraw
<1>5. list \in Seq(Layers) /\ ctx \in Contexts
      /\ virt \in [1 .. DummyWins -> [prev : Bufs, layer : Nat]]
  BY <1>1 DEF HwcTypeOK
<1>6. /\ list' \in Seq(Layers) /\ list' # NoList /\ SameShapes(list, list')
      /\ \A i \in DOMAIN list : list'[i].h = l[i].h /\ (i \in Shown(l) => list'[i].type = "fb")
      /\ \A i \in Having(list, "yuv") : list'[i].type = list[i].type
  BY <1>3, <1>4, <1>5, RefilledIs
<1> DEFINE zero == 0
           some == Cardinality(Virtual)
<1>7. ctx' = [ctx EXCEPT !.numFb = some, !.numSkip = zero, !.count = zero]
  BY DEF Redraw
<1>8. some \in Nat /\ zero \in Nat
  BY <1>2 DEF DummyWins
<1>9. /\ ctx' \in Contexts /\ ctx'.mode = ctx.mode /\ ctx'.numHwc = 1
      /\ ctx'.numFb = Virtuals /\ ctx'.numSkip = 0 /\ ctx'.inited = ctx.inited
  <2> HIDE DEF zero, some
  <2>1. /\ ctx' \in Contexts /\ ctx'.mode = ctx.mode /\ ctx'.numHwc = ctx.numHwc
        /\ ctx'.numFb = some /\ ctx'.numSkip = zero /\ ctx'.inited = ctx.inited
    BY <1>5, <1>7, <1>8 DEF Contexts
  <2> QED BY <1>2, <2>1 DEF zero, some
<1>10. ASSUME NEW v \in 1 .. DummyWins
       PROVE  /\ virt'[v] \in [prev : Bufs, layer : Nat] /\ virt'[v].layer = virt[v].layer
              /\ v \in 1 .. Virtuals => virt'[v].prev = l[virt[v].layer].h
  <2>1. virt[v] \in [prev : Bufs, layer : Nat]
    BY <1>5
  <2> DEFINE h == l[virt[v].layer].h
  <2>2. CASE v \in 1 .. Virtuals
    <3>1. virt[v].layer \in DOMAIN list
      BY <1>2, <2>2 DEF Having
    <3>2. l[virt[v].layer] \in Layers
      BY <3>1 DEF Refills
    <3>3. h \in Bufs
      BY <3>2 DEF Layers
    <3>4. virt'[v] = [virt[v] EXCEPT !.prev = h]
      BY <1>2, <1>4, <1>5, <2>2
    <3> HIDE DEF h
    <3>5. virt'[v] \in [prev : Bufs, layer : Nat] /\ virt'[v].layer = virt[v].layer
          /\ virt'[v].prev = h
      BY <2>1, <3>3, <3>4
    <3> QED BY <3>5 DEF h
  <2>3. CASE v \notin 1 .. Virtuals
    BY <1>2, <1>4, <1>5, <2>1, <2>3
  <2> QED BY <2>2, <2>3
<1>11. virt' \in [1 .. DummyWins -> [prev : Bufs, layer : Nat]]
  <2>1. virt' = [v \in 1 .. DummyWins |-> virt'[v]]
    BY <1>4, <1>5
  <2> QED BY <1>10, <2>1
<1>12. HwcTypeOK' /\ ModesAgree' /\ Backed' /\ StreamKnown' /\ Ended'
  BY <1>5, <1>6, <1>9, <1>11, VideoStays
<1>13. Virtuals' = Virtuals /\ 1 .. Virtuals \subseteq 1 .. DummyWins
  BY <1>2, <1>9 DEF Virtuals, DummyWins
<1>14. Having(list', "rgb") = Having(list, "rgb")
       /\ {virt'[v].layer : v \in 1 .. Virtuals} = {virt[v].layer : v \in 1 .. Virtuals}
  <2>1. Having(list', "rgb") = Having(list, "rgb")
    BY <1>6, ShapesDecide
  <2>2. \A v \in 1 .. Virtuals : virt'[v].layer = virt[v].layer
    BY <1>10, <1>13
  <2> QED BY <2>1, <2>2
<1>15. WrittenDown'
  <2>1. list # NoList /\ ctx.numHwc = 1 => Cardinality(Having(list, "rgb")) <= Virtuals
    BY <1>1 DEF WrittenDown
  <2> QED BY <1>2, <1>6, <1>9, <1>13, <1>14, <2>1 DEF WrittenDown
<1>16. UiKnown'
  <2>1. SUFFICES ASSUME NEW v \in 1 .. Virtuals
                 PROVE  /\ list'[virt'[v].layer].h = virt'[v].prev
                        /\ list'[virt'[v].layer].type = "fb"
    BY <1>9, <1>13 DEF UiKnown
  <2>2. virt'[v].layer = virt[v].layer /\ virt'[v].prev = l[virt[v].layer].h
    BY <1>10, <1>13
  <2>3. virt[v].layer \in DOMAIN list /\ virt[v].layer \in Shown(l)
    BY <1>2, <1>3 DEF Having
  <2> QED BY <1>6, <2>2, <2>3
<1> QED BY <1>12, <1>15, <1>16 DEF HwcInv

\* The frame at which the UI layers are written down.
LEMMA CollectKeeps ==
  ASSUME HwcInv, phase = "prepare", list # NoList, ctx.numHwc = 1, NEW l, Refills(l),
         phase' = "set", UNCHANGED <<win, gsc, lit, uiDrawn>>,
         ~ctx.inited, Cardinality(Virtual) \in 1 .. DummyWins, Collect(l)
  PROVE  HwcInv'
<1> DEFINE rgb == Having(l, "rgb")
           many == Least(Cardinality(rgb), DummyWins)
           seen == [v \in 1 .. many |-> Nth(rgb, v)]
           past == IF Cardinality(rgb) < DummyWins THEN Len(l) ELSE seen[DummyWins]
           which == Range(seen) \cup {i \in Having(l, "none") : i <= past}
           zero == 0
           all == many = Cardinality(Virtual)
<1>1. HwcTypeOK /\ WrittenDown
  BY DEF HwcInv
<1>2. Virtuals \in 1 .. DummyWins /\ Cardinality(Virtual) = Virtuals
      /\ Virtuals = ctx.numFb + ctx.numSkip /\ Cardinality(Having(list, "rgb")) <= Virtuals
  BY <1>1, VirtualIs DEF WrittenDown
<1>3. list \in Seq(Layers) /\ ctx \in Contexts
      /\ virt \in [1 .. DummyWins -> [prev : Bufs, layer : Nat]]
  BY <1>1 DEF HwcTypeOK
<1>4. SameShapes(list, l) /\ l \in Seq(Layers) /\ l # NoList
  BY DEF Refills, SameShapes
<1>5. rgb = Having(list, "rgb")
  BY <1>4, ShapesDecide
<1>6. Len(list) \in Nat /\ DOMAIN list = 1 .. Len(list)
  BY <1>3
<1>7. rgb \in SUBSET Nat /\ rgb \subseteq DOMAIN list /\ IsFiniteSet(rgb) /\ Cardinality(rgb) \in 0 .. 2
  <2>1. IsFiniteSet(1 .. Len(list))
    BY <1>6, FS_Interval
  <2>2. rgb \subseteq 1 .. Len(list)
    BY <1>5, <1>6 DEF Having
  <2>3. IsFiniteSet(rgb)
    BY <2>1, <2>2, FS_Subset
  <2>4. Cardinality(rgb) \in Nat
    BY <2>3, FS_CardinalityType
  <2> QED BY <1>2, <1>5, <1>6, <2>2, <2>3, <2>4 DEF DummyWins
<1>8. rgb = {Nth(rgb, v) : v \in 1 .. Cardinality(rgb)}
  BY <1>7, NthOfFew
<1>9. many = Cardinality(rgb) /\ many \in 0 .. 2
  BY <1>7 DEF Least, DummyWins
<1>10. /\ virt' = [v \in DOMAIN virt |->
                    IF v \in DOMAIN seen THEN [prev |-> l[seen[v]].h, layer |-> seen[v]]
                                         ELSE virt[v]]
       /\ ctx' = [ctx EXCEPT !.numSkip = zero, !.inited = all]
       /\ list' = Typed(l, which, "fb")
  BY DEF Collect
<1> HIDE DEF many
<1>11. Range(seen) = rgb /\ DOMAIN seen = 1 .. many
       /\ \A v \in 1 .. many : seen[v] = Nth(rgb, v) /\ seen[v] \in rgb
  <2>1. DOMAIN seen = 1 .. many /\ \A v \in 1 .. many : seen[v] = Nth(rgb, v)
    OBVIOUS
  <2> HIDE DEF seen
  <2>2. \A v \in 1 .. many : Nth(rgb, v) \in rgb
    BY <1>8, <1>9
  <2>3. Range(seen) = {Nth(rgb, v) : v \in 1 .. many}
    BY <2>1 DEF Range
  <2> QED BY <1>8, <1>9, <2>1, <2>2, <2>3
<1> HIDE DEF seen, past
<1>12. which \cap Having(list, "yuv") = {} /\ rgb \subseteq which
  <2>1. Having(l, "none") = Having(list, "none")
    BY <1>4, ShapesDecide
  <2> QED BY <1>5, <1>11, <2>1 DEF Having
<1> HIDE DEF which
<1>13. /\ list' \in Seq(Layers) /\ list' # NoList /\ SameShapes(list, list')
       /\ \A i \in DOMAIN list : list'[i].h = l[i].h /\ (i \in which => list'[i].type = "fb")
       /\ \A i \in Having(list, "yuv") : list'[i].type = list[i].type
  BY <1>3, <1>10, <1>12, RefilledIs
<1>14. all \in BOOLEAN /\ zero \in Nat
  OBVIOUS
<1>15. /\ ctx' \in Contexts /\ ctx'.mode = ctx.mode /\ ctx'.numHwc = 1
       /\ ctx'.numFb = ctx.numFb /\ ctx'.numSkip = 0 /\ ctx'.inited = all
  <2> HIDE DEF zero, all
  <2>1. /\ ctx' \in Contexts /\ ctx'.mode = ctx.mode /\ ctx'.numHwc = ctx.numHwc
        /\ ctx'.numFb = ctx.numFb /\ ctx'.numSkip = zero /\ ctx'.inited = all
    BY <1>3, <1>10, <1>14 DEF Contexts
  <2> QED BY <2>1 DEF zero
<1>16. Virtuals' = Virtuals
  <2>1. ctx.numSkip = 0
    BY <1>1 DEF WrittenDown
  <2> QED BY <1>2, <1>15, <2>1 DEF Virtuals
<1>17. ASSUME NEW v \in 1 .. DummyWins
       PROVE  /\ virt'[v] \in [prev : Bufs, layer : Nat]
              /\ v \in 1 .. many => /\ virt'[v].layer = Nth(rgb, v)
                                    /\ virt'[v].prev = l[Nth(rgb, v)].h
  <2>1. CASE v \in 1 .. many
    <3>1. Nth(rgb, v) \in rgb /\ seen[v] = Nth(rgb, v)
      BY <1>11, <2>1
    <3>2. l[Nth(rgb, v)] \in Layers /\ Nth(rgb, v) \in Nat
      BY <1>5, <1>7, <3>1 DEF Refills
    <3>3. l[Nth(rgb, v)].h \in Bufs
      BY <3>2 DEF Layers
    <3>4. virt'[v] = [prev |-> l[Nth(rgb, v)].h, layer |-> Nth(rgb, v)]
      BY <1>3, <1>10, <1>11, <2>1, <3>1
    <3> QED BY <3>2, <3>3, <3>4
  <2>2. CASE v \notin 1 .. many
    BY <1>3, <1>10, <1>11, <2>2
  <2> QED BY <2>1, <2>2
<1>18. virt' \in [1 .. DummyWins -> [prev : Bufs, layer : Nat]]
  <2>1. virt' = [v \in 1 .. DummyWins |-> virt'[v]]
    BY <1>3, <1>10
  <2> QED BY <1>17, <2>1
<1>19. HwcTypeOK' /\ ModesAgree' /\ Backed' /\ StreamKnown' /\ Ended'
  BY <1>3, <1>13, <1>15, <1>18, VideoStays
<1>20. Having(list', "rgb") = rgb
  BY <1>5, <1>13, ShapesDecide
<1>21. all => many = Virtuals /\ rgb = {virt'[v].layer : v \in 1 .. Virtuals}
  <2>1. SUFFICES ASSUME all PROVE many = Virtuals /\ rgb = {virt'[v].layer : v \in 1 .. Virtuals}
    OBVIOUS
  <2>2. many = Virtuals
    BY <1>2, <2>1
  <2>3. \A v \in 1 .. Virtuals : virt'[v].layer = Nth(rgb, v)
    BY <1>2, <1>17, <2>2 DEF DummyWins
  <2>4. {virt'[v].layer : v \in 1 .. Virtuals} = {Nth(rgb, v) : v \in 1 .. Virtuals}
    BY <2>3
  <2> QED BY <1>8, <1>9, <2>2, <2>4
<1>22. WrittenDown'
  BY <1>2, <1>5, <1>13, <1>15, <1>16, <1>20, <1>21 DEF WrittenDown
<1>23. UiKnown'
  <2>1. SUFFICES ASSUME all, NEW v \in 1 .. Virtuals
                 PROVE  /\ list'[virt'[v].layer].h = virt'[v].prev
                        /\ list'[virt'[v].layer].type = "fb"
    BY <1>15, <1>16 DEF UiKnown
  <2>2. v \in 1 .. many /\ v \in 1 .. DummyWins
    BY <1>2, <1>21, <2>1 DEF DummyWins
  <2>3. virt'[v].layer = Nth(rgb, v) /\ virt'[v].prev = l[Nth(rgb, v)].h
    BY <1>17, <2>2
  <2>4. Nth(rgb, v) \in DOMAIN list /\ Nth(rgb, v) \in which
    BY <1>7, <1>11, <1>12, <2>2
  <2> QED BY <1>13, <2>3, <2>4
<1> QED BY <1>19, <1>22, <1>23 DEF HwcInv

\* get_hwc_ui_lay_skipdraw_decision as a whole.
LEMMA SkipDecisionKeeps ==
  ASSUME HwcInv, phase = "prepare", list # NoList, ctx.numHwc = 1, NEW l, Refills(l),
         phase' = "set", UNCHANGED <<win, gsc, lit, uiDrawn>>, SkipDecision(l)
  PROVE  HwcInv'
<1>1. HwcTypeOK /\ WrittenDown
  BY DEF HwcInv
<1>2. Cardinality(Virtual) = Virtuals /\ Virtuals \in Nat /\ Virtual = 1 .. Virtuals
  BY <1>1, VirtualIs
<1>3. list \in Seq(Layers) /\ ctx \in Contexts
      /\ virt \in [1 .. DummyWins -> [prev : Bufs, layer : Nat]]
  BY <1>1 DEF HwcTypeOK
<1>4. l \in Seq(Layers) /\ l # NoList /\ SameShapes(list, l)
      /\ \A i \in Having(list, "yuv") : l[i].type = list[i].type
  BY DEF Refills, SameShapes, Having
\* Nothing is written down, and nothing was.
<1>5. ASSUME list' = l, virt' = virt, ctx' \in Contexts, ~ctx.inited,
             \A field \in {"mode", "numHwc", "numFb", "numSkip", "inited"} : ctx'[field] = ctx[field]
      PROVE  HwcInv'
  <2>1. ctx'.mode = ctx.mode /\ ctx'.numHwc = 1 /\ ctx'.numFb = ctx.numFb
        /\ ctx'.numSkip = ctx.numSkip /\ ctx'.inited = ctx.inited
    BY <1>5
  <2>2. HwcTypeOK' /\ ModesAgree' /\ Backed' /\ StreamKnown' /\ Ended'
    BY <1>3, <1>4, <1>5, <2>1, VideoStays
  <2>3. Having(l, "rgb") = Having(list, "rgb") /\ Virtuals' = Virtuals
    BY <1>4, <2>1, ShapesDecide DEF Virtuals
  <2>4. WrittenDown'
    BY <1>1, <1>4, <1>5, <2>1, <2>3 DEF WrittenDown
  <2> QED BY <1>5, <2>1, <2>2, <2>4 DEF HwcInv, UiKnown
<1>6. CASE Cardinality(Virtual) > DummyWins /\ list' = l /\ UNCHANGED <<ctx, virt>>
  <2>1. ~ctx.inited
    BY <1>1, <1>2, <1>6 DEF WrittenDown, DummyWins
  <2> QED BY <1>3, <1>5, <1>6, <2>1
<1>7. CASE /\ Virtual = {}
           /\ ctx' = [ctx EXCEPT !.count = IF @ + 1 >= Thres THEN 0 ELSE @ + 1]
           /\ list' = l /\ UNCHANGED virt
  <2>1. ~ctx.inited
    BY <1>1, <1>2, <1>7 DEF WrittenDown, DummyWins
  <2> DEFINE count == IF ctx.count + 1 >= Thres THEN 0 ELSE ctx.count + 1
  <2>2. count \in Nat /\ ctx' = [ctx EXCEPT !.count = count]
    BY <1>3, <1>7 DEF Contexts
  <2> HIDE DEF count
  <2>3. /\ ctx' \in Contexts /\ ctx'.mode = ctx.mode /\ ctx'.numHwc = ctx.numHwc
        /\ ctx'.numFb = ctx.numFb /\ ctx'.numSkip = ctx.numSkip /\ ctx'.inited = ctx.inited
    BY <1>3, <2>2 DEF Contexts
  <2> QED BY <1>5, <1>7, <2>1, <2>3
<1>8. CASE /\ Cardinality(Virtual) \in 1 .. DummyWins
           /\ IF ~ctx.inited THEN Collect(l) ELSE IF Unchanged(l) THEN Skip(l) ELSE Redraw(l)
  <2>1. CASE ~ctx.inited
    BY <1>8, <2>1, CollectKeeps
  <2>2. CASE ctx.inited /\ Unchanged(l)
    BY <1>8, <2>2, SkipKeeps DEF Unchanged
  <2>3. CASE ctx.inited /\ ~Unchanged(l)
    BY <1>8, <2>3, RedrawKeeps
  <2> QED BY <2>1, <2>2, <2>3
<1> QED BY <1>6, <1>7, <1>8 DEF SkipDecision

\* Without a decision and without overlays nothing is known, and nothing need be.
LEMMA IdleKeeps ==
  ASSUME HwcInv, phase' = "set", UNCHANGED <<win, gsc, lit, uiDrawn>>, ClearVirtual,
         ctx' = [ctx EXCEPT !.inited = FALSE, !.numSkip = 0, !.count = 0],
         list' \in Seq(Layers), list' = NoList \/ ctx.numHwc = 0
  PROVE  HwcInv'
<1>1. HwcTypeOK /\ ModesAgree /\ Backed /\ StreamKnown /\ ctx \in Contexts
  BY DEF HwcInv, HwcTypeOK
<1> DEFINE zero == 0
           no == FALSE
<1>2. ctx' = [ctx EXCEPT !.inited = no, !.numSkip = zero, !.count = zero]
      /\ zero \in Nat /\ no \in BOOLEAN
  OBVIOUS
<1>3. /\ ctx' \in Contexts /\ ctx'.mode = ctx.mode /\ ctx'.numHwc = ctx.numHwc
      /\ ctx'.numFb = ctx.numFb /\ ctx'.numSkip = 0 /\ ~ctx'.inited
  <2> HIDE DEF zero, no
  <2>1. /\ ctx' \in Contexts /\ ctx'.mode = ctx.mode /\ ctx'.numHwc = ctx.numHwc
        /\ ctx'.numFb = ctx.numFb /\ ctx'.numSkip = zero /\ ctx'.inited = no
    BY <1>1, <1>2 DEF Contexts
  <2> QED BY <2>1 DEF zero, no
<1>4. virt' \in [1 .. DummyWins -> [prev : Bufs, layer : Nat]]
  BY DEF ClearVirtual, HwcTypeOK, Bufs, HwcInv
<1>5. HwcTypeOK'
  BY <1>1, <1>3, <1>4 DEF HwcTypeOK
<1>6. ModesAgree' /\ StreamKnown'
  BY <1>1, <1>3 DEF ModesAgree, StreamKnown, StreamOK
<1>7. Backed'
  BY <1>1, <1>3 DEF Backed
<1>8. WrittenDown'
  BY <1>1, <1>3 DEF WrittenDown
<1> QED BY <1>3, <1>5, <1>6, <1>7, <1>8 DEF HwcInv, Ended, UiKnown

\* One lemma per action, beginning with prepare.
LEMMA PrepareKeeps ==
  ASSUME HwcInv, Prepare
  PROVE  HwcInv'
<1>1. phase = "prepare" /\ phase' = "set" /\ UNCHANGED <<lit, uiDrawn>>
  BY DEF Prepare
<1>2. HwcTypeOK /\ ModesAgree /\ StreamKnown /\ ctx.numHwc \in 0 .. 1
  BY DEF HwcInv, Backed
<1>3. PICK geometry \in BOOLEAN :
       /\ IF geometry THEN ~settled ELSE list # NoList
       /\ \E l \in IF geometry THEN NewLists ELSE Refilled :
            \/ /\ ~geometry /\ ~ctx.needTry /\ ctx.numHwc > 0
               /\ SkipDecision(l)
               /\ UNCHANGED <<win, gsc>>
            \/ /\ ~geometry /\ ~ctx.needTry /\ ctx.numHwc = 0 /\ ~ctx.rectChanged
               /\ ClearVirtual
               /\ ctx' = [ctx EXCEPT !.inited = FALSE, !.numSkip = 0, !.count = 0]
               /\ list' = l
               /\ UNCHANGED <<win, gsc>>
            \/ /\ geometry \/ ctx.needTry \/ (ctx.numHwc = 0 /\ ctx.rectChanged)
               /\ ClearVirtual
               /\ Decide(l, geometry)
  BY Zenon DEF Prepare
<1>4. PICK l \in IF geometry THEN NewLists ELSE Refilled :
            \/ /\ ~geometry /\ ~ctx.needTry /\ ctx.numHwc > 0
               /\ SkipDecision(l)
               /\ UNCHANGED <<win, gsc>>
            \/ /\ ~geometry /\ ~ctx.needTry /\ ctx.numHwc = 0 /\ ~ctx.rectChanged
               /\ ClearVirtual
               /\ ctx' = [ctx EXCEPT !.inited = FALSE, !.numSkip = 0, !.count = 0]
               /\ list' = l
               /\ UNCHANGED <<win, gsc>>
            \/ /\ geometry \/ ctx.needTry \/ (ctx.numHwc = 0 /\ ctx.rectChanged)
               /\ ClearVirtual
               /\ Decide(l, geometry)
  BY <1>3
<1>5. ~geometry => list # NoList /\ Refills(l)
  BY <1>2, <1>3, RefilledTyped
<1>6. l \in Seq(Layers) /\ l # NoList
  BY <1>5, NewListsTyped DEF Refills
<1>7. CASE /\ ~geometry /\ ~ctx.needTry /\ ctx.numHwc > 0
           /\ SkipDecision(l)
           /\ UNCHANGED <<win, gsc>>
  <2>1. ctx.numHwc = 1
    BY <1>2, <1>7
  <2> QED BY <1>1, <1>5, <1>7, <2>1, SkipDecisionKeeps
<1>8. CASE /\ ~geometry /\ ~ctx.needTry /\ ctx.numHwc = 0 /\ ~ctx.rectChanged
           /\ ClearVirtual
           /\ ctx' = [ctx EXCEPT !.inited = FALSE, !.numSkip = 0, !.count = 0]
           /\ list' = l
           /\ UNCHANGED <<win, gsc>>
  BY <1>1, <1>6, <1>8, IdleKeeps
<1>9. CASE ClearVirtual /\ Decide(l, geometry)
  BY <1>1, <1>2, <1>6, <1>9, DecideKeeps
<1> QED BY <1>4, <1>7, <1>8, <1>9

\* prepare without a list.
LEMMA PrepareNothingKeeps ==
  ASSUME HwcInv, PrepareNothing
  PROVE  HwcInv'
<1>1. list' = NoList /\ list' \in Seq(Layers)
  BY DEF PrepareNothing, NoList
<1> QED BY <1>1, IdleKeeps DEF PrepareNothing
-----------------------------------------------------------------------------
(* hwc_set. *)

\* Blanking keeps a power state per window.
LEMMA BlankTyped ==
  ASSUME NEW power \in [Windows -> BOOLEAN], NEW on \in BOOLEAN, NEW ws, NEW works, NEW windows
  PROVE  Blank(power, ws, on, works, windows) \in [Windows -> BOOLEAN]
BY DEF Blank

\* What drawing leaves of the windows and of the scaler.
Kept(windows, g) ==
  /\ windows \in [Wins -> WindowRecords] /\ g \in Scalers
  /\ \A i \in Wins : /\ windows[i].place = win[i].place /\ windows[i].crop = win[i].crop
                     /\ windows[i].mode = win[i].mode /\ windows[i].layer = win[i].layer
                     /\ windows[i].reserved = win[i].reserved
  /\ g.mode = gsc.mode /\ g.at = gsc.at
  /\ g.at = "null" => g.on = "off" /\ g.cfg = Unset
  /\ StreamOK(g, windows[0])

\* Only window 0 draws.
LEMMA RenderedIs ==
  ASSUME HwcTypeOK, ModesAgree, Backed, StreamKnown, list # NoList, NEW fault
  PROVE  Kept(Rendered(list, fault).win, Rendered(list, fault).gsc)
<1> DEFINE start == [win |-> win, gsc |-> gsc]
           w == win[0]
           layer == list[w.layer]
           first == w.needCfg \/ w.mode # "output"
           configured == TakesConfig(gsc, w, layer.shape) /\ fault # "config"
           cfg == [place |-> w.place, crop |-> layer.shape.crop]
           g == IF first THEN [gsc EXCEPT !.cfg = cfg] ELSE gsc
           h == layer.h
           yes == TRUE
           no == FALSE
           asked == [w EXCEPT !.prev = h]
           v == IF first THEN [w EXCEPT !.prev = h, !.needCfg = no, !.started = yes]
                         ELSE asked
           took == TakesFrame(g, w, layer.shape) /\ fault # "run"
           s == Rendered(list, fault)
<1>1. win \in [Wins -> WindowRecords] /\ gsc \in Scalers /\ w \in WindowRecords /\ ctx.numHwc \in 0 .. 1
  BY DEF HwcTypeOK, Backed, Wins
<1>2. Kept(win, gsc)
  BY <1>1 DEF Kept, ModesAgree, StreamKnown
<1>3. s = IF Due(0, list) THEN Drawn(start, 0, list, fault) ELSE start
  <2>1. ~Due(1, list)
    BY <1>1 DEF Due, Reserved
  <2>2. FirstVideo(start, 0) = start
    BY DEF FirstVideo
  <2> QED BY <2>1, <2>2 DEF Rendered
<1>4. CASE ~Due(0, list)
  BY <1>2, <1>3, <1>4
<1>5. CASE Due(0, list)
  <2>1. Backs(w, w.layer, list, gsc)
    BY <1>1, <1>5 DEF Due, Reserved, Backed
  <2>2. w.crop = layer.shape.crop /\ gsc.at = "live" /\ w.layer \in DOMAIN list
    BY <2>1 DEF Backs
  <2>3. layer \in Layers /\ h \in Bufs
    <3>1. layer \in Layers
      BY <2>2 DEF HwcTypeOK
    <3> QED BY <3>1 DEF Layers
  <2>4. w.mode = gsc.mode /\ w.place \in Places /\ w.crop \in Places
    BY <1>1, <2>2 DEF ModesAgree, Wins, WindowRecords
  <2>5. cfg \in [place : Places, crop : Places] /\ cfg = [place |-> w.place, crop |-> w.crop]
        /\ yes \in BOOLEAN /\ no \in BOOLEAN /\ yes
    BY <2>2, <2>4
  <2>6. Drawn(start, 0, list, fault) =
          IF first /\ ~configured THEN [start EXCEPT !.win[0].prev = h]
          ELSE IF ~took THEN [start EXCEPT !.win[0] = v, !.gsc = g]
          ELSE [win |-> [win EXCEPT ![0] = v],
                gsc |-> IF g.mode = "output" THEN [g EXCEPT !.on = "on"] ELSE g]
    BY DEF Drawn
  <2> DEFINE on == "on"
             streams == IF g.mode = "output" THEN [g EXCEPT !.on = on] ELSE g
             u == IF first /\ ~configured THEN asked ELSE v
             r == IF first /\ ~configured THEN gsc ELSE IF ~took THEN g ELSE streams
  <2>7. s.win = [win EXCEPT ![0] = u] /\ s.gsc = r
    <3> HIDE DEF first, configured, took, g, v, streams, h
    <3>1. CASE first /\ ~configured
      <4>1. s = [start EXCEPT !.win[0].prev = h] /\ u = asked /\ r = gsc
        BY <1>3, <1>5, <2>6, <3>1
      <4>2. [start EXCEPT !.win[0].prev = h].win = [win EXCEPT ![0].prev = h]
            /\ [start EXCEPT !.win[0].prev = h].gsc = gsc
        OBVIOUS
      <4>3. [win EXCEPT ![0].prev = h] = [win EXCEPT ![0] = asked]
        OBVIOUS
      <4> HIDE DEF s, asked, u, r, start
      <4> QED BY <4>1, <4>2, <4>3
    <3>2. CASE ~(first /\ ~configured) /\ ~took
      BY <1>3, <1>5, <2>6, <3>2
    <3>3. CASE ~(first /\ ~configured) /\ took
      <4>1. s = [win |-> [win EXCEPT ![0] = v],
                gsc |-> IF g.mode = "output" THEN [g EXCEPT !.on = "on"] ELSE g]
        <5> HIDE DEF streams, r, u, asked
        <5> QED BY <1>3, <1>5, <2>6, <3>3
      <4>2. s.win = [win EXCEPT ![0] = v] /\ s.gsc = streams
        <5> HIDE DEF s
        <5> QED BY <4>1 DEF streams
      <4>3. u = v /\ r = streams
        BY <3>3
      <4> HIDE DEF s, r, u
      <4> QED BY <4>2, <4>3
    <3> QED BY <3>1, <3>2, <3>3
  <2>8. /\ asked \in WindowRecords /\ asked.place = w.place /\ asked.crop = w.crop
        /\ asked.mode = w.mode /\ asked.layer = w.layer /\ asked.reserved = w.reserved
        /\ asked.started = w.started
    <3> HIDE DEF h, w
    <3> QED BY <1>1, <2>3 DEF WindowRecords
  <2>9. /\ v \in WindowRecords /\ v.place = w.place /\ v.crop = w.crop
        /\ v.mode = w.mode /\ v.layer = w.layer /\ v.reserved = w.reserved
        /\ first => v.started
        /\ ~first => v.started = w.started
    <3> HIDE DEF h, w, first, yes, no, asked
    <3> QED BY <1>1, <2>3, <2>5, <2>8 DEF WindowRecords
  <2>10. /\ g \in Scalers /\ g.mode = gsc.mode /\ g.at = gsc.at /\ g.on = gsc.on
         /\ first => g.cfg = cfg
         /\ ~first => g.cfg = gsc.cfg
    <3> HIDE DEF cfg, first
    <3> QED BY <1>1, <2>5 DEF Scalers
  <2>11. /\ streams \in Scalers /\ streams.mode = gsc.mode /\ streams.at = gsc.at
         /\ streams.cfg = g.cfg
         /\ streams.on = IF gsc.mode = "output" THEN "on" ELSE gsc.on
    <3>1. on \in {"off", "on", "stuck"} /\ on = "on"
      OBVIOUS
    <3> HIDE DEF g, on
    <3> QED BY <2>10, <3>1 DEF Scalers
  <2> HIDE DEF asked, v, streams, g, u, r
  <2>12. /\ u \in WindowRecords /\ u.place = w.place /\ u.crop = w.crop
         /\ u.mode = w.mode /\ u.layer = w.layer /\ u.reserved = w.reserved
    BY <2>8, <2>9 DEF u
  <2>13. r \in Scalers /\ r.mode = gsc.mode /\ r.at = gsc.at
    BY <1>1, <2>10, <2>11 DEF r
  <2>14. StreamOK(r, u)
    <3>1. StreamOK(gsc, w)
      BY DEF StreamKnown
    <3>2. CASE first /\ ~configured
      BY <2>8, <3>1, <3>2 DEF StreamOK, r, u
    <3>3. CASE first /\ configured
      <4>1. u = v /\ v.started /\ r.cfg = cfg /\ (gsc.mode = "output" => gsc.on = "off")
        BY <2>9, <2>10, <2>11, <3>3 DEF r, u, TakesConfig
      <4>2. r.cfg = [place |-> u.place, crop |-> u.crop]
        BY <2>5, <2>12, <4>1
      <4>3. r.on = "on" => gsc.mode = "output" /\ took /\ r = streams
        BY <2>10, <2>11, <3>1, <3>3, <4>1 DEF r, StreamOK
      <4>4. took /\ gsc.mode = "output" => g.cfg # Unset
        BY <2>10 DEF TakesFrame
      <4>5. r.on = "on" => r.mode = "output" /\ r.cfg # Unset
        BY <2>13, <2>11, <4>3, <4>4
      <4> QED BY <4>1, <4>2, <4>5 DEF StreamOK
    <3>4. CASE ~first
      <4>1. u = v /\ v.started = w.started /\ r.cfg = gsc.cfg /\ (r = g \/ (took /\ r = streams))
        BY <2>9, <2>10, <2>11, <3>4 DEF r, u
      <4>2. took /\ gsc.mode = "output" => gsc.cfg # Unset /\ gsc.on # "stuck"
        BY <2>10, <3>4 DEF TakesFrame
      <4>3. r.on = "on" => r.mode = "output" /\ r.cfg # Unset
        BY <2>10, <2>11, <2>13, <3>1, <4>1, <4>2 DEF StreamOK
      <4>4. r.mode = "output" /\ r.on # "stuck" => gsc.mode = "output" /\ gsc.on # "stuck"
        BY <2>10, <2>13, <4>1, <4>2
      <4> QED BY <2>12, <3>1, <4>1, <4>3, <4>4 DEF StreamOK
    <3> QED BY <3>2, <3>3, <3>4
  <2>15. s.win \in [Wins -> WindowRecords] /\ s.win[0] = u
         /\ \A i \in Wins : i # 0 => s.win[i] = win[i]
    BY <1>1, <2>7, <2>12 DEF Wins
  <2> QED BY <2>2, <2>7, <2>12, <2>13, <2>14, <2>15 DEF Kept
<1> QED BY <1>4, <1>5

\* Waiting for memory-to-memory windows does not touch an output stream.
LEMMA PresentedIs ==
  ASSUME HwcTypeOK, ModesAgree, NEW s, NEW l, Kept(s.win, s.gsc)
  PROVE  Kept(Presented(l, s), s.gsc)
<1> DEFINE p == Presented(l, s)
           no == FALSE
<1>1. s.win \in [Wins -> WindowRecords] /\ s.gsc \in Scalers
  BY DEF Kept
<1>2. p = [i \in Wins |-> IF Settled(i, l) /\ s.win[i].mode = "m2m"
                          THEN [s.win[i] EXCEPT !.started = no] ELSE s.win[i]]
  BY DEF Presented
<1>3. ASSUME NEW i \in Wins
      PROVE  /\ p[i] \in WindowRecords
             /\ p[i].place = s.win[i].place /\ p[i].crop = s.win[i].crop
             /\ p[i].mode = s.win[i].mode /\ p[i].layer = s.win[i].layer
             /\ p[i].reserved = s.win[i].reserved
             /\ s.win[i].mode = "output" => p[i].started = s.win[i].started
  <2>1. (p[i] = [s.win[i] EXCEPT !.started = no] /\ s.win[i].mode = "m2m") \/ p[i] = s.win[i]
    BY <1>2
  <2>2. s.win[i] \in WindowRecords /\ no \in BOOLEAN
    BY <1>1
  <2> HIDE DEF p, no
  <2> QED BY <2>1, <2>2 DEF WindowRecords
<1>4. p \in [Wins -> WindowRecords]
  BY <1>2, <1>3
<1> HIDE DEF p
<1>5. StreamOK(s.gsc, p[0])
  <2>1. ASSUME s.gsc.mode = "output", s.gsc.on # "stuck", s.gsc.cfg # Unset
        PROVE  s.win[0].mode = "output"
    <3>1. s.gsc.at = "live"
      BY <1>1, <2>1 DEF Kept, Scalers
    <3> QED BY <2>1, <3>1 DEF Kept, ModesAgree, Wins
  <2>2. StreamOK(s.gsc, s.win[0])
    BY DEF Kept
  <2>3. 0 \in Wins
    BY DEF Wins
  <2> QED BY <1>3, <2>1, <2>2, <2>3 DEF StreamOK
<1>6. \A i \in Wins : /\ p[i].place = win[i].place /\ p[i].crop = win[i].crop
                     /\ p[i].mode = win[i].mode /\ p[i].layer = win[i].layer
                     /\ p[i].reserved = win[i].reserved
  BY <1>3 DEF Kept
<1>7. Kept(p, s.gsc)
  BY <1>1, <1>4, <1>5, <1>6 DEF Kept
<1> QED BY <1>7 DEF p

\* The end of set: a frame without overlay leaves no stream behind.
LEMMA FinishKeeps ==
  ASSUME HwcTypeOK, ModesAgree, NEW n \in 0 .. 1, NEW s, NEW windows, Kept(windows, s.gsc),
         NEW power \in [Windows -> BOOLEAN], NEW works, FinishFrame(n, s, windows, power, works)
  PROVE  /\ win' \in [Wins -> WindowRecords] /\ gsc' \in Scalers
         /\ lit' \in [Windows -> BOOLEAN]
         /\ ctx' \in Contexts /\ ctx'.numHwc = n /\ ctx'.mode = ctx.mode
         /\ ctx'.numFb = ctx.numFb /\ ctx'.numSkip = ctx.numSkip /\ ctx'.inited = ctx.inited
         /\ gsc'.mode = gsc.mode /\ gsc'.at = gsc.at
         /\ gsc'.at = "null" => gsc'.on = "off" /\ gsc'.cfg = Unset
         /\ \A i \in Wins : win'[i].mode = win[i].mode
         /\ n = 1 => /\ win'[0].place = win[0].place /\ win'[0].crop = win[0].crop
                     /\ win'[0].layer = win[0].layer /\ win'[0].reserved = win[0].reserved
         /\ StreamOK(gsc', win'[0])
         /\ n = 0 => gsc'.on # "on"
<1> DEFINE ends == Ends(n, windows)
           rest == {i \in Wins : i >= n}
           off == IF ends THEN [power EXCEPT ![0] = FALSE] ELSE power
           left == DelayLeft(ends)
           g == s.gsc
<1>1. /\ gsc' \in IF ends THEN Stopped(g) ELSE {g}
      /\ win' = [i \in Wins |->
                   [windows[i] EXCEPT !.place = IF i \in rest THEN NoPlace ELSE @,
                                      !.started = @ /\ ~(ends /\ i = 0)]]
      /\ lit' = Blank(off, rest, FALSE, works, windows)
      /\ ctx' = [ctx EXCEPT !.numHwc = n, !.delay = left]
  BY DEF FinishFrame
<1>2. /\ windows \in [Wins -> WindowRecords] /\ g \in Scalers
      /\ g.mode = gsc.mode /\ g.at = gsc.at
      /\ g.at = "null" => g.on = "off" /\ g.cfg = Unset
      /\ StreamOK(g, windows[0])
  BY DEF Kept
<1>3. ends = (n = 0 /\ ctx.mode = "output" /\ windows[0].started)
  BY DEF Ends
<1> HIDE DEF ends
<1>4. left \in Nat
  BY HwcAssumption DEF DelayLeft, HwcTypeOK, Contexts
<1>5. /\ ctx' \in Contexts /\ ctx'.numHwc = n /\ ctx'.mode = ctx.mode
      /\ ctx'.numFb = ctx.numFb /\ ctx'.numSkip = ctx.numSkip /\ ctx'.inited = ctx.inited
  <2>1. ctx \in Contexts /\ n \in Nat
    BY DEF HwcTypeOK
  <2> HIDE DEF left
  <2> QED BY <1>1, <1>4, <2>1 DEF Contexts
<1>6. lit' \in [Windows -> BOOLEAN]
  <2>1. off \in [Windows -> BOOLEAN]
    OBVIOUS
  <2>2. FALSE \in BOOLEAN
    OBVIOUS
  <2> HIDE DEF off
  <2> QED BY <1>1, <2>1, <2>2, BlankTyped
<1>7. ASSUME NEW i \in Wins
      PROVE  /\ win'[i] \in WindowRecords /\ win'[i].mode = windows[i].mode
             /\ win'[i].crop = windows[i].crop /\ win'[i].layer = windows[i].layer
             /\ win'[i].reserved = windows[i].reserved
             /\ i \notin rest => win'[i].place = windows[i].place
             /\ ~ends => win'[i].started = windows[i].started
  <2> DEFINE place == IF i \in rest THEN NoPlace ELSE windows[i].place
             started == windows[i].started /\ ~(ends /\ i = 0)
  <2>1. windows[i] \in WindowRecords
    BY <1>2
  <2>2. place \in Places
    BY <2>1 DEF WindowRecords, NoPlace, Places
  <2>3. started \in BOOLEAN /\ (~ends => started = windows[i].started)
    BY <2>1 DEF WindowRecords
  <2>4. win'[i] = [windows[i] EXCEPT !.place = place, !.started = started]
    BY <1>1
  <2>5. i \notin rest => place = windows[i].place
    OBVIOUS
  <2> HIDE DEF place, started, rest
  <2>6. /\ win'[i] \in WindowRecords /\ win'[i].mode = windows[i].mode
        /\ win'[i].crop = windows[i].crop /\ win'[i].layer = windows[i].layer
        /\ win'[i].reserved = windows[i].reserved
        /\ win'[i].place = place /\ win'[i].started = started
    BY <2>1, <2>2, <2>3, <2>4 DEF WindowRecords
  <2> QED BY <2>3, <2>5, <2>6
<1>8. win' \in [Wins -> WindowRecords]
  <2>1. win' = [i \in Wins |-> win'[i]]
    BY <1>1
  <2> QED BY <1>7, <2>1
<1>9. \A i \in Wins : win'[i].mode = win[i].mode
  BY <1>7 DEF Kept
<1>10. n = 1 => /\ win'[0].place = win[0].place /\ win'[0].crop = win[0].crop
                /\ win'[0].layer = win[0].layer /\ win'[0].reserved = win[0].reserved
  <2>1. n = 1 => 0 \notin rest
    OBVIOUS
  <2>2. 0 \in Wins
    BY DEF Wins
  <2> HIDE DEF rest
  <2> QED BY <1>7, <2>1, <2>2 DEF Kept
\* A stop that succeeds forgets the configuration, one that fails is known to have.
<1>11. CASE ends
  <2>1. n = 0 /\ gsc' \in Stopped(g)
    BY <1>1, <1>3, <1>11
  <2>2. /\ gsc' \in Scalers /\ gsc'.mode = g.mode /\ gsc'.at = g.at /\ gsc'.on # "on"
        /\ gsc'.on = "stuck" \/ gsc'.cfg = Unset
        /\ g.on = "off" => gsc'.on = "off" /\ gsc'.cfg = Unset
    <3> DEFINE on == IF g.on = "stuck" THEN "stuck" ELSE "off"
               stuck == "stuck"
    <3>1. Unset \in [place : Places, crop : Places] /\ on \in {"off", "on", "stuck"}
          /\ on # "on" /\ (g.on = "off" => on = "off") /\ stuck \in {"off", "on", "stuck"}
      BY DEF Unset, NoPlace, Places
    <3>2. gsc' = [g EXCEPT !.on = on, !.cfg = Unset]
          \/ (g.on = "on" /\ gsc' = [g EXCEPT !.on = stuck])
      BY <2>1 DEF Stopped
    <3>3. CASE gsc' = [g EXCEPT !.on = on, !.cfg = Unset]
      <4> HIDE DEF on, g
      <4> QED BY <1>2, <3>1, <3>3 DEF Scalers
    <3>4. CASE g.on = "on" /\ gsc' = [g EXCEPT !.on = stuck]
      <4>1. /\ gsc' \in Scalers /\ gsc'.mode = g.mode /\ gsc'.at = g.at /\ gsc'.on = stuck
        <5> HIDE DEF stuck, g
        <5> QED BY <1>2, <3>1, <3>4 DEF Scalers
      <4> QED BY <3>4, <4>1
    <3> QED BY <3>2, <3>3, <3>4
  <2>3. StreamOK(gsc', win'[0])
    BY <2>2 DEF StreamOK
  <2> QED BY <1>2, <1>5, <1>6, <1>8, <1>9, <1>10, <2>1, <2>2, <2>3
\* Without overlays only a window that was not started is left as it is.
<1>12. CASE ~ends
  <2>1. gsc' = g
    BY <1>1, <1>12
  <2>2. n = 0 => ~(g.mode = "output" /\ g.on # "stuck" /\ g.cfg # Unset)
    BY <1>2, <1>3, <1>12 DEF StreamOK, ModesAgree
  <2>3. n = 0 => g.on # "on"
    BY <1>2, <2>2 DEF StreamOK
  <2>4. StreamOK(gsc', win'[0])
    <3>1. 0 \in Wins /\ (n = 1 => 0 \notin rest)
      BY DEF Wins
    <3> HIDE DEF rest
    <3>2. win'[0].started = windows[0].started /\ win'[0].crop = windows[0].crop
          /\ (n = 1 => win'[0].place = windows[0].place)
      BY <1>7, <1>12, <3>1
    <3>3. n = 0 \/ n = 1
      OBVIOUS
    <3> QED BY <1>2, <2>1, <2>2, <3>2, <3>3 DEF StreamOK
  <2> QED BY <1>2, <1>5, <1>6, <1>8, <1>9, <1>10, <2>1, <2>3, <2>4
<1> QED BY <1>11, <1>12

\* The windows shown after the scaler ran.
LEMMA ToggledTyped ==
  ASSUME HwcTypeOK, NEW l, NEW s, NEW works
  PROVE  Toggled(l, s, works) \in [Windows -> BOOLEAN]
<1> DEFINE missed == {i \in Wins : i < ctx.numHwc /\ ~Reserved(i, l)}
           on == TRUE
           ui == IF missed = {} THEN lit ELSE Blank(lit, {UiWin}, on, works, s.win)
           done == {i \in Wins : Settled(i, l)}
<1>1. lit \in [Windows -> BOOLEAN] /\ on \in BOOLEAN
  BY DEF HwcTypeOK
<1>2. Toggled(l, s, works) = Blank(ui, done, on, works, s.win)
  BY DEF Toggled
<1> HIDE DEF on, done, missed
<1>3. ui \in [Windows -> BOOLEAN]
  BY <1>1, BlankTyped
<1> HIDE DEF ui
<1> QED BY <1>1, <1>2, <1>3, BlankTyped

\* The UI window shown or hidden after the swap.
LEMMA UiToggledTyped ==
  ASSUME NEW power \in [Windows -> BOOLEAN], NEW works, NEW windows
  PROVE  UiToggled(power, works, windows) \in [Windows -> BOOLEAN]
<1>1. TRUE \in BOOLEAN /\ FALSE \in BOOLEAN
  OBVIOUS
<1>2. /\ Blank(power, {UiWin}, TRUE, works, windows) \in [Windows -> BOOLEAN]
      /\ Blank(power, {UiWin}, FALSE, works, windows) \in [Windows -> BOOLEAN]
  BY <1>1, BlankTyped
<1> QED BY <1>2 DEF UiToggled

\* What backs a layer survives the frame.
LEMMA KeptBacks ==
  ASSUME NEW w, NEW v, NEW i, NEW l, NEW g, NEW f, Backs(w, i, l, g),
         v.place = w.place, v.crop = w.crop, v.layer = w.layer, v.reserved = w.reserved,
         f.mode = g.mode, f.at = g.at
  PROVE  Backs(v, i, l, f)
BY DEF Backs

\* set with a list.
LEMMA SetKeeps ==
  ASSUME HwcInv, Set
  PROVE  HwcInv'
<1>1. HwcTypeOK /\ ModesAgree /\ Backed /\ StreamKnown /\ WrittenDown /\ UiKnown
  BY DEF HwcInv
<1>2. phase = "set" /\ phase' = "prepare" /\ list # NoList /\ UNCHANGED <<list, virt>>
      /\ ctx.numHwc \in 0 .. 1
  BY <1>1 DEF Set, Backed
<1>3. PICK fault \in {"no"} \cup SetFails, works \in Working :
       LET s == Rendered(list, fault)
           windows == Presented(list, s)
           power == Toggled(list, s, works)
       IN \/ /\ FinishFrame(ctx.numHwc, s, windows, UiToggled(power, works, windows), works)
             /\ uiDrawn' = IF ctx.numFb > 0 THEN Composed(list) ELSE uiDrawn
          \/ /\ Can("egl") /\ ctx.numFb > 0
             /\ win' = windows /\ gsc' = s.gsc /\ lit' = power
             /\ uiDrawn' = Failed
             /\ UNCHANGED ctx
  BY Zenon DEF Set
<1> DEFINE s == Rendered(list, fault)
           windows == Presented(list, s)
           power == Toggled(list, s, works)
<1>4. \/ /\ FinishFrame(ctx.numHwc, s, windows, UiToggled(power, works, windows), works)
         /\ uiDrawn' = IF ctx.numFb > 0 THEN Composed(list) ELSE uiDrawn
      \/ /\ ctx.numFb > 0
         /\ win' = windows /\ gsc' = s.gsc /\ lit' = power
         /\ uiDrawn' = Failed
         /\ UNCHANGED ctx
  BY <1>3
<1>5. Kept(s.win, s.gsc)
  BY <1>1, <1>2, RenderedIs
<1>6. Kept(windows, s.gsc)
  BY <1>1, <1>5, PresentedIs
<1>7. power \in [Windows -> BOOLEAN]
  BY <1>1, ToggledTyped
<1> HIDE DEF s, windows, power
<1>8. CASE /\ FinishFrame(ctx.numHwc, s, windows, UiToggled(power, works, windows), works)
           /\ uiDrawn' = IF ctx.numFb > 0 THEN Composed(list) ELSE uiDrawn
  <2> DEFINE n == ctx.numHwc
             shown == UiToggled(power, works, windows)
  <2>1. shown \in [Windows -> BOOLEAN]
    BY <1>7, UiToggledTyped
  <2>2. n \in 0 .. 1 /\ FinishFrame(n, s, windows, shown, works)
    BY <1>2, <1>8
  <2> HIDE DEF n, shown
  <2>3. /\ win' \in [Wins -> WindowRecords] /\ gsc' \in Scalers
        /\ lit' \in [Windows -> BOOLEAN]
        /\ ctx' \in Contexts /\ ctx'.numHwc = n /\ ctx'.mode = ctx.mode
        /\ ctx'.numFb = ctx.numFb /\ ctx'.numSkip = ctx.numSkip /\ ctx'.inited = ctx.inited
        /\ gsc'.mode = gsc.mode /\ gsc'.at = gsc.at
        /\ gsc'.at = "null" => gsc'.on = "off" /\ gsc'.cfg = Unset
        /\ \A i \in Wins : win'[i].mode = win[i].mode
        /\ n = 1 => /\ win'[0].place = win[0].place /\ win'[0].crop = win[0].crop
                    /\ win'[0].layer = win[0].layer /\ win'[0].reserved = win[0].reserved
        /\ StreamOK(gsc', win'[0])
        /\ n = 0 => gsc'.on # "on"
    BY <1>1, <1>6, <2>1, <2>2, FinishKeeps
  <2>4. ctx'.numHwc = ctx.numHwc /\ (ctx.numHwc = 1 => n = 1) /\ (ctx.numHwc = 0 => n = 0)
    BY <2>3 DEF n
  <2>5. HwcTypeOK'
    BY <1>1, <1>2, <2>3 DEF HwcTypeOK
  <2>6. ModesAgree' /\ StreamKnown' /\ Ended'
    BY <1>1, <2>3, <2>4 DEF ModesAgree, StreamKnown, Ended
  <2>7. Backed'
    <3>1. ctx.numHwc = 1 => Backs(win'[0], win[0].layer, list, gsc') /\ win'[0].layer = win[0].layer
      BY <1>1, <1>2, <2>3, <2>4, KeptBacks DEF Backed
    <3> QED BY <1>1, <1>2, <2>4, <3>1 DEF Backed
  <2>8. WrittenDown' /\ Virtuals' = Virtuals
    BY <1>1, <1>2, <2>3, <2>4 DEF WrittenDown, Virtuals
  <2>9. UiKnown'
    <3>1. SUFFICES ASSUME ctx.inited, NEW v \in 1 .. Virtuals
                   PROVE  /\ ctx.numSkip > 0 => list[virt[v].layer].h = virt[v].prev
                          /\ uiDrawn' # Failed => /\ virt[v].layer \in DOMAIN uiDrawn'
                                                  /\ uiDrawn'[virt[v].layer] = virt[v].prev
      BY <1>2, <2>3, <2>8 DEF UiKnown
    <3>2. list[virt[v].layer].h = virt[v].prev
      BY <1>1, <1>2, <3>1 DEF UiKnown
    <3>3. virt[v].layer \in DOMAIN list
      BY <1>1, <3>1 DEF WrittenDown, Having
    <3>4. ctx.numFb \in Nat /\ ctx.numSkip \in Nat /\ Virtuals = ctx.numFb + ctx.numSkip
      BY <1>1 DEF HwcTypeOK, Contexts, Virtuals
    <3>5. CASE ctx.numFb > 0
      <4>1. ctx.numSkip = 0
        BY <1>1, <3>4, <3>5 DEF WrittenDown
      <4>2. list[virt[v].layer].type = "fb"
        BY <1>1, <1>2, <3>1, <4>1 DEF UiKnown
      <4>3. uiDrawn' = Composed(list)
        BY <1>8, <3>5
      <4> QED BY <3>2, <3>3, <4>2, <4>3 DEF Composed
    <3>6. CASE ~(ctx.numFb > 0)
      <4>1. ctx.numSkip > 0
        BY <1>1, <3>1, <3>4, <3>6 DEF WrittenDown, DummyWins
      <4>2. uiDrawn' = uiDrawn
        BY <1>8, <3>6
      <4> QED BY <1>1, <3>1, <3>2, <4>1, <4>2 DEF UiKnown
    <3> QED BY <3>5, <3>6
  <2> QED BY <2>5, <2>6, <2>7, <2>8, <2>9 DEF HwcInv
<1>9. CASE /\ ctx.numFb > 0
           /\ win' = windows /\ gsc' = s.gsc /\ lit' = power
           /\ uiDrawn' = Failed
           /\ UNCHANGED ctx
  <2>1. 0 \in Wins
    BY DEF Wins
  <2>2. HwcTypeOK'
    BY <1>1, <1>2, <1>6, <1>7, <1>9 DEF HwcTypeOK, Kept
  <2>3. ModesAgree'
    BY <1>1, <1>6, <1>9 DEF ModesAgree, Kept
  <2>4. StreamKnown' /\ Ended'
    BY <1>6, <1>9 DEF StreamKnown, Ended, Kept
  <2>5. Backed'
    <3>1. ctx.numHwc = 1 => Backs(windows[0], win[0].layer, list, s.gsc)
                            /\ windows[0].layer = win[0].layer
      BY <1>1, <1>2, <1>6, <2>1, KeptBacks DEF Backed, Kept
    <3> QED BY <1>1, <1>2, <1>9, <3>1 DEF Backed
  <2>6. WrittenDown' /\ Virtuals' = Virtuals
    BY <1>1, <1>2, <1>9 DEF WrittenDown, Virtuals
  <2>7. UiKnown'
    BY <1>1, <1>2, <1>9, <2>6 DEF UiKnown
  <2> QED BY <2>2, <2>3, <2>4, <2>5, <2>6, <2>7 DEF HwcInv
<1> QED BY <1>4, <1>8, <1>9

\* set without a list.
LEMMA SetNothingKeeps ==
  ASSUME HwcInv, SetNothing
  PROVE  HwcInv'
<1>1. HwcTypeOK /\ ModesAgree /\ StreamKnown /\ WrittenDown
  BY DEF HwcInv
<1>2. PICK works \in Working :
        LET s == [win |-> win, gsc |-> gsc]
        IN /\ phase = "set" /\ phase' = "prepare" /\ list = NoList
           /\ \/ /\ FinishFrame(0, s, win, Blank(lit, {UiWin}, TRUE, works, win), works)
                 /\ uiDrawn' = <<>>
              \/ /\ Can("egl")
                 /\ ctx' = [ctx EXCEPT !.numHwc = 0]
                 /\ uiDrawn' = Failed
                 /\ UNCHANGED <<win, lit, gsc>>
           /\ UNCHANGED <<list, virt, settled>>
  BY Zenon DEF SetNothing
<1> DEFINE s == [win |-> win, gsc |-> gsc]
           on == TRUE
           power == Blank(lit, {UiWin}, on, works, win)
           zero == 0
<1>3. /\ phase = "set" /\ phase' = "prepare" /\ list = NoList /\ UNCHANGED <<list, virt>>
      /\ \/ FinishFrame(zero, s, win, power, works)
         \/ /\ ctx' = [ctx EXCEPT !.numHwc = zero]
            /\ uiDrawn' = Failed
            /\ UNCHANGED <<win, lit, gsc>>
  BY <1>2
<1>4. ~ctx.inited
  BY <1>1, <1>3 DEF WrittenDown
<1>5. CASE FinishFrame(zero, s, win, power, works)
  <2>1. Kept(win, s.gsc)
    BY <1>1 DEF Kept, HwcTypeOK, ModesAgree, StreamKnown
  <2>2. power \in [Windows -> BOOLEAN]
    <3>1. lit \in [Windows -> BOOLEAN] /\ on \in BOOLEAN
      BY <1>1 DEF HwcTypeOK
    <3> HIDE DEF on
    <3> QED BY <3>1, BlankTyped
  <2>3. zero \in 0 .. 1
    OBVIOUS
  <2> HIDE DEF s, power, zero
  <2>4. /\ win' \in [Wins -> WindowRecords] /\ gsc' \in Scalers
        /\ lit' \in [Windows -> BOOLEAN]
        /\ ctx' \in Contexts /\ ctx'.numHwc = zero /\ ctx'.mode = ctx.mode
        /\ ctx'.numFb = ctx.numFb /\ ctx'.numSkip = ctx.numSkip /\ ctx'.inited = ctx.inited
        /\ gsc'.mode = gsc.mode /\ gsc'.at = gsc.at
        /\ gsc'.at = "null" => gsc'.on = "off" /\ gsc'.cfg = Unset
        /\ \A i \in Wins : win'[i].mode = win[i].mode
        /\ StreamOK(gsc', win'[0])
        /\ zero = 0 => gsc'.on # "on"
    BY <1>1, <1>5, <2>1, <2>2, <2>3, FinishKeeps
  <2>5. HwcTypeOK'
    BY <1>1, <1>3, <2>4 DEF HwcTypeOK
  <2>6. ModesAgree' /\ StreamKnown' /\ Ended'
    BY <1>1, <2>4 DEF ModesAgree, StreamKnown, Ended, zero
  <2>7. Backed' /\ WrittenDown' /\ UiKnown'
    BY <1>1, <1>3, <1>4, <2>4 DEF Backed, WrittenDown, UiKnown, zero
  <2> QED BY <2>5, <2>6, <2>7 DEF HwcInv
<1>6. CASE ctx' = [ctx EXCEPT !.numHwc = zero] /\ uiDrawn' = Failed /\ UNCHANGED <<win, lit, gsc>>
  <2>1. ctx \in Contexts /\ zero \in Nat
    BY <1>1 DEF HwcTypeOK
  <2>2. /\ ctx' \in Contexts /\ ctx'.numHwc = zero /\ ctx'.mode = ctx.mode
        /\ ctx'.numFb = ctx.numFb /\ ctx'.numSkip = ctx.numSkip /\ ctx'.inited = ctx.inited
    <3> HIDE DEF zero
    <3> QED BY <1>6, <2>1 DEF Contexts
  <2>3. HwcTypeOK'
    BY <1>1, <1>3, <1>6, <2>2 DEF HwcTypeOK
  <2>4. ModesAgree' /\ StreamKnown' /\ Ended'
    BY <1>1, <1>6, <2>2 DEF ModesAgree, StreamKnown, StreamOK, Ended
  <2>5. Backed' /\ WrittenDown' /\ UiKnown'
    BY <1>1, <1>3, <1>4, <2>2 DEF Backed, WrittenDown, UiKnown
  <2> QED BY <2>3, <2>4, <2>5 DEF HwcInv
<1> QED BY <1>3, <1>5, <1>6

\* The screen goes off.
LEMMA ReleaseKeeps ==
  ASSUME HwcInv, Release
  PROVE  HwcInv'
<1>1. HwcTypeOK /\ ModesAgree /\ StreamKnown /\ WrittenDown /\ Backed /\ Ended
  BY DEF HwcInv
<1>2. PICK works \in Working :
       /\ phase = "prepare" /\ ~settled
       /\ ctx' = [ctx EXCEPT !.inited = FALSE, !.numFb = @ + ctx.numSkip, !.numSkip = 0]
       /\ win' = [i \in Wins |-> [win[i] EXCEPT !.prev = NoBuf]]
       /\ lit' = Blank(Blank(lit, {UiWin}, TRUE, works, win), Wins, FALSE, works, win)
       /\ UNCHANGED <<list, virt, gsc, phase, uiDrawn, settled>>
  BY Zenon DEF Release
<1> DEFINE zero == 0
           no == FALSE
           yes == TRUE
           all == ctx.numFb + ctx.numSkip
<1>3. ctx' = [ctx EXCEPT !.inited = no, !.numFb = all, !.numSkip = zero]
      /\ lit' = Blank(Blank(lit, {UiWin}, yes, works, win), Wins, no, works, win)
  BY <1>2
<1>4. ctx \in Contexts /\ lit \in [Windows -> BOOLEAN] /\ yes \in BOOLEAN /\ no \in BOOLEAN
      /\ zero \in Nat
  BY <1>1 DEF HwcTypeOK
<1>5. all \in Nat
  BY <1>4 DEF Contexts
<1>6. /\ ctx' \in Contexts /\ ctx'.numHwc = ctx.numHwc /\ ctx'.mode = ctx.mode
      /\ ctx'.numFb = all /\ ctx'.numSkip = 0 /\ ~ctx'.inited
  <2> HIDE DEF zero, no, all
  <2>1. /\ ctx' \in Contexts /\ ctx'.numHwc = ctx.numHwc /\ ctx'.mode = ctx.mode
        /\ ctx'.numFb = all /\ ctx'.numSkip = zero /\ ctx'.inited = no
    BY <1>3, <1>4, <1>5 DEF Contexts
  <2> QED BY <2>1 DEF zero, no
<1>7. lit' \in [Windows -> BOOLEAN]
  <2> HIDE DEF yes, no
  <2> QED BY <1>3, <1>4, BlankTyped
<1>8. ASSUME NEW i \in Wins
      PROVE  /\ win'[i] \in WindowRecords /\ win'[i].place = win[i].place
             /\ win'[i].crop = win[i].crop /\ win'[i].mode = win[i].mode
             /\ win'[i].layer = win[i].layer /\ win'[i].reserved = win[i].reserved
             /\ win'[i].started = win[i].started
  <2>1. win'[i] = [win[i] EXCEPT !.prev = NoBuf] /\ win[i] \in WindowRecords /\ NoBuf \in Bufs
    BY <1>1, <1>2 DEF HwcTypeOK, Bufs
  <2> QED BY <2>1 DEF WindowRecords
<1>9. win' \in [Wins -> WindowRecords] /\ 0 \in Wins
  <2>1. win' = [i \in Wins |-> win'[i]]
    BY <1>2
  <2> QED BY <1>8, <2>1 DEF Wins
<1>10. HwcTypeOK'
  BY <1>1, <1>2, <1>6, <1>7, <1>9 DEF HwcTypeOK
<1>11. ModesAgree' /\ Ended'
  BY <1>1, <1>2, <1>6, <1>8 DEF ModesAgree, Ended
<1>12. StreamKnown'
  BY <1>1, <1>2, <1>8, <1>9 DEF StreamKnown, StreamOK
<1>13. Backed'
  <2>1. list # NoList /\ ctx.numHwc = 1 => Backs(win'[0], win[0].layer, list, gsc)
                                         /\ win'[0].layer = win[0].layer
    BY <1>1, <1>8, <1>9, KeptBacks DEF Backed
  <2> QED BY <1>1, <1>2, <1>6, <2>1 DEF Backed
<1>14. WrittenDown'
  <2>1. Virtuals' = Virtuals
    BY <1>5, <1>6 DEF Virtuals
  <2> QED BY <1>1, <1>2, <1>6, <2>1 DEF WrittenDown
<1> QED BY <1>6, <1>10, <1>11, <1>12, <1>13, <1>14 DEF HwcInv, UiKnown

\* hwc_device_open establishes the invariant.
LEMMA InitHolds == HwcInit => HwcInv
<1> SUFFICES ASSUME HwcInit PROVE HwcInv
  OBVIOUS
<1>1. list = NoList /\ phase = "prepare" /\ uiDrawn = <<>>
      /\ ctx = [mode |-> DefaultMode, numHwc |-> 0, numFb |-> 0, numSkip |-> 0,
                inited |-> FALSE, count |-> 0, rectChanged |-> FALSE, needTry |-> FALSE,
                delay |-> 0]
      /\ gsc = [at |-> "live", mode |-> DefaultMode, cfg |-> Unset, on |-> "off"]
  BY DEF HwcInit, Handle
<1>2. DefaultMode \in Modes /\ NoPlace \in Places /\ Unset \in [place : Places, crop : Places]
  BY HwcAssumption DEF Modes, NoPlace, Places, Unset
<1>3. ctx \in Contexts /\ gsc \in Scalers
  BY <1>1, <1>2 DEF Contexts, Scalers
<1>4. ASSUME NEW i \in Wins
      PROVE  win[i] \in WindowRecords /\ win[i].mode = DefaultMode
  <2> DEFINE place == IF DefaultMode = "output" THEN NoPlace
                      ELSE [NoPlace EXCEPT !.w = Screen.w, !.h = Screen.h]
  <2>1. place \in Places
    <3> DEFINE w == Screen.w
               h == Screen.h
    <3>1. w \in Int /\ h \in Int
      BY HwcAssumption
    <3>2. [NoPlace EXCEPT !.w = w, !.h = h] \in Places
      <4> HIDE DEF w, h
      <4> QED BY <1>2, <3>1 DEF Places
    <3> QED BY <1>2, <3>2
  <2>2. win[i] = [place |-> place, crop |-> NoPlace, mode |-> DefaultMode,
                  needCfg |-> FALSE, started |-> FALSE, reserved |-> FALSE, layer |-> 0,
                  prev |-> NoBuf]
    BY DEF HwcInit
  <2> HIDE DEF place
  <2> QED BY <1>2, <2>1, <2>2 DEF WindowRecords, Bufs
<1>5. win \in [Wins -> WindowRecords]
  <2>1. win = [i \in Wins |-> win[i]]
    BY DEF HwcInit
  <2> QED BY <1>4, <2>1
<1>6. lit \in [Windows -> BOOLEAN]
  BY DEF HwcInit
<1>7. virt \in [1 .. DummyWins -> [prev : Bufs, layer : Nat]]
  BY DEF HwcInit, Bufs
<1>8. list \in Seq(Layers)
  BY <1>1 DEF NoList
<1>9. HwcTypeOK
  BY <1>1, <1>3, <1>5, <1>6, <1>7, <1>8 DEF HwcTypeOK
<1>10. ModesAgree /\ StreamKnown
  BY <1>1, <1>4 DEF ModesAgree, StreamKnown, StreamOK
<1>11. Backed /\ Ended /\ WrittenDown /\ UiKnown
  BY <1>1 DEF Backed, Ended, WrittenDown, UiKnown
<1> QED BY <1>9, <1>10, <1>11 DEF HwcInv

\* The invariant holds whatever lists come and whatever calls fail.
THEOREM HwcInvariant == HwcSpec => []HwcInv
<1>1. HwcInit => HwcInv
  BY InitHolds
<1>2. HwcInv /\ [HwcNext]_hwcVars => HwcInv'
  <2>1. ASSUME HwcInv, Settle PROVE HwcInv'
    BY <2>1 DEF Settle, HwcInv, HwcTypeOK, ModesAgree, Backed, StreamKnown, Ended, WrittenDown,
      UiKnown, Virtuals
  <2>2. ASSUME HwcInv, UNCHANGED hwcVars PROVE HwcInv'
    BY <2>2 DEF hwcVars, HwcInv, HwcTypeOK, ModesAgree, Backed, StreamKnown, Ended, WrittenDown,
      UiKnown, Virtuals
  <2> QED BY <2>1, <2>2, PrepareKeeps, PrepareNothingKeeps, SetKeeps, SetNothingKeeps,
       ReleaseKeeps DEF HwcNext
<1> QED BY <1>1, <1>2, PTL DEF HwcSpec

\* When set runs, each window it draws has a layer that is still an overlay and a live
\* scaler in the mode the window believes, for every list and after every failure.
THEOREM OverlaysBacked == HwcSpec => []OverlaysAreBacked
<1>1. HwcInv => OverlaysAreBacked
  <2> SUFFICES ASSUME HwcInv, phase = "set", list # NoList, NEW i \in Wins, i < ctx.numHwc
               PROVE  /\ win[i].reserved
                      /\ list[win[i].layer].type = "overlay"
                      /\ list[win[i].layer].shape.kind = "yuv"
                      /\ gsc.at = "live" /\ gsc.mode = win[i].mode
    BY DEF OverlaysAreBacked
  <2>1. i = 0 /\ ctx.numHwc = 1
    BY DEF HwcInv, Backed, Wins
  <2>2. Backs(win[0], win[0].layer, list, gsc) /\ list[win[0].layer].type = "overlay"
    BY <2>1 DEF HwcInv, Backed
  <2> QED BY <2>1, <2>2 DEF HwcInv, ModesAgree, Backs
<1> QED BY <1>1, HwcInvariant, PTL

\* A running output stream has the place and crop of the layer it shows: no change of
\* geometry is missed by the rectangle and crop comparisons of assign_overlay_window.
THEOREM StreamFits == HwcSpec => []StreamFitsLayer
<1>1. HwcInv => StreamFitsLayer
  <2> SUFFICES ASSUME HwcInv, phase = "set", list # NoList, ctx.numHwc > 0, gsc.on = "on"
               PROVE  gsc.cfg = [place |-> Place[list[win[0].layer].shape],
                                 crop |-> list[win[0].layer].shape.crop]
    BY DEF StreamFitsLayer
  <2>1. ctx.numHwc = 1
    BY DEF HwcInv, Backed
  <2>2. Backs(win[0], win[0].layer, list, gsc)
    BY <2>1 DEF HwcInv, Backed
  <2>3. gsc.cfg = [place |-> win[0].place, crop |-> win[0].crop]
    BY DEF HwcInv, StreamKnown, StreamOK
  <2> QED BY <2>2, <2>3 DEF Backs
<1> QED BY <1>1, HwcInvariant, PTL

\* No stream outlives the last overlay, but for a frame that could not be swapped.
THEOREM StreamsEnd == HwcSpec => []NoStreamWithoutOverlay
<1>1. HwcInv => NoStreamWithoutOverlay
  <2> SUFFICES ASSUME HwcInv, phase = "prepare", ctx.numHwc = 0, gsc.on = "on"
               PROVE  win[0].started /\ uiDrawn = Failed
    BY DEF NoStreamWithoutOverlay
  <2> QED BY DEF HwcInv, StreamKnown, StreamOK, Ended
<1> QED BY <1>1, HwcInvariant, PTL

\* UI layers that nobody draws are on screen with the buffers they have now.
THEOREM SkippedUi == HwcSpec => []SkippedUiIsShown
<1>1. HwcInv => SkippedUiIsShown
  <2> SUFFICES ASSUME HwcInv, ctx.numSkip > 0, uiDrawn # Failed, NEW i \in Having(list, "rgb")
               PROVE  i \in DOMAIN uiDrawn /\ uiDrawn[i] = list[i].h
    BY DEF SkippedUiIsShown
  <2>1. ctx.inited /\ Having(list, "rgb") = {virt[v].layer : v \in 1 .. Virtuals}
    BY DEF HwcInv, WrittenDown, HwcTypeOK, Contexts
  <2>2. PICK v \in 1 .. Virtuals : i = virt[v].layer
    BY <2>1
  <2> QED BY <2>1, <2>2 DEF HwcInv, UiKnown
<1> QED BY <1>1, HwcInvariant, PTL
-----------------------------------------------------------------------------
(* What prepare grants the scaler takes. *)

\* What rounding up to whole blocks of 16, of 8 and of 2 gives.
LEMMA Rounded ==
  /\ \A n \in Nat : RoundUp(n, 16) \in Nat /\ RoundUp(n, 16) >= n
  /\ \A n \in Nat : RoundUp(n, 8) \in Nat /\ RoundUp(n, 8) >= n
  /\ \A n \in Nat : RoundUp(n, 2) = n + (n % 2)
BY DEF RoundUp

\* The scaler turns a quarter only for a transform with the quarter bit.
LEMMA Orientations ==
  ASSUME NEW t \in 0 .. 7
  PROVE  /\ Orientation(t).rotate \in {0, 90, 180, 270}
         /\ ~Bit(t, Rot90) => Orientation(t).rotate \in {0, 180}
<1>1. t \in {0, 1, 2, 3, 4, 5, 6, 7}
  OBVIOUS
<1> QED BY <1>1 DEF Orientation, Bit, Rot90, FlipH, FlipV

\* The composer's table of ratios is never beyond the scaler's, where it is used.
LEMMA RatiosAgree ==
  /\ DownScale = 1 \/ DownScale = OutDown(RoundUp(Screen.w, 16), RoundUp(Screen.h, 8))
  /\ DownScale \in 1 .. 4
<1>1. Screen.w \in Nat /\ Screen.h \in Nat
  BY HwcAssumption
<1> DEFINE at == <<Screen.w, Screen.h>>
<1>2. CASE at \in {<<720, 480>>, <<640, 480>>, <<1024, 600>>, <<1280, 720>>}
  <2>1. DownScale = 4
    BY <1>2 DEF DownScale
  <2>2. <<RoundUp(Screen.w, 16), RoundUp(Screen.h, 8)>> = at
    BY <1>2 DEF RoundUp
  <2> QED BY <1>2, <2>1, <2>2 DEF OutDown
<1>3. CASE at = <<1280, 800>>
  <2>1. DownScale = 3
    BY <1>3 DEF DownScale
  <2>2. <<RoundUp(Screen.w, 16), RoundUp(Screen.h, 8)>> = at
    BY <1>3 DEF RoundUp
  <2> QED BY <1>3, <2>1, <2>2 DEF OutDown
<1>4. CASE at \in {<<1920, 1080>>, <<800, 1280>>}
  <2>1. DownScale = 2
    BY <1>4 DEF DownScale
  <2>2. <<RoundUp(Screen.w, 16), RoundUp(Screen.h, 8)>> = at
    BY <1>4 DEF RoundUp
  <2> QED BY <1>4, <2>1, <2>2 DEF OutDown
<1>5. CASE ~(at \in {<<720, 480>>, <<640, 480>>, <<1024, 600>>, <<1280, 720>>, <<1280, 800>>,
                     <<1920, 1080>>, <<800, 1280>>})
  BY <1>5 DEF DownScale
<1> QED BY <1>2, <1>3, <1>4, <1>5

\* The images of a sensible layer that is on the screen.
LEMMA SourceIs ==
  ASSUME NEW shape \in Shapes, Sensible(shape)
  PROVE  /\ SrcImage[shape].w = shape.crop.w /\ SrcImage[shape].h = shape.crop.h
         /\ shape.crop.w \in Nat /\ shape.crop.h \in Nat
         /\ SizeOk(SrcImage[shape], 0)
<1> DEFINE c == shape.crop
           fw == RoundUp(shape.w, 16)
           fh == RoundUp(shape.h, 16)
<1>1. c.x \in Int /\ c.y \in Int /\ c.w \in Nat /\ c.h \in Nat /\ shape.w \in Nat /\ shape.h \in Nat
  BY PlacesTyped DEF Shape, Rect
<1>2. fw \in Nat /\ fh \in Nat
  BY <1>1, Rounded
<1>3. SrcImage[shape] = [fw |-> fw, fh |-> fh, w |-> Least(c.w, fw - c.x), h |-> Least(c.h, fh - c.y)]
  BY DEF SrcImage
<1>4. c.w >= 64 /\ c.h >= 32 /\ c.x >= 0 /\ c.y >= 0 /\ c.x + c.w <= fw /\ c.y + c.h <= fh
  BY DEF Sensible, LargeEnough, InBuffer, MinW, MinH
<1> HIDE DEF c, fw, fh
<1>5. Least(c.w, fw - c.x) = c.w /\ Least(c.h, fh - c.y) = c.h /\ fw >= 64 /\ fh >= 32
  BY <1>1, <1>2, <1>4 DEF Least
<1>6. SrcImage[shape] = [fw |-> fw, fh |-> fh, w |-> c.w, h |-> c.h]
  BY <1>3, <1>5
<1>7. SizeOk(SrcImage[shape], 0)
  BY <1>4, <1>5, <1>6 DEF SizeOk, MinW, MinH
<1> QED BY <1>1, <1>6, <1>7 DEF c

\* The rectangle handed to the scaler: the layer's, with one side made even.
LEMMA DestinationIs ==
  ASSUME NEW shape \in Shapes, Fits[shape], Sensible(shape),
         NEW w, w.place = Place[shape]
  PROVE  LET f == shape.frame
             dst == DstImage(w, shape)
         IN /\ dst = [fw |-> RoundUp(Screen.w, 16), fh |-> RoundUp(Screen.h, 8), w |-> dst.w,
                      h |-> dst.h, rot |-> shape.transform]
            /\ f.w \in Nat /\ f.h \in Nat /\ dst.w \in Nat /\ dst.h \in Nat
            /\ dst.w >= 64 /\ dst.h >= 64 /\ dst.fw >= 64 /\ dst.fh >= 64
            /\ ~Bit(shape.transform, Rot90) /\ w.mode = "output" =>
                 dst.w = f.w + (f.w % 2) /\ dst.h = f.h
<1> DEFINE f == shape.frame
           fw == RoundUp(Screen.w, 16)
           fh == RoundUp(Screen.h, 8)
           at == IF w.mode = "output" THEN w.place ELSE NoPlace
           dst == DstImage(w, shape)
           dw == Least(RoundUp(f.w, 2), fw - at.x)
           dh == Least(RoundUp(f.h, 2), fh - at.y)
<1>1. f.x \in Int /\ f.y \in Int /\ f.w \in Nat /\ f.h \in Nat /\ Screen.w \in Nat /\ Screen.h \in Nat
  BY PlacesTyped, HwcAssumption DEF Shape, Rect
<1>2. /\ f.x >= 0 /\ f.x + f.w <= Screen.w /\ f.y >= 0 /\ f.y + f.h <= Screen.h
      /\ f.w >= 64 /\ f.h >= 64
  BY DEF Fits, Sensible, LargeEnough, MinW
<1>3. f.w % 2 = 0 \/ f.x + f.w < Screen.w
  BY DEF Sensible, CanRound
<1>4. w.place = [x |-> f.x, y |-> f.y, w |-> f.w, h |-> f.h]
  <2>1. Place[shape] = [x |-> IF f.x < 0 THEN 0 ELSE f.x, y |-> IF f.y < 0 THEN 0 ELSE f.y,
                        w |-> Clipped(f.x, f.w, Screen.w), h |-> Clipped(f.y, f.h, Screen.h)]
    BY DEF Place
  <2> HIDE DEF f
  <2>2. Clipped(f.x, f.w, Screen.w) = f.w /\ Clipped(f.y, f.h, Screen.h) = f.h
    BY <1>1, <1>2 DEF Clipped
  <2>3. ~(f.x < 0) /\ ~(f.y < 0)
    BY <1>1, <1>2
  <2> QED BY <2>1, <2>2, <2>3
<1>5. dst = IF Bit(shape.transform, Rot90)
            THEN [[fw |-> fw, fh |-> fh, w |-> w.place.w, h |-> w.place.h, rot |-> shape.transform]
                   EXCEPT !.h = Least(RoundUp(@, 2), fh - at.y)]
            ELSE [[fw |-> fw, fh |-> fh, w |-> w.place.w, h |-> w.place.h, rot |-> shape.transform]
                   EXCEPT !.w = Least(RoundUp(@, 2), fw - at.x)]
  BY DEF DstImage
<1>6. dst = IF Bit(shape.transform, Rot90)
            THEN [fw |-> fw, fh |-> fh, w |-> f.w, h |-> dh, rot |-> shape.transform]
            ELSE [fw |-> fw, fh |-> fh, w |-> dw, h |-> f.h, rot |-> shape.transform]
  <2>1. w.place.w = f.w /\ w.place.h = f.h
    BY <1>4
  <2> HIDE DEF f, fw, fh, at, dst
  <2> QED BY <1>5, <2>1
<1>7. fw \in Nat /\ fh \in Nat /\ fw >= Screen.w /\ fh >= Screen.h
      /\ RoundUp(f.w, 2) = f.w + (f.w % 2) /\ RoundUp(f.h, 2) = f.h + (f.h % 2)
  BY <1>1, Rounded
<1>8. at.x \in Nat /\ at.y \in Nat /\ at.x <= f.x /\ at.y <= f.y
      /\ (w.mode = "output" => at.x = f.x)
  <2>1. CASE w.mode = "output"
    BY <1>1, <1>2, <1>4, <2>1
  <2>2. CASE w.mode # "output"
    BY <1>1, <1>2, <2>2 DEF NoPlace
  <2> QED BY <2>1, <2>2
<1> HIDE DEF f, fw, fh, at, dst
<1>9. /\ dw \in Nat /\ dw >= 64 /\ dh \in Nat /\ dh >= 64 /\ fw >= 64 /\ fh >= 64
      /\ w.mode = "output" => dw = f.w + (f.w % 2)
  BY <1>1, <1>2, <1>3, <1>7, <1>8 DEF Least
<1> HIDE DEF dw, dh
<1>10. CASE Bit(shape.transform, Rot90)
  BY <1>1, <1>2, <1>6, <1>9, <1>10 DEF f, fw, fh, dst
<1>11. CASE ~Bit(shape.transform, Rot90)
  BY <1>1, <1>2, <1>6, <1>9, <1>11 DEF f, fw, fh, dst
<1> QED BY <1>10, <1>11

\* Output mode takes a layer that neither shrinks beyond the composer's ratio nor turns.
LEMMA OutputTakes ==
  ASSUME NEW shape \in Shapes, Fits[shape], Sensible(shape), ~NeedsMemory(shape),
         NEW w, w.place = Place[shape], w.mode = "output"
  PROVE  OutTakes(SrcImage[shape], DstImage(w, shape))
<1> DEFINE f == shape.frame
           c == shape.crop
           img == SrcImage[shape]
           dst == DstImage(w, shape)
           wide == Even(dst.w)
           fimd == [dst EXCEPT !.w = wide]
           down == OutDown(dst.fw, dst.fh)
<1>1. /\ img.w = c.w /\ img.h = c.h /\ c.w \in Nat /\ c.h \in Nat /\ SizeOk(img, 0)
  BY SourceIs
<1>2. ~Bit(shape.transform, Rot90) /\ Within(f, c, DownScale)
  BY DEF NeedsMemory
<1>3. Within(c, f, 8)
  BY <1>2 DEF Sensible, GrowsWithin
<1>4. /\ dst = [fw |-> RoundUp(Screen.w, 16), fh |-> RoundUp(Screen.h, 8), w |-> dst.w,
                h |-> dst.h, rot |-> shape.transform]
      /\ f.w \in Nat /\ f.h \in Nat /\ dst.w \in Nat /\ dst.h \in Nat
      /\ dst.w >= 64 /\ dst.h >= 64 /\ dst.fw >= 64 /\ dst.fh >= 64
      /\ dst.w = f.w + (f.w % 2) /\ dst.h = f.h
  BY <1>2, DestinationIs
<1>5. dst.rot = shape.transform /\ dst.fw = RoundUp(Screen.w, 16) /\ dst.fh = RoundUp(Screen.h, 8)
  BY <1>4
<1>6. wide = dst.w
  BY <1>4 DEF Even
<1>7. fimd.w = dst.w /\ fimd.h = dst.h /\ fimd.fw = dst.fw /\ fimd.fh = dst.fh
  <2>1. fimd = [fw |-> RoundUp(Screen.w, 16), fh |-> RoundUp(Screen.h, 8), w |-> wide,
                h |-> dst.h, rot |-> shape.transform]
    <3> HIDE DEF wide, dst
    <3> QED BY <1>4
  <2> HIDE DEF wide, dst, fimd
  <2> QED BY <1>5, <1>6, <2>1
<1>8. down = OutDown(RoundUp(Screen.w, 16), RoundUp(Screen.h, 8))
  BY <1>5
<1>9. DownScale = 1 \/ DownScale = down
  BY <1>8, RatiosAgree
<1>10. DownScale \in {1, 2, 3, 4}
  BY RatiosAgree
<1>11. Orientation(dst.rot).rotate \in {0, 180}
  <2>1. shape.transform \in 0 .. 7
    BY PlacesTyped DEF Shape
  <2> QED BY <1>2, <1>5, <2>1, Orientations
<1>12. SizeOk(fimd, Orientation(dst.rot).rotate)
  <2> DEFINE rotate == Orientation(dst.rot).rotate
  <2>1. fimd.w >= 64 /\ fimd.h >= 64 /\ fimd.fw >= 64 /\ fimd.fh >= 64
    BY <1>4, <1>7
  <2>2. dst.fw \in Nat /\ dst.fh \in Nat
    BY <1>5, Rounded, HwcAssumption
  <2>3. fimd.w \in Nat /\ fimd.h \in Nat /\ fimd.fw \in Nat /\ fimd.fh \in Nat
    BY <1>4, <1>7, <2>2
  <2>4. rotate \in {0, 180}
    BY <1>11
  <2> HIDE DEF fimd, dst, rotate
  <2>5. SizeOk(fimd, rotate)
    BY <2>1, <2>3, <2>4 DEF SizeOk, MinW, MinH
  <2> QED BY <2>5 DEF rotate
<1>13. RatioOk(img, fimd)
  <2>1. c.w * 8 >= f.w /\ c.h * 8 >= f.h
    BY <1>3 DEF Within
  <2>2. f.w * DownScale >= c.w /\ f.h * DownScale >= c.h
    BY <1>2 DEF Within
  <2> HIDE DEF img, fimd, dst, f, c, down
  <2>3. c.w * 8 >= dst.w /\ c.h * 8 >= dst.h
    BY <1>1, <1>4, <2>1
  <2>4. dst.w * DownScale >= c.w /\ dst.h * DownScale >= c.h
    <3>1. dst.w >= f.w
      BY <1>4
    <3>2. CASE DownScale = 1
      BY <1>1, <1>4, <2>2, <3>1, <3>2
    <3>3. CASE DownScale = 2
      BY <1>1, <1>4, <2>2, <3>1, <3>3
    <3>4. CASE DownScale = 3
      BY <1>1, <1>4, <2>2, <3>1, <3>4
    <3>5. CASE DownScale = 4
      BY <1>1, <1>4, <2>2, <3>1, <3>5
    <3> QED BY <1>10, <3>2, <3>3, <3>4, <3>5
  <2>5. Within(img, fimd, 8)
    BY <1>1, <1>7, <2>3 DEF Within
  <2>6. CASE DownScale = 1
    <3>1. ~Smaller(fimd, img)
      BY <1>1, <1>4, <1>7, <2>4, <2>6 DEF Smaller
    <3> QED BY <2>5, <3>1 DEF RatioOk
  <2>7. CASE DownScale = down
    <3>1. Within(fimd, img, down)
      BY <1>1, <1>7, <2>4, <2>7 DEF Within
    <3>2. down = OutDown(fimd.fw, fimd.fh)
      BY <1>7 DEF down
    <3> QED BY <2>5, <3>1, <3>2 DEF RatioOk
  <2> QED BY <1>9, <2>6, <2>7
<1> QED BY <1>1, <1>12, <1>13 DEF OutTakes

\* A granted layer is taken in memory-to-memory mode.
LEMMA MemoryTakes ==
  ASSUME NEW shape \in Shapes, Fits[shape], Sensible(shape),
         NEW w, w.place = Place[shape]
  PROVE  M2mTakes(SrcImage[shape], DstImage(w, shape))
<1> DEFINE dst == DstImage(w, shape)
           rotate == Orientation(dst.rot).rotate
<1>1. SizeOk(SrcImage[shape], 0)
  BY SourceIs
<1>2. /\ dst.w \in Nat /\ dst.h \in Nat
      /\ dst.w >= 64 /\ dst.h >= 64 /\ dst.fw >= 64 /\ dst.fh >= 64
  BY DestinationIs
<1>3. dst.fw \in Nat /\ dst.fh \in Nat /\ dst.rot = shape.transform
  <2>1. dst = [fw |-> RoundUp(Screen.w, 16), fh |-> RoundUp(Screen.h, 8), w |-> dst.w,
               h |-> dst.h, rot |-> shape.transform]
    BY DestinationIs
  <2>2. dst.fw = RoundUp(Screen.w, 16) /\ dst.fh = RoundUp(Screen.h, 8) /\ dst.rot = shape.transform
    <3> HIDE DEF dst
    <3> QED BY <2>1
  <2> QED BY <2>2, Rounded, HwcAssumption
<1>4. rotate \in {0, 90, 180, 270}
  <2>1. shape.transform \in 0 .. 7
    BY PlacesTyped DEF Shape
  <2> QED BY <1>3, <2>1, Orientations
<1>5. NormalRotation(rotate) = rotate
  <2> HIDE DEF rotate
  <2> QED BY <1>4 DEF NormalRotation
<1>6. SizeOk(dst, rotate)
  <2> HIDE DEF rotate, dst
  <2> QED BY <1>2, <1>3, <1>4 DEF SizeOk, MinW, MinH
<1> QED BY <1>1, <1>5, <1>6 DEF M2mTakes

\* A sensible layer that prepare took off the GPU's hands is taken by the scaler, on every
\* screen and in both modes: the composer's limits and tables imply the scaler's.
THEOREM OverlaysTaken == HwcSpec => []OverlayIsTaken
<1>1. HwcInv => OverlayIsTaken
  <2> SUFFICES ASSUME HwcInv, phase = "set", list # NoList, NEW i \in Wins, i < ctx.numHwc,
                      Sensible(list[win[i].layer].shape),
                      win[i].layer = First(Having(list, "yuv"))
               PROVE  LET w == win[i]
                          shape == list[w.layer].shape
                      IN IF w.mode = "output" THEN OutTakes(SrcImage[shape], DstImage(w, shape))
                         ELSE M2mTakes(SrcImage[shape], DstImage(w, shape))
    BY DEF OverlayIsTaken
  <2> DEFINE w == win[i]
             shape == list[w.layer].shape
  <2>1. i = 0 /\ ctx.numHwc = 1
    BY DEF HwcInv, Backed, Wins
  <2>2. Backs(w, w.layer, list, gsc)
    BY <2>1 DEF HwcInv, Backed
  <2>3. shape \in Shapes
    <3>1. list[w.layer] \in Layers
      BY <2>2 DEF HwcInv, HwcTypeOK, Backs
    <3> QED BY <3>1 DEF Layers
  <2>4. w.place = Place[shape] /\ Fits[shape] /\ w.mode = gsc.mode
        /\ (gsc.mode = "output" => ~NeedsMemory(shape))
    BY <2>2 DEF HwcInv, ModesAgree, Backs
  <2>5. w.mode = "output" => OutTakes(SrcImage[shape], DstImage(w, shape))
    <3> HIDE DEF w, shape
    <3> QED BY <2>3, <2>4, OutputTakes DEF w, shape
  <2>6. M2mTakes(SrcImage[shape], DstImage(w, shape))
    BY <2>3, <2>4, MemoryTakes
  <2> QED BY <2>5, <2>6
<1> QED BY <1>1, HwcInvariant, PTL
=============================================================================
