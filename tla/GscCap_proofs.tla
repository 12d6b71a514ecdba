---------------------------- MODULE GscCap_proofs ----------------------------
(***************************************************************************)
(* Proofs about GscCap for every set of buffer counts callers ask for and  *)
(* every choice of driver calls that may fail.                             *)
(***************************************************************************)
EXTENDS GscCap, TLAPS

USE CountsAssumption, MaxFbsAssumption, FaultsAssumption

Queues == [on : BOOLEAN, count : Nat, fifo : Seq(Nat), ndone : Nat]

\* The variables have the values their fields may take.
TypeOK ==
  /\ live \in BOOLEAN
  /\ dst \in [stream_on : BOOLEAN, buf_idx : Nat, req : Nat]
  /\ cq \in Queues
  /\ cq.ndone <= Len(cq.fifo)
  /\ call \in {"none", "poll"}

\* Only the holder of a handle waits on it, and a driver that has buffers got them from
\* a configuration that asked for some: no division by zero.
WaitsLive == call = "poll" => live
AskedFirst == cq.count > 0 => dst.req > 0

\* While the driver does not stream, what it holds are the first indices, and buf_idx
\* is not beyond the index after them, whatever reqBufCnt a failed configuration left.
QueuedFromZero ==
  ~cq.on => /\ cq.ndone = 0
            /\ \A k \in 1 .. Len(cq.fifo) : cq.fifo[k] = k - 1
            /\ dst.buf_idx <= Len(cq.fifo)

Congruent(a, b, r) == \E m \in Int : a = b + m * r

\* While the stream runs, the driver holds, modulo reqBufCnt, the indices just before
\* buf_idx, oldest first.  A start whose vsync interrupt is refused leaves buf_idx at
\* reqBufCnt, and a driver that an earlier configuration gave more buffers takes that
\* index once in the place of 0.
RingOrder ==
  dst.stream_on =>
    /\ live /\ cq.on
    /\ 0 < dst.req /\ dst.req <= cq.count
    /\ \A k \in 1 .. Len(cq.fifo) :
         Congruent(cq.fifo[k], dst.buf_idx - (Len(cq.fifo) + 1 - k), dst.req)

\* The inductive invariant.
IInv == TypeOK /\ WaitsLive /\ AskedFirst /\ QueuedFromZero /\ RingOrder
-----------------------------------------------------------------------------
(* Congruence. *)

\* Two congruent numbers, moved alike.
LEMMA CongruentMoved ==
  ASSUME NEW a \in Int, NEW b \in Int, NEW d \in Int, NEW e \in Int, NEW f \in Int, NEW r \in Int,
         Congruent(a, b, r), Congruent(e, f, r), d - b = e - f
  PROVE  Congruent(a, d, r)
<1>1. PICK n \in Int : a = b + n * r
  BY DEF Congruent
<1>2. PICK m \in Int : e = f + m * r
  BY DEF Congruent
<1>3. n * r \in Int /\ m * r \in Int /\ (n - m) * r = n * r - m * r
  OBVIOUS
<1>4. a = d + (n - m) * r
  <2> DEFINE p == n * r
             q == m * r
  <2>1. p \in Int /\ q \in Int /\ a = b + p /\ e = f + q /\ (n - m) * r = p - q
    BY <1>1, <1>2, <1>3
  <2> HIDE DEF p, q
  <2>2. a = d + (p - q)
    BY <2>1
  <2> QED BY <2>1, <2>2
<1>5. n - m \in Int
  OBVIOUS
<1> QED BY <1>4, <1>5 DEF Congruent

LEMMA CongruentSelf == ASSUME NEW a \in Int, NEW r \in Int PROVE Congruent(a, a, r)
<1>1. a = a + 0 * r
  OBVIOUS
<1> QED BY <1>1 DEF Congruent

\* The remainder is congruent.
LEMMA RemainderCongruent ==
  ASSUME NEW a \in Nat, NEW r \in Nat, r > 0
  PROVE  a % r \in Nat /\ a % r <= a /\ Congruent(a % r, a, r)
<1>1. /\ a % r = a - r * (a \div r) /\ a \div r \in Int /\ a % r \in Nat
      /\ a % r <= a
  OBVIOUS
<1>2. a % r = a + (0 - (a \div r)) * r
  BY <1>1
<1> QED BY <1>1, <1>2 DEF Congruent

\* Two numbers that differ by less than r, and are congruent, are equal.
LEMMA CongruentFar ==
  ASSUME NEW a \in Int, NEW d \in Nat, NEW r \in Nat, r > 0, d > 0, Congruent(a, a - d, r)
  PROVE  d >= r
<1>1. PICK m \in Int : a = a - d + m * r
  BY DEF Congruent
<1>2. d = m * r
  BY <1>1
<1>3. m >= 1
  BY <1>2
<1>4. m * r >= r
  BY <1>3
<1> QED BY <1>2, <1>4
-----------------------------------------------------------------------------
(* The driver's operations. *)

LEMMA FreshValue ==
  Fresh \in Queues /\ Fresh.on = FALSE /\ Fresh.fifo = <<>> /\ Fresh.ndone = 0 /\ Fresh.count = 0
  /\ Len(Fresh.fifo) = 0
BY DEF Fresh, Queues

LEMMA ReqbufsValue ==
  ASSUME NEW q \in Queues, NEW n \in Nat
  PROVE  LET r == Reqbufs(q, n) IN
         /\ r \in Queues /\ r.fifo = <<>> /\ Len(r.fifo) = 0 /\ r.ndone = 0
         /\ r.on = q.on /\ r.count = n
BY DEF Queues, Reqbufs

LEMMA StreamoffValue ==
  ASSUME NEW q \in Queues
  PROVE  LET r == Streamoff(q) IN
         /\ r \in Queues /\ r.fifo = <<>> /\ Len(r.fifo) = 0 /\ r.ndone = 0
         /\ r.on = FALSE /\ r.count = q.count
BY DEF Queues, Streamoff

LEMMA QbufValue ==
  ASSUME NEW q \in Queues, NEW i \in Nat
  PROVE  LET r == Qbuf(q, i) IN
         /\ r \in Queues /\ r.fifo = Append(q.fifo, i) /\ Len(r.fifo) = Len(q.fifo) + 1
         /\ r.ndone = q.ndone /\ r.on = q.on /\ r.count = q.count
         /\ \A k \in 1 .. Len(q.fifo) : r.fifo[k] = q.fifo[k]
         /\ r.fifo[Len(q.fifo) + 1] = i
<1>1. q.fifo \in Seq(Nat)
  BY DEF Queues
<1>2. /\ Len(Append(q.fifo, i)) = Len(q.fifo) + 1
      /\ \A k \in 1 .. Len(q.fifo) : Append(q.fifo, i)[k] = q.fifo[k]
      /\ Append(q.fifo, i)[Len(q.fifo) + 1] = i
      /\ Append(q.fifo, i) \in Seq(Nat)
  BY <1>1
<1> QED BY <1>2 DEF Queues, Qbuf

LEMMA StreamonValue ==
  ASSUME NEW q \in Queues
  PROVE  LET r == Streamon(q) IN
         /\ r \in Queues /\ r.fifo = q.fifo /\ r.ndone = q.ndone
         /\ r.on = TRUE /\ r.count = q.count
BY DEF Queues, Streamon

LEMMA DqbufValue ==
  ASSUME NEW q \in Queues, CanDqbuf(q), q.ndone <= Len(q.fifo)
  PROVE  LET r == Dqbuf(q) IN
         /\ r \in Queues /\ r.fifo = Tail(q.fifo) /\ Len(r.fifo) = Len(q.fifo) - 1
         /\ Len(q.fifo) > 0
         /\ r.ndone = q.ndone - 1 /\ r.on = q.on /\ r.count = q.count
         /\ \A k \in 1 .. Len(q.fifo) - 1 : r.fifo[k] = q.fifo[k + 1]
<1>1. q.fifo \in Seq(Nat) /\ q.ndone \in Nat /\ q.ndone > 0 /\ Len(q.fifo) > 0
  BY DEF Queues, CanDqbuf
<1>2. /\ Tail(q.fifo) \in Seq(Nat) /\ Len(Tail(q.fifo)) = Len(q.fifo) - 1
      /\ \A k \in 1 .. Len(q.fifo) - 1 : Tail(q.fifo)[k] = q.fifo[k + 1]
  BY <1>1
<1> QED BY <1>1, <1>2 DEF Queues, Dqbuf
-----------------------------------------------------------------------------
\* An empty, stopped queue under a handle whose flag is down.
LEMMA RestInv ==
  ASSUME TypeOK', WaitsLive', AskedFirst', dst'.stream_on = FALSE,
         cq'.on => cq.on, cq'.fifo = <<>>, cq'.ndone = 0, dst'.buf_idx = 0
  PROVE  IInv'
BY DEF IInv, QueuedFromZero, RingOrder

\* The flag is lowered, the ring starts over; the queue may be any.
LEMMA ForgetInv ==
  ASSUME IInv, TypeOK', WaitsLive', AskedFirst', dst'.stream_on = FALSE, dst'.buf_idx = 0,
         cq' = cq
  PROVE  IInv'
<1>1. Len(cq.fifo) \in Nat
  BY DEF IInv, TypeOK, Queues
<1> QED BY <1>1 DEF IInv, QueuedFromZero, RingOrder

LEMMA InitInv == Init => IInv
<1> SUFFICES ASSUME Init PROVE IInv
  OBVIOUS
<1>1. cq = Fresh /\ dst = ZeroDst /\ live = FALSE /\ call = "none"
  BY DEF Init
<1>2. dst \in [stream_on : BOOLEAN, buf_idx : Nat, req : Nat]
      /\ dst.stream_on = FALSE /\ dst.buf_idx = 0
  BY <1>1 DEF ZeroDst
<1>3. cq \in Queues /\ cq.ndone <= Len(cq.fifo)
  BY <1>1, FreshValue
<1>4. TypeOK
  BY <1>1, <1>2, <1>3 DEF TypeOK
<1> QED
  BY <1>1, <1>2, <1>4, FreshValue DEF IInv, WaitsLive, AskedFirst, QueuedFromZero, RingOrder

LEMMA HandleInv == ASSUME IInv, Create \/ Destroy PROVE IInv'
<1>1. cq' = Fresh /\ dst' = ZeroDst /\ live' \in BOOLEAN /\ call' = call
  BY DEF Create, Destroy
<1>2. dst' \in [stream_on : BOOLEAN, buf_idx : Nat, req : Nat]
      /\ dst'.stream_on = FALSE /\ dst'.buf_idx = 0
  BY <1>1 DEF ZeroDst
<1>3. TypeOK'
  BY <1>1, <1>2, FreshValue DEF IInv, TypeOK
<1>4. WaitsLive'
  BY <1>1 DEF Create, Destroy, Idle, IInv, WaitsLive
<1> QED
  BY <1>1, <1>2, <1>3, <1>4, FreshValue DEF IInv, AskedFirst, QueuedFromZero, RingOrder

LEMMA ConfigInv == ASSUME IInv, NEW n \in Counts, Config(n) PROVE IInv'
<1>1. live' = live /\ call' = call /\ live /\ call = "none" /\ n \in Nat /\ n > 0
  BY DEF Config, Idle
<1>2. dst \in [stream_on : BOOLEAN, buf_idx : Nat, req : Nat] /\ cq \in Queues
      /\ Len(cq.fifo) \in Nat
  BY DEF IInv, TypeOK, Queues
<1>3. WaitsLive'
  BY <1>1 DEF WaitsLive
<1>4. CASE dst' = dst /\ cq' = cq
  <2>1. UNCHANGED <<live, call, dst, cq>>
    BY <1>1, <1>4
  <2> QED BY <2>1 DEF IInv, TypeOK, WaitsLive, AskedFirst, QueuedFromZero, RingOrder
<1>5. CASE ~dst.stream_on /\ dst' = [dst EXCEPT !.req = n] /\ cq' = cq
  <2>1. /\ dst' \in [stream_on : BOOLEAN, buf_idx : Nat, req : Nat]
        /\ dst'.stream_on = FALSE /\ dst'.buf_idx = dst.buf_idx /\ dst'.req = n
    BY <1>1, <1>2, <1>5
  <2> QED
    BY <1>1, <1>3, <1>5, <2>1 DEF IInv, TypeOK, AskedFirst, QueuedFromZero, RingOrder
<1>6. CASE ~dst.stream_on /\ dst' = [dst EXCEPT !.req = n, !.buf_idx = 0]
           /\ \/ cq' = cq
              \/ CanReqbufs(cq) /\ cq' = Reqbufs(cq, n)
  <2>1. /\ dst' \in [stream_on : BOOLEAN, buf_idx : Nat, req : Nat]
        /\ dst'.stream_on = FALSE /\ dst'.buf_idx = 0 /\ dst'.req = n
    BY <1>1, <1>2, <1>6
  <2>2. AskedFirst'
    BY <1>1, <2>1 DEF AskedFirst
  <2>3. CASE cq' = cq
    <3>1. TypeOK'
      BY <1>1, <2>1, <2>3 DEF IInv, TypeOK
    <3> QED BY <1>3, <2>1, <2>2, <2>3, <3>1, ForgetInv
  <2>4. CASE cq' = Reqbufs(cq, n)
    <3>1. cq' \in Queues /\ cq'.fifo = <<>> /\ Len(cq'.fifo) = 0 /\ cq'.ndone = 0 /\ cq'.on = cq.on
      BY <1>1, <1>2, <2>4, ReqbufsValue
    <3>2. TypeOK'
      BY <1>1, <2>1, <3>1 DEF IInv, TypeOK
    <3> QED BY <1>3, <2>1, <2>2, <3>1, <3>2, RestInv
  <2> QED BY <1>6, <2>3, <2>4
<1>7. CASE dst.stream_on
  BY <1>4, <1>7 DEF Config
<1>8. CASE ~dst.stream_on
  <2>1. \/ dst' = [dst EXCEPT !.req = n] /\ cq' = cq
        \/ dst' = [dst EXCEPT !.req = n, !.buf_idx = 0] /\ cq' = cq
        \/ dst' = [dst EXCEPT !.req = n, !.buf_idx = 0] /\ CanReqbufs(cq) /\ cq' = Reqbufs(cq, n)
    BY <1>8 DEF Config
  <2>2. CASE dst' = [dst EXCEPT !.req = n] /\ cq' = cq
    BY <1>5, <1>8, <2>2
  <2>3. CASE dst' = [dst EXCEPT !.req = n, !.buf_idx = 0] /\ cq' = cq
    BY <1>6, <1>8, <2>3
  <2>4. CASE dst' = [dst EXCEPT !.req = n, !.buf_idx = 0] /\ CanReqbufs(cq) /\ cq' = Reqbufs(cq, n)
    BY <1>6, <1>8, <2>4
  <2> QED BY <2>1, <2>2, <2>3, <2>4
<1> QED BY <1>7, <1>8
-----------------------------------------------------------------------------
(* Run. *)

\* Behind a stopped queue only the next free index can be queued.
LEMMA QbufStopped ==
  ASSUME IInv, ~cq.on, CanQbuf(cq, dst.buf_idx)
  PROVE  LET q == Qbuf(cq, dst.buf_idx) IN
         /\ Len(cq.fifo) = dst.buf_idx
         /\ Len(q.fifo) = dst.buf_idx + 1
         /\ \A k \in 1 .. dst.buf_idx + 1 : q.fifo[k] = k - 1
<1> DEFINE i == dst.buf_idx
<1>1. cq \in Queues /\ cq.fifo \in Seq(Nat) /\ i \in Nat /\ Len(cq.fifo) \in Nat
  BY DEF IInv, TypeOK, Queues
<1>2. (\A k \in 1 .. Len(cq.fifo) : cq.fifo[k] = k - 1) /\ i <= Len(cq.fifo)
  BY DEF IInv, QueuedFromZero
<1>3. Len(cq.fifo) = i
  <2> SUFFICES ASSUME i < Len(cq.fifo) PROVE FALSE
    BY <1>1, <1>2
  <2>1. i + 1 \in 1 .. Len(cq.fifo) /\ cq.fifo[i + 1] = i
    BY <1>1, <1>2
  <2>2. i + 1 \in DOMAIN cq.fifo
    BY <1>1, <2>1
  <2> QED BY <2>1, <2>2 DEF CanQbuf, Outstanding
<1>4. LET q == Qbuf(cq, i) IN
      /\ Len(q.fifo) = i + 1 /\ q.fifo[i + 1] = i
      /\ \A k \in 1 .. i : q.fifo[k] = cq.fifo[k]
  BY <1>1, <1>3, QbufValue
<1>5. ASSUME NEW k \in 1 .. i + 1 PROVE Qbuf(cq, i).fifo[k] = k - 1
  <2>1. CASE k = i + 1
    BY <1>1, <1>4, <2>1
  <2>2. CASE k \in 1 .. i
    BY <1>2, <1>3, <1>4, <2>2
  <2> QED BY <1>1, <2>1, <2>2
<1> QED BY <1>3, <1>4, <1>5

\* One index more keeps the order, whatever remainder buf_idx goes on to.
LEMMA QbufRunning ==
  ASSUME IInv, dst.stream_on, CanQbuf(cq, dst.buf_idx), NEW j \in Nat,
         Congruent(j, dst.buf_idx + 1, dst.req)
  PROVE  LET f == Qbuf(cq, dst.buf_idx).fifo IN
         \A k \in 1 .. Len(f) : Congruent(f[k], j - (Len(f) + 1 - k), dst.req)
<1> DEFINE i == dst.buf_idx
           r == dst.req
           f == Qbuf(cq, i).fifo
           l == Len(cq.fifo)
<1>1. cq \in Queues /\ cq.fifo \in Seq(Nat) /\ i \in Nat /\ r \in Nat /\ l \in Nat
      /\ \A k \in 1 .. l : cq.fifo[k] \in Nat
  BY DEF IInv, TypeOK, Queues
<1>2. \A k \in 1 .. l : Congruent(cq.fifo[k], i - (l + 1 - k), r)
  BY DEF IInv, RingOrder
<1>3. Len(f) = l + 1 /\ f[l + 1] = i /\ \A k \in 1 .. l : f[k] = cq.fifo[k]
  BY <1>1, QbufValue
<1>4. Congruent(j, i + 1, r)
  OBVIOUS
<1> HIDE DEF f, i, r, l
<1>5. ASSUME NEW k \in 1 .. l + 1 PROVE Congruent(f[k], j - (l + 2 - k), r)
  <2>1. CASE k = l + 1
    <3>1. Congruent(i, i, r)
      BY <1>1, CongruentSelf
    <3>2. j - 1 \in Int /\ i + 1 \in Int /\ (j - 1) - i = j - (i + 1)
      BY <1>1
    <3>3. Congruent(i, j - 1, r)
      BY <1>1, <1>4, <3>1, <3>2, CongruentMoved
    <3>4. l + 2 - k = 1
      BY <1>1, <2>1
    <3> QED BY <1>3, <2>1, <3>3, <3>4
  <2>2. CASE k \in 1 .. l
    <3> DEFINE b == i - (l + 1 - k)
               d == j - (l + 2 - k)
               a == cq.fifo[k]
               g == i + 1
    <3>1. b \in Int /\ d \in Int /\ a \in Int /\ g \in Int /\ j \in Int /\ r \in Int
          /\ d - b = j - g /\ Congruent(j, g, r)
      BY <1>1, <1>4, <2>2
    <3>2. Congruent(a, b, r)
      BY <1>2, <2>2
    <3> HIDE DEF b, d, a, g
    <3>3. Congruent(a, d, r)
      BY <3>1, <3>2, CongruentMoved
    <3> QED BY <1>3, <2>2, <3>3 DEF d, a
  <2> QED BY <1>1, <2>1, <2>2
<1>6. \A k \in 1 .. l + 1 : (l + 1) + 1 - k = l + 2 - k
  BY <1>1
<1>7. \A k \in 1 .. Len(f) : Congruent(f[k], j - (Len(f) + 1 - k), r)
  BY <1>1, <1>3, <1>5, <1>6
<1> QED BY <1>7 DEF f, i, r

\* Where buf_idx goes.
LEMMA WrapValue ==
  ASSUME NEW i \in Nat, dst.req \in Nat, dst.req > 0
  PROVE  Wrap(i) \in Nat /\ Wrap(i) <= i /\ Congruent(Wrap(i), i, dst.req)
BY RemainderCongruent DEF Wrap

LEMMA RunQueuesInv == ASSUME IInv, RunQueues, UNCHANGED <<live, call>> PROVE IInv'
<1> DEFINE i == dst.buf_idx
<1>1. dst \in [stream_on : BOOLEAN, buf_idx : Nat, req : Nat] /\ cq \in Queues /\ i \in Nat
      /\ dst.req \in Nat /\ Len(cq.fifo) \in Nat /\ cq.count \in Nat
      /\ cq.ndone <= Len(cq.fifo) /\ cq.ndone \in Nat
  BY DEF IInv, TypeOK, Queues
<1>2. CanQbuf(cq, i) /\ dst' = [dst EXCEPT !.buf_idx = Wrap(i + 1)] /\ cq' = Qbuf(cq, i)
  BY DEF RunQueues
<1>3. dst.req > 0
  BY <1>1, <1>2 DEF CanQbuf, IInv, AskedFirst
<1>4. Wrap(i + 1) \in Nat /\ Wrap(i + 1) <= i + 1 /\ Congruent(Wrap(i + 1), i + 1, dst.req)
  <2>1. i + 1 \in Nat
    BY <1>1
  <2> QED BY <1>1, <1>3, <2>1, WrapValue
<1>6. /\ dst' \in [stream_on : BOOLEAN, buf_idx : Nat, req : Nat]
      /\ dst'.stream_on = dst.stream_on /\ dst'.req = dst.req /\ dst'.buf_idx = Wrap(i + 1)
  BY <1>1, <1>2, <1>4
<1>7. /\ cq' \in Queues /\ Len(cq'.fifo) = Len(cq.fifo) + 1 /\ cq'.ndone = cq.ndone
      /\ cq'.on = cq.on /\ cq'.count = cq.count
  BY <1>1, <1>2, QbufValue
<1>8. TypeOK' /\ WaitsLive' /\ AskedFirst'
  BY <1>1, <1>6, <1>7 DEF IInv, TypeOK, WaitsLive, AskedFirst
<1>9. QueuedFromZero'
  <2> SUFFICES ASSUME ~cq.on PROVE QueuedFromZero'
    BY <1>7 DEF QueuedFromZero
  <2>1. /\ Len(cq'.fifo) = i + 1
        /\ \A k \in 1 .. i + 1 : cq'.fifo[k] = k - 1
    BY <1>2, QbufStopped
  <2>2. cq'.ndone = 0
    BY <1>7 DEF IInv, QueuedFromZero
  <2> QED BY <1>4, <1>6, <2>1, <2>2 DEF QueuedFromZero
<1>10. RingOrder'
  <2> SUFFICES ASSUME dst.stream_on PROVE RingOrder'
    BY <1>6 DEF RingOrder
  <2>1. \A k \in 1 .. Len(cq'.fifo) :
          Congruent(cq'.fifo[k], Wrap(i + 1) - (Len(cq'.fifo) + 1 - k), dst.req)
    BY <1>2, <1>4, QbufRunning
  <2> QED BY <1>6, <1>7, <2>1 DEF IInv, RingOrder
<1> QED BY <1>8, <1>9, <1>10 DEF IInv

\* The stream starts, with or without its vsync interrupt: the driver holds exactly the
\* indices below reqBufCnt.
LEMMA RunBeginsInv == ASSUME IInv, RunStarts \/ RunVsyncFails, UNCHANGED <<live, call>>, live PROVE IInv'
<1> DEFINE i == dst.buf_idx
           r == dst.req
<1>1. dst \in [stream_on : BOOLEAN, buf_idx : Nat, req : Nat] /\ cq \in Queues /\ i \in Nat
      /\ r \in Nat /\ Len(cq.fifo) \in Nat /\ cq.count \in Nat
      /\ cq.ndone <= Len(cq.fifo) /\ cq.ndone \in Nat
  BY DEF IInv, TypeOK, Queues
<1>2. /\ CanQbuf(cq, i) /\ ~cq.on /\ i + 1 = r /\ cq' = Streamon(Qbuf(cq, i))
      /\ dst' \in {[dst EXCEPT !.stream_on = TRUE, !.buf_idx = Wrap(i + 1)],
                   [dst EXCEPT !.stream_on = TRUE, !.buf_idx = i + 1]}
  BY DEF RunStarts, RunVsyncFails, StartsNow, CanStreamon
<1>3. r > 0 /\ r <= cq.count
  BY <1>1, <1>2 DEF CanQbuf
<1>4. /\ dst' \in [stream_on : BOOLEAN, buf_idx : Nat, req : Nat]
      /\ dst'.stream_on = TRUE /\ dst'.req = r
      /\ dst'.buf_idx \in Nat /\ Congruent(dst'.buf_idx, r, r)
  <2>1. Wrap(r) \in Nat /\ Congruent(Wrap(r), r, r) /\ Congruent(r, r, r)
    BY <1>1, <1>3, WrapValue, CongruentSelf
  <2>2. CASE dst' = [dst EXCEPT !.stream_on = TRUE, !.buf_idx = Wrap(i + 1)]
    <3>1. dst' = [dst EXCEPT !.stream_on = TRUE, !.buf_idx = Wrap(r)]
      BY <1>2, <2>2
    <3>2. dst'.stream_on = TRUE /\ dst'.req = r /\ dst'.buf_idx = Wrap(r)
      BY <1>1, <3>1
    <3> QED BY <1>1, <2>1, <3>1, <3>2
  <2>3. CASE dst' = [dst EXCEPT !.stream_on = TRUE, !.buf_idx = i + 1]
    <3>1. dst' = [dst EXCEPT !.stream_on = TRUE, !.buf_idx = r]
      BY <1>2, <2>3
    <3>2. dst'.stream_on = TRUE /\ dst'.req = r /\ dst'.buf_idx = r
      BY <1>1, <3>1
    <3> QED BY <1>1, <2>1, <3>1, <3>2
  <2> QED BY <1>2, <2>2, <2>3
<1>5. /\ Qbuf(cq, i) \in Queues /\ Len(Qbuf(cq, i).fifo) = r
      /\ \A k \in 1 .. r : Qbuf(cq, i).fifo[k] = k - 1
      /\ Qbuf(cq, i).ndone = cq.ndone /\ Qbuf(cq, i).count = cq.count
      /\ Len(cq.fifo) = i
  BY <1>1, <1>2, QbufValue, QbufStopped
<1>6. /\ cq' \in Queues /\ cq'.on = TRUE /\ Len(cq'.fifo) = r
      /\ cq'.ndone = cq.ndone /\ cq'.count = cq.count
      /\ \A k \in 1 .. r : cq'.fifo[k] = k - 1
  BY <1>2, <1>5, StreamonValue
<1>7. TypeOK' /\ WaitsLive' /\ AskedFirst'
  BY <1>1, <1>2, <1>4, <1>5, <1>6 DEF IInv, TypeOK, WaitsLive, AskedFirst
<1>8. ASSUME NEW k \in 1 .. r
      PROVE  Congruent(k - 1, dst'.buf_idx - (r + 1 - k), r)
  <2> DEFINE d == dst'.buf_idx - (r + 1 - k)
             e == dst'.buf_idx
             a == k - 1
  <2>1. a \in Int /\ d \in Int /\ e \in Int /\ r \in Int /\ d - a = e - r
    BY <1>1, <1>4
  <2>2. Congruent(e, r, r)
    BY <1>4
  <2> HIDE DEF d, e, a, r
  <2>3. Congruent(a, a, r)
    BY <2>1, CongruentSelf
  <2>4. Congruent(a, d, r)
    BY <2>1, <2>2, <2>3, CongruentMoved
  <2> QED BY <2>4 DEF a, d
<1>9. RingOrder'
  BY <1>3, <1>4, <1>6, <1>8 DEF RingOrder
<1> QED BY <1>6, <1>7, <1>9 DEF IInv, QueuedFromZero

LEMMA RunStartFailsInv == ASSUME IInv, RunStartFails, UNCHANGED <<live, call>> PROVE IInv'
<1> DEFINE i == dst.buf_idx
<1>1. dst \in [stream_on : BOOLEAN, buf_idx : Nat, req : Nat] /\ cq \in Queues /\ i \in Nat
      /\ Len(cq.fifo) \in Nat /\ cq.ndone <= Len(cq.fifo) /\ cq.ndone \in Nat
  BY DEF IInv, TypeOK, Queues
<1>2. CanQbuf(cq, i) /\ ~dst.stream_on /\ dst' = [dst EXCEPT !.buf_idx = i + 1] /\ cq' = Qbuf(cq, i)
  BY DEF RunStartFails, StartsNow
<1>3. /\ dst' \in [stream_on : BOOLEAN, buf_idx : Nat, req : Nat]
      /\ dst'.stream_on = FALSE /\ dst'.req = dst.req /\ dst'.buf_idx = i + 1
  BY <1>1, <1>2
<1>4. /\ cq' \in Queues /\ Len(cq'.fifo) = Len(cq.fifo) + 1 /\ cq'.ndone = cq.ndone
      /\ cq'.on = cq.on /\ cq'.count = cq.count
  BY <1>1, <1>2, QbufValue
<1>5. TypeOK' /\ WaitsLive' /\ AskedFirst'
  BY <1>1, <1>3, <1>4 DEF IInv, TypeOK, WaitsLive, AskedFirst
<1>6. QueuedFromZero'
  <2> SUFFICES ASSUME ~cq.on PROVE QueuedFromZero'
    BY <1>4 DEF QueuedFromZero
  <2>1. /\ Len(cq'.fifo) = i + 1
        /\ \A k \in 1 .. i + 1 : cq'.fifo[k] = k - 1
    BY <1>2, QbufStopped
  <2>2. cq'.ndone = 0
    BY <1>4 DEF IInv, QueuedFromZero
  <2> QED BY <1>1, <1>3, <2>1, <2>2 DEF QueuedFromZero
<1> QED BY <1>3, <1>5, <1>6 DEF IInv, RingOrder

LEMMA RunInv == ASSUME IInv, Run PROVE IInv'
<1>1. UNCHANGED <<live, call>> /\ live
  BY DEF Run, Idle
<1>2. CASE RunRefused
  BY <1>1, <1>2 DEF RunRefused, IInv, TypeOK, WaitsLive, AskedFirst, QueuedFromZero, RingOrder
<1> QED
  BY <1>1, <1>2, RunQueuesInv, RunBeginsInv, RunStartFailsInv DEF Run
-----------------------------------------------------------------------------
(* The other calls, and the hardware. *)

\* The oldest index goes: the others are as far behind buf_idx as before.
LEMMA WaitReturnsInv == ASSUME IInv, WaitReturns PROVE IInv'
<1>1. UNCHANGED <<live, dst>> /\ CanDqbuf(cq) /\ call' = "none"
  BY DEF WaitReturns, WaitEnds
<1>2. cq \in Queues /\ cq.fifo \in Seq(Nat) /\ Len(cq.fifo) \in Nat /\ cq.ndone \in Nat
      /\ cq.ndone <= Len(cq.fifo) /\ dst \in [stream_on : BOOLEAN, buf_idx : Nat, req : Nat]
      /\ live \in BOOLEAN /\ cq.on
  BY <1>1 DEF IInv, TypeOK, Queues, CanDqbuf
<1>3. CASE cq' = cq
  BY <1>1, <1>3 DEF IInv, TypeOK, WaitsLive, AskedFirst, QueuedFromZero, RingOrder
<1>4. CASE cq' = Dqbuf(cq)
  <2> DEFINE l == Len(cq.fifo)
  <2>1. /\ cq' \in Queues /\ Len(cq'.fifo) = l - 1 /\ l > 0
        /\ cq'.ndone = cq.ndone - 1 /\ cq'.on = cq.on /\ cq'.count = cq.count
        /\ \A k \in 1 .. l - 1 : cq'.fifo[k] = cq.fifo[k + 1]
    BY <1>1, <1>2, <1>4, DqbufValue
  <2>2. cq'.ndone <= Len(cq'.fifo)
    BY <1>2, <2>1
  <2>3. TypeOK' /\ WaitsLive' /\ AskedFirst'
    BY <1>1, <1>2, <2>1, <2>2 DEF IInv, TypeOK, WaitsLive, AskedFirst
  <2>4. ASSUME dst.stream_on, NEW k \in 1 .. l - 1
        PROVE  Congruent(cq'.fifo[k], dst.buf_idx - ((l - 1) + 1 - k), dst.req)
    <3>1. k + 1 \in 1 .. l /\ (l + 1) - (k + 1) = (l - 1) + 1 - k
      BY <1>2
    <3>2. Congruent(cq.fifo[k + 1], dst.buf_idx - ((l + 1) - (k + 1)), dst.req)
      BY <2>4, <3>1 DEF IInv, RingOrder
    <3> QED BY <2>1, <3>1, <3>2
  <2>5. RingOrder'
    BY <1>1, <2>1, <2>4 DEF IInv, RingOrder
  <2> QED BY <1>2, <2>1, <2>3, <2>5 DEF IInv, QueuedFromZero
<1> QED BY <1>3, <1>4 DEF WaitReturns

LEMMA WaitInv == ASSUME IInv, Wait \/ WaitTimesOut PROVE IInv'
<1>1. UNCHANGED <<live, dst, cq>> /\ call' \in {"none", "poll"} /\ (call' = "poll" => live)
  BY DEF Wait, WaitTimesOut, WaitEnds, Idle
<1> QED BY <1>1 DEF IInv, TypeOK, WaitsLive, AskedFirst, QueuedFromZero, RingOrder

\* What a stop leaves of the queue: as it was, or empty and stopped.
LEMMA StopLeaves ==
  ASSUME IInv, Stop \/ JustStop
  PROVE  /\ UNCHANGED <<live, call>>
         /\ dst' \in [stream_on : BOOLEAN, buf_idx : Nat, req : Nat]
         /\ dst'.stream_on = FALSE /\ dst'.buf_idx = 0 /\ dst'.req = dst.req
         /\ \/ cq' = cq
            \/ /\ cq' \in Queues /\ cq'.on = FALSE /\ cq'.fifo = <<>> /\ Len(cq'.fifo) = 0
               /\ cq'.ndone = 0 /\ cq'.count \in {0, cq.count}
<1>1. dst \in [stream_on : BOOLEAN, buf_idx : Nat, req : Nat] /\ cq \in Queues
  BY DEF IInv, TypeOK
<1>2. UNCHANGED <<live, call>> /\ dst' = [dst EXCEPT !.stream_on = FALSE, !.buf_idx = 0]
  BY DEF Stop, JustStop, Forgotten
<1>3. /\ dst' \in [stream_on : BOOLEAN, buf_idx : Nat, req : Nat]
      /\ dst'.stream_on = FALSE /\ dst'.buf_idx = 0 /\ dst'.req = dst.req
  BY <1>1, <1>2
<1>4. \/ cq' = cq
      \/ ~cq.on /\ cq' = Reqbufs(cq, 0)
      \/ cq' = Streamoff(cq)
      \/ cq' = Reqbufs(Streamoff(cq), 0)
  BY DEF Stop, StopSkips, StopStreams, JustStop, CanReqbufs
<1>5. CASE ~cq.on /\ cq' = Reqbufs(cq, 0)
  <2>1. /\ cq' \in Queues /\ cq'.on = cq.on /\ cq'.fifo = <<>> /\ Len(cq'.fifo) = 0
        /\ cq'.ndone = 0 /\ cq'.count = 0
    BY <1>1, <1>5, ReqbufsValue
  <2>2. cq.on \in BOOLEAN
    BY <1>1 DEF Queues
  <2>3. cq'.on = FALSE
    BY <1>5, <2>1, <2>2
  <2> QED BY <1>2, <1>3, <2>1, <2>3
<1>6. CASE cq' = Streamoff(cq)
  BY <1>1, <1>2, <1>3, <1>6, StreamoffValue
<1>7. CASE cq' = Reqbufs(Streamoff(cq), 0)
  <2>1. Streamoff(cq) \in Queues /\ Streamoff(cq).on = FALSE
    BY <1>1, StreamoffValue
  <2>2. /\ cq' \in Queues /\ cq'.on = FALSE /\ cq'.fifo = <<>> /\ Len(cq'.fifo) = 0
        /\ cq'.ndone = 0 /\ cq'.count = 0
    BY <1>7, <2>1, ReqbufsValue
  <2> QED BY <1>2, <1>3, <2>2
<1> QED BY <1>2, <1>3, <1>4, <1>5, <1>6, <1>7

LEMMA StopInv == ASSUME IInv, Stop \/ JustStop PROVE IInv'
<1>1. /\ UNCHANGED <<live, call>>
      /\ dst' \in [stream_on : BOOLEAN, buf_idx : Nat, req : Nat]
      /\ dst'.stream_on = FALSE /\ dst'.buf_idx = 0 /\ dst'.req = dst.req
  BY StopLeaves
<1>2. WaitsLive'
  BY <1>1 DEF IInv, WaitsLive
<1>3. CASE cq' = cq
  <2>1. TypeOK' /\ AskedFirst'
    BY <1>1, <1>3 DEF IInv, TypeOK, AskedFirst
  <2> QED BY <1>1, <1>2, <1>3, <2>1, ForgetInv
<1>4. CASE /\ cq' \in Queues /\ cq'.on = FALSE /\ cq'.fifo = <<>> /\ Len(cq'.fifo) = 0
           /\ cq'.ndone = 0 /\ cq'.count \in {0, cq.count}
  <2>1. TypeOK'
    BY <1>1, <1>4 DEF IInv, TypeOK
  <2>2. AskedFirst'
    BY <1>1, <1>4 DEF IInv, AskedFirst
  <2> QED BY <1>1, <1>2, <1>4, <2>1, <2>2, RestInv
<1> QED BY <1>3, <1>4, StopLeaves

LEMMA CompleteInv == ASSUME IInv, Complete PROVE IInv'
<1>1. UNCHANGED <<live, dst, call>> /\ cq' = Finish(cq) /\ cq.on /\ cq.ndone + 0 < Len(cq.fifo)
  BY DEF Complete, CanFinish
<1>2. cq \in Queues /\ Len(cq.fifo) \in Nat /\ cq.ndone \in Nat
  BY DEF IInv, TypeOK, Queues
<1>3. /\ cq' \in Queues /\ cq'.on = cq.on /\ cq'.fifo = cq.fifo /\ cq'.count = cq.count
      /\ cq'.ndone = cq.ndone + 1
  BY <1>1, <1>2 DEF Finish, Queues
<1>4. cq'.ndone <= Len(cq'.fifo)
  BY <1>1, <1>2, <1>3
<1> QED
  BY <1>1, <1>3, <1>4 DEF IInv, TypeOK, WaitsLive, AskedFirst, QueuedFromZero, RingOrder

LEMMA NextInv == IInv /\ [Next]_vars => IInv'
<1> SUFFICES ASSUME IInv, [Next]_vars PROVE IInv'
  OBVIOUS
<1>1. CASE UNCHANGED vars
  BY <1>1 DEF vars, IInv, TypeOK, WaitsLive, AskedFirst, QueuedFromZero, RingOrder
<1> QED
  BY <1>1, HandleInv, ConfigInv, RunInv, WaitInv, WaitReturnsInv, StopInv, CompleteInv DEF Next

LEMMA Invariance == Spec => []IInv
BY InitInv, NextInv, PTL DEF Spec

\* In the middle of a ring the driver refuses the next index only because it is with it:
\* it is then at least a whole ring old.
LEMMA FullRing == IInv => RefusedOnlyWhenFull
<1> SUFFICES ASSUME IInv, dst.stream_on, dst.buf_idx < dst.req, ~CanQbuf(cq, dst.buf_idx)
             PROVE  Len(cq.fifo) >= dst.req
  BY DEF RefusedOnlyWhenFull
<1> DEFINE i == dst.buf_idx
           r == dst.req
           l == Len(cq.fifo)
<1>1. cq.fifo \in Seq(Nat) /\ i \in Nat /\ r \in Nat /\ l \in Nat /\ cq.count \in Nat
  BY DEF IInv, TypeOK, Queues
<1>2. i < cq.count /\ r > 0
  BY <1>1 DEF IInv, RingOrder
<1>3. PICK k \in 1 .. l : cq.fifo[k] = i
  <2>1. i \in Outstanding(cq)
    BY <1>2 DEF CanQbuf
  <2>2. PICK k \in DOMAIN cq.fifo : i = cq.fifo[k]
    BY <2>1 DEF Outstanding
  <2> QED BY <1>1, <2>2
<1>4. Congruent(i, i - (l + 1 - k), r)
  BY <1>3 DEF IInv, RingOrder
<1> HIDE DEF i, r, l
<1>5. l + 1 - k \in Nat /\ l + 1 - k > 0 /\ l + 1 - k <= l
  BY <1>1
<1>6. l + 1 - k >= r
  <2> DEFINE d == l + 1 - k
  <2>1. d \in Nat /\ d > 0 /\ i \in Int /\ Congruent(i, i - d, r)
    BY <1>1, <1>4, <1>5
  <2> HIDE DEF d
  <2>2. d >= r
    BY <1>1, <1>2, <2>1, CongruentFar
  <2> QED BY <2>2 DEF d
<1>7. l >= r
  BY <1>1, <1>5, <1>6
<1> QED BY <1>7 DEF l, r

\* A running capture refuses a buffer only when it holds a whole ring of them: what
\* exynos_gsc_cap_run asks the driver, for every reqBufCnt and whatever failed before.
THEOREM RefusesWhenFull == Spec => []RefusedOnlyWhenFull
BY Invariance, FullRing, PTL
-----------------------------------------------------------------------------
(* The capture handle keeps what Stream promises. *)

LEMMA CreateMakes == ASSUME IInv, Create PROVE Promise!Make
<1>1. ~live /\ live' \in BOOLEAN /\ dst' = ZeroDst /\ cq' = Fresh
      /\ \/ Returns("create", 0) /\ live' = TRUE
         \/ Returns("create", -1) /\ live' = FALSE
  BY DEF Create
<1>2. dst'.stream_on = FALSE /\ cq'.on = FALSE /\ Len(cq'.fifo) = 0
  BY <1>1, FreshValue DEF ZeroDst
<1>3. Returns("create", IF live' THEN 0 ELSE -1)
  BY <1>1
<1> QED
  BY <1>1, <1>2, <1>3 DEF Promise!Make, Promise!AtRest, Promise!Returned, Returns

LEMMA DestroyFrees == ASSUME IInv, Destroy PROVE Promise!Free
<1>1. live /\ live' = FALSE /\ dst' = ZeroDst /\ cq' = Fresh /\ Returns("destroy", 0)
  BY DEF Destroy, Idle
<1>2. dst'.stream_on = FALSE /\ cq'.on = FALSE /\ Len(cq'.fifo) = 0
  BY <1>1, FreshValue DEF ZeroDst
<1> QED
  BY <1>1, <1>2 DEF Promise!Free, Promise!AtRest, Promise!Returned, Returns

\* A configuration is refused while the flag is up, and drops the frames of a driver at
\* rest only.
LEMMA ConfigConfigures == ASSUME IInv, NEW n \in Counts, Config(n) PROVE Promise!Configure
<1>1. live /\ live' = live /\ n \in Nat /\ cq \in Queues /\ Len(cq.fifo) \in Nat
      /\ dst \in [stream_on : BOOLEAN, buf_idx : Nat, req : Nat]
  BY DEF Config, Idle, IInv, TypeOK, Queues
<1>2. CASE dst.stream_on
  BY <1>1, <1>2 DEF Config, Returns, Promise!Configure, Promise!Result, Promise!Returned
<1>3. CASE ~dst.stream_on
  <2>1. /\ \/ dst' = [dst EXCEPT !.req = n]
           \/ dst' = [dst EXCEPT !.req = n, !.buf_idx = 0]
        /\ \/ cq' = cq
           \/ ~cq.on /\ cq' = Reqbufs(cq, n)
        /\ Returns("config", 0) \/ Returns("config", -1)
    BY <1>3 DEF Config, CanReqbufs
  <2>2. dst'.stream_on = dst.stream_on
    BY <1>1, <2>1
  <2>3. CASE cq' = cq
    BY <1>1, <1>3, <2>1, <2>2, <2>3
    DEF Returns, Promise!Configure, Promise!Result, Promise!Returned
  <2>4. CASE ~cq.on /\ cq' = Reqbufs(cq, n)
    <3>1. cq'.on = cq.on /\ Len(cq'.fifo) = 0
      BY <1>1, <2>4, ReqbufsValue
    <3> QED
      BY <1>1, <1>3, <2>1, <2>2, <2>4, <3>1
      DEF Returns, Promise!Configure, Promise!Result, Promise!Returned
  <2> QED BY <2>1, <2>3, <2>4
<1> QED BY <1>2, <1>3

\* Run queues one buffer at most; the flag comes up only in the call that starts the
\* driver, also when the vsync interrupt is refused after it.
LEMMA RunFeeds == ASSUME IInv, Run PROVE Promise!Feed
<1>1. live /\ live' = live /\ cq \in Queues /\ Len(cq.fifo) \in Nat /\ dst.buf_idx \in Nat
      /\ cq.on \in BOOLEAN /\ dst.stream_on \in BOOLEAN /\ dst.req \in Nat
      /\ dst \in [stream_on : BOOLEAN, buf_idx : Nat, req : Nat]
  BY DEF Run, Idle, IInv, TypeOK, Queues
<1>2. CASE RunRefused
  BY <1>1, <1>2 DEF RunRefused, Returns, Promise!Feed, Promise!Result, Promise!Returned
<1>3. Qbuf(cq, dst.buf_idx) \in Queues /\ Len(Qbuf(cq, dst.buf_idx).fifo) = Len(cq.fifo) + 1
      /\ Qbuf(cq, dst.buf_idx).on = cq.on
  BY <1>1, QbufValue
<1>4. CASE RunQueues \/ RunStartFails
  <2>1. dst'.stream_on = dst.stream_on
    BY <1>1, <1>4 DEF RunQueues, RunStartFails
  <2>2. cq'.on = cq.on /\ Len(cq'.fifo) = Len(cq.fifo) + 1
    BY <1>3, <1>4 DEF RunQueues, RunStartFails
  <2>3. Returns("run", 0) \/ Returns("run", -1)
    BY <1>4 DEF RunQueues, RunStartFails
  <2> QED
    BY <1>1, <2>1, <2>2, <2>3 DEF Returns, Promise!Feed, Promise!Result, Promise!Returned
<1>5. CASE RunStarts \/ RunVsyncFails
  <2>1. dst'.stream_on = TRUE
    BY <1>1, <1>5 DEF RunStarts, RunVsyncFails
  <2>2. ~cq.on /\ cq'.on = TRUE /\ Len(cq'.fifo) = Len(cq.fifo) + 1
    BY <1>3, <1>5, StreamonValue DEF RunStarts, RunVsyncFails, CanStreamon
  <2>3. Returns("run", 0) \/ Returns("run", -1)
    BY <1>5 DEF RunStarts, RunVsyncFails
  <2> QED
    BY <1>1, <2>1, <2>2, <2>3 DEF Returns, Promise!Feed, Promise!Result, Promise!Returned
<1> QED BY <1>2, <1>4, <1>5 DEF Run

LEMMA WaitReturnsCollects ==
  ASSUME IInv, WaitReturns \/ WaitTimesOut PROVE Promise!Collect
<1>1. live /\ UNCHANGED <<live, dst>> /\ (Returns("wait", 0) \/ Returns("wait", -1))
      /\ cq \in Queues /\ Len(cq.fifo) \in Nat /\ cq.ndone <= Len(cq.fifo)
  BY DEF IInv, WaitsLive, WaitReturns, WaitTimesOut, WaitEnds, TypeOK, Queues
<1>2. CASE cq' = cq
  BY <1>1, <1>2 DEF Returns, Promise!Collect, Promise!Result, Promise!Returned
<1>3. CASE CanDqbuf(cq) /\ cq' = Dqbuf(cq)
  <2>1. cq'.on = cq.on /\ Len(cq'.fifo) = Len(cq.fifo) - 1 /\ Len(cq.fifo) > 0 /\ cq.on
    BY <1>1, <1>3, DqbufValue DEF CanDqbuf
  <2> QED
    BY <1>1, <2>1 DEF Returns, Promise!Collect, Promise!Result, Promise!Returned
<1> QED BY <1>2, <1>3 DEF WaitReturns, WaitTimesOut

\* A stop that answers 0 leaves the driver at rest and empty.
LEMMA StopStops == ASSUME IInv, Stop PROVE Promise!Stop
<1>1. live /\ live' = live /\ dst'.stream_on = FALSE /\ cq \in Queues /\ cq.on \in BOOLEAN
  BY StopLeaves DEF Stop, Idle, IInv, TypeOK, Queues
<1>2. CASE cq' = cq /\ Returns("stop", -1)
  BY <1>1, <1>2 DEF Returns, Promise!Stop, Promise!Returned
<1>3. CASE /\ \/ cq' = Streamoff(cq)
              \/ cq' = Reqbufs(Streamoff(cq), 0)
              \/ ~cq.on /\ cq' = Reqbufs(cq, 0)
           /\ Returns("stop", 0) \/ Returns("stop", -1)
  <2>1. Streamoff(cq) \in Queues /\ Streamoff(cq).on = FALSE /\ Len(Streamoff(cq).fifo) = 0
    BY <1>1, StreamoffValue
  <2>2. Reqbufs(Streamoff(cq), 0).on = FALSE /\ Len(Reqbufs(Streamoff(cq), 0).fifo) = 0
    BY <2>1, ReqbufsValue
  <2>3. ~cq.on => Reqbufs(cq, 0).on = FALSE /\ Len(Reqbufs(cq, 0).fifo) = 0
    BY <1>1, ReqbufsValue
  <2>4. cq'.on = FALSE /\ Len(cq'.fifo) = 0
    BY <1>3, <2>1, <2>2, <2>3
  <2> QED
    BY <1>1, <1>3, <2>4 DEF Returns, Promise!Stop, Promise!Result, Promise!Returned
<1> QED BY <1>2, <1>3 DEF Stop, StopSkips, StopStreams, CanReqbufs

LEMMA JustStopStops == ASSUME IInv, JustStop PROVE Promise!JustStop
<1>1. live /\ live' = live /\ dst'.stream_on = FALSE /\ cq \in Queues
  BY StopLeaves DEF JustStop, Idle, IInv, TypeOK
<1>2. CASE cq' = cq /\ (Returns("just_stop", 0) \/ Returns("just_stop", -1))
  BY <1>1, <1>2 DEF Returns, Promise!JustStop, Promise!Result, Promise!Returned
<1>3. CASE dst.stream_on /\ cq' = Streamoff(cq) /\ Returns("just_stop", 0)
  <2>1. cq'.on = FALSE /\ Len(cq'.fifo) = 0
    BY <1>1, <1>3, StreamoffValue
  <2> QED
    BY <1>1, <1>3, <2>1 DEF Returns, Promise!JustStop, Promise!Result, Promise!Returned
<1> QED BY <1>2, <1>3 DEF JustStop

\* Waiting, and the hardware finishing a frame, are no steps of the promise.
LEMMA Stutters == ASSUME IInv, Wait \/ Complete \/ UNCHANGED vars PROVE UNCHANGED Promise!vars
<1>1. UNCHANGED <<live, dst, last>> /\ (cq' = cq \/ cq' = Finish(cq))
  BY DEF Wait, Complete, vars
<1>2. cq'.on = cq.on /\ cq'.fifo = cq.fifo
  BY <1>1 DEF Finish
<1> QED BY <1>1, <1>2 DEF Promise!vars

LEMMA NextImplements == IInv /\ [Next]_vars => [Promise!Next]_Promise!vars
<1> SUFFICES ASSUME IInv, [Next]_vars
             PROVE  Promise!Next \/ UNCHANGED Promise!vars
  OBVIOUS
<1>1. CASE Wait \/ Complete \/ UNCHANGED vars
  BY <1>1, Stutters
<1>2. CASE \E n \in Counts : Config(n)
  BY <1>2, ConfigConfigures DEF Promise!Next
<1> QED
  BY <1>1, <1>2, CreateMakes, DestroyFrees, RunFeeds, WaitReturnsCollects, StopStops,
     JustStopStops DEF Next, Promise!Next

LEMMA InitImplements == Init => Promise!Init
BY DEF Init, Promise!Init, ZeroDst, Fresh

\* The capture handle implements Stream: the flag never claims a stream that does not
\* run, a refused configuration changes nothing, and a stop that answers 0 left the
\* driver empty, whichever of the two steps of a start or the three of a stop fails.
THEOREM CaptureKeepsPromise == Spec => Implements
BY Invariance, InitImplements, NextImplements, PTL DEF Spec, Implements, Promise!Spec
=============================================================================
