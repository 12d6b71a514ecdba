--------------------------- MODULE MfcPort_proofs ---------------------------
(***************************************************************************)
(* Proofs about MfcPort for every number of buffers, every set of threads  *)
(* that enqueue and every choice of driver calls that may fail.            *)
(***************************************************************************)
EXTENDS MfcPort, TLAPS, WellFoundedInduction

USE MaxBufsAssumption, FaultsAssumption

Privates == {"null", "header"}

Calls == [at : {"idle", "qbuf", "private"}, idx : Indices \cup {None}, private : Privates]

\* The variables have the values their fields may take; a call that has a buffer in
\* hand knows which.
TypeOK ==
  /\ port \in Ports
  /\ array \in {"none", "live", "freed"}
  /\ n \in 0 .. MaxBufs
  /\ streaming \in BOOLEAN
  /\ queued \in [Indices -> BOOLEAN]
  /\ private \in [Indices -> Privates]
  /\ given \in [Indices -> Privates \cup {"unknown"}]
  /\ drv \in [on : BOOLEAN, count : 0 .. MaxBufs, held : SUBSET Indices, done : SUBSET Indices]
  /\ drv.done \subseteq drv.held
  /\ enq \in [Enqueuers -> Calls]
  /\ \A e \in Enqueuers : enq[e].at \in {"qbuf", "private"} => enq[e].idx \in Indices
  /\ deq \in [at : {"idle", "dqbuf", "check", "clear", "recheck"}, idx : Indices \cup {None}]
  /\ deq.at \in {"check", "clear", "recheck"} => deq.idx \in Indices
  /\ ctl \in {"idle", "flag", "clear"}

\* Only a port with an array has calls running; the driver streams while the flag is
\* up, but for the moment in which Stop has ended the stream and not yet the flag.
CallsNeedArray == ~Usable => NoCall
FlagFollows == drv.on <=> streaming /\ ctl # "flag"

\* The calls that have buffer b in hand: e before its QBUF, Dequeue before the mark.
Before(e, b) == enq[e].at = "qbuf" /\ enq[e].idx = b
Taken(b) == deq.at \in {"check", "clear"} /\ deq.idx = b

\* A buffer whose mark was not forgotten is in one place: with the driver, with one
\* call of Enqueue before its QBUF, or with Dequeue before it clears the mark; and it
\* is marked there.
InOnePlace ==
  \A b \in Indices \ forgotten :
    /\ \A e \in Enqueuers :
         Before(e, b) => /\ queued[b] /\ b \notin drv.held /\ ~Taken(b)
                         /\ \A f \in Enqueuers \ {e} : ~Before(f, b)
    /\ Taken(b) => queued[b] /\ b \notin drv.held
    /\ Usable /\ b \in drv.held => queued[b]

\* A marked buffer is in one of these places, unless a Stop that is about to clear all
\* marks runs: in Dequeue before its second look at the flag only while the flag is up.
Accounted ==
  Usable /\ ctl = "idle" =>
    \A b \in Indices : queued[b] =>
      \/ b \in drv.held
      \/ \E e \in Enqueuers : Before(e, b)
      \/ deq.at = "clear" /\ deq.idx = b
      \/ deq.at = "check" /\ deq.idx = b /\ streaming

\* Between QBUF and the write of pPrivate of one buffer there is one call, or the ghost
\* does not know whose pPrivate the buffer should carry.
Writing(e, b) == enq[e].at = "private" /\ enq[e].idx = b
OneWrites ==
  \A b \in Indices : given[b] # "unknown" =>
    /\ \A e \in Enqueuers : Writing(e, b) => given[b] = enq[e].private
    /\ \A e, f \in Enqueuers : Writing(e, b) /\ Writing(f, b) => e = f
    /\ (\A e \in Enqueuers : ~Writing(e, b)) => private[b] = given[b]

\* The inductive invariant.
IInv == TypeOK /\ CallsNeedArray /\ FlagFollows /\ InOnePlace /\ Accounted /\ OneWrites
-----------------------------------------------------------------------------
\* First takes a least element; Find and mark takes a free buffer.
LEMMA LeastExists ==
  ASSUME NEW S \in SUBSET Nat, S # {}
  PROVE  \E i \in S : \A j \in S : i <= j
<1>1. PICK i \in S : \A j \in S : ~(<<j, i>> \in OpToRel(<, Nat))
  BY NatLessThanWellFounded, WFMin
<1>2. \A j \in S : ~(j < i)
  BY <1>1 DEF OpToRel
<1> QED BY <1>2

LEMMA FirstFound ==
  ASSUME TypeOK, NEW want, Found(want) # {}
  PROVE  /\ First(Found(want)) \in Indices
         /\ First(Found(want)) < n
         /\ ~queued[First(Found(want))]
<1>1. Found(want) \in SUBSET Nat
  BY DEF Found, TypeOK
<1>2. First(Found(want)) \in Found(want)
  BY <1>1, LeastExists DEF First
<1> QED BY <1>2 DEF Found, TypeOK, Indices

\* An array just made, or none.
LEMMA BlankTyped ==
  /\ [i \in Indices |-> FALSE] \in [Indices -> BOOLEAN]
  /\ [i \in Indices |-> "null"] \in [Indices -> Privates]
  /\ Nobodys \in [Indices -> Privates \cup {"unknown"}]
<1>1. [i \in Indices |-> FALSE] \in [Indices -> BOOLEAN]
  OBVIOUS
<1>2. [i \in Indices |-> "null"] \in [Indices -> Privates]
  BY DEF Privates
<1>3. Nobodys \in [Indices -> Privates \cup {"unknown"}]
  BY DEF Nobodys, Privates
<1> QED BY <1>1, <1>2, <1>3

LEMMA InitInv == Init => IInv
<1> SUFFICES ASSUME Init PROVE IInv
  OBVIOUS
<1>1. TypeOK
  <2>1. Inert \in Calls /\ Inert.at = "idle"
    BY DEF Inert, Calls, Privates
  <2>2. NoQueue \in [on : BOOLEAN, count : 0 .. MaxBufs, held : SUBSET Indices, done : SUBSET Indices]
        /\ NoQueue.done \subseteq NoQueue.held
    BY DEF NoQueue
  <2>3. AtRest \in [at : {"idle", "dqbuf", "check", "clear", "recheck"}, idx : Indices \cup {None}]
        /\ AtRest.at = "idle"
    BY DEF AtRest
  <2>4. enq = [e \in Enqueuers |-> Inert] /\ deq = AtRest /\ drv = NoQueue
    BY DEF Init
  <2>5. queued \in [Indices -> BOOLEAN] /\ private \in [Indices -> Privates]
        /\ given \in [Indices -> Privates \cup {"unknown"}]
    BY BlankTyped DEF Init
  <2>7. /\ port \in Ports /\ array \in {"none", "live", "freed"}
        /\ streaming \in BOOLEAN /\ ctl \in {"idle", "flag", "clear"}
    BY DEF Init
  <2>8. n \in 0 .. MaxBufs
    BY DEF Init
  <2>6. enq \in [Enqueuers -> Calls] /\ \A e \in Enqueuers : enq[e].at = "idle"
    BY <2>1, <2>4
  <2> QED BY <2>2, <2>3, <2>4, <2>5, <2>6, <2>7, <2>8 DEF TypeOK
<1>2. NoCall /\ drv.on = FALSE /\ streaming = FALSE /\ array = "none" /\ drv.held = {}
  BY DEF Init, NoCall, Inert, AtRest, NoQueue
<1>3. \A b \in Indices : given[b] = "unknown"
  BY DEF Init, Nobodys
<1> QED
  BY <1>1, <1>2, <1>3 DEF IInv, CallsNeedArray, FlagFollows, InOnePlace, Before, Taken,
     Accounted, Usable, OneWrites, NoCall

\* Buffers, marks, queue and calls untouched, and the flag not lowered: nothing of the
\* places has changed.
LEMMA PlacesFrame ==
  ASSUME IInv, UNCHANGED <<array, queued, forgotten>>, drv'.held = drv.held,
         \A e \in Enqueuers, b \in Indices : Before(e, b)' <=> Before(e, b),
         deq' = deq, streaming => streaming', ctl' = ctl
  PROVE  InOnePlace' /\ Accounted'
<1>1. \A b \in Indices : Taken(b)' <=> Taken(b)
  BY DEF Taken
<1>2. InOnePlace'
  BY <1>1 DEF IInv, InOnePlace, Usable
<1>3. Accounted'
  BY DEF IInv, Accounted, Usable
<1> QED BY <1>2, <1>3

LEMMA WritesFrame ==
  ASSUME IInv, UNCHANGED <<given, private>>,
         \A e \in Enqueuers, b \in Indices :
           /\ Writing(e, b)' <=> Writing(e, b)
           /\ Writing(e, b) => enq'[e].private = enq[e].private
  PROVE  OneWrites'
BY DEF IInv, OneWrites

\* Without a call nothing is in a thread's hands.
LEMMA NothingInHand ==
  ASSUME NoCall
  PROVE  \A b \in Indices : /\ ~Taken(b)
                            /\ \A e \in Enqueuers : ~Before(e, b) /\ ~Writing(e, b)
BY DEF NoCall, Taken, Before, Writing

\* A new array, with its own buffers unmarked and the driver's queue empty.
LEMMA FillInv ==
  ASSUME IInv, NoCall, NEW count \in 0 .. MaxBufs, NEW shared \in BOOLEAN,
         Fill(count, shared), ~drv.on, Granted(count), UNCHANGED <<port, streaming, enq, ctl>>
  PROVE  IInv'
<1>1. /\ drv' \in [on : BOOLEAN, count : 0 .. MaxBufs, held : SUBSET Indices, done : SUBSET Indices]
      /\ drv'.on = FALSE /\ drv'.held = {} /\ drv'.done = {}
  BY DEF Granted, NoQueue
<1>2. deq' \in [at : {"idle", "dqbuf", "check", "clear", "recheck"}, idx : Indices \cup {None}]
      /\ deq'.at = "idle"
  BY DEF Fill, AtRest
<1>3. TypeOK'
  BY <1>1, <1>2 DEF Fill, IInv, TypeOK, NoCall, Nobodys, Privates
<1>4. NoCall'
  BY <1>2 DEF NoCall, Fill
<1>5. FlagFollows'
  BY <1>1 DEF IInv, FlagFollows
<1>6. \A b \in Indices : ~queued'[b] /\ given'[b] = "unknown"
  BY DEF Fill, Nobodys
<1>7. \A b \in Indices : ~Taken(b)' /\ \A e \in Enqueuers : ~Before(e, b)'
  BY <1>4 DEF NoCall, Taken, Before
<1> QED
  BY <1>1, <1>3, <1>4, <1>5, <1>6, <1>7 DEF IInv, CallsNeedArray, InOnePlace, Accounted, OneWrites

\* The EXIT path leaves a pointer that no call uses.
LEMMA SpoilInv ==
  ASSUME IInv, NoCall, NEW count \in 0 .. MaxBufs, NEW had \in BOOLEAN,
         Spoil(count, had), array = "live" => had,
         UNCHANGED drv \/ (~drv.on /\ \E c \in 0 .. MaxBufs : Granted(c)),
         UNCHANGED <<port, streaming, enq, ctl>>
  PROVE  IInv'
<1>1. /\ drv' \in [on : BOOLEAN, count : 0 .. MaxBufs, held : SUBSET Indices, done : SUBSET Indices]
      /\ drv'.done \subseteq drv'.held /\ drv'.on = drv.on
  BY DEF Granted, NoQueue, IInv, TypeOK
<1>2. ~Usable'
  BY DEF Spoil, Usable, IInv, TypeOK
<1>3. TypeOK'
  BY <1>1 DEF Spoil, IInv, TypeOK, ghosts
<1>4. NoCall' /\ UNCHANGED <<given, private>>
  BY DEF NoCall, Spoil, ghosts
<1>5. FlagFollows'
  BY <1>1 DEF IInv, FlagFollows
<1>6. \A b \in Indices : /\ ~Taken(b)' /\ ~Taken(b)
                         /\ \A e \in Enqueuers : ~Before(e, b)' /\ ~Writing(e, b)' /\ ~Writing(e, b)
  BY <1>4, NothingInHand DEF NoCall, Taken, Before, Writing
<1> QED
  BY <1>2, <1>3, <1>4, <1>5, <1>6 DEF IInv, CallsNeedArray, InOnePlace, Accounted, OneWrites

LEMMA SetupInv == ASSUME IInv, Setup PROVE IInv'
<1>1. NoCall /\ UNCHANGED <<port, streaming, enq, ctl>> /\ n \in 0 .. MaxBufs
  BY DEF Setup, IInv, TypeOK
<1>2. CASE ReqbufsFails
  BY <1>1, <1>2, SpoilInv DEF ReqbufsFails
<1>3. ASSUME NEW asked \in 1 .. MaxBufs, NEW shared \in BOOLEAN, NEW count \in 1 .. MaxBufs,
             ~drv.on, Granted(count), SetupDec(asked, count, shared) \/ SetupEnc(count, shared)
      PROVE  IInv'
  <2>1. count \in 0 .. MaxBufs
    OBVIOUS
  <2>2. CASE Fill(count, shared)
    BY <1>1, <1>3, <2>1, <2>2, FillInv
  <2>3. CASE Spoil(count, TRUE)
    BY <1>1, <1>3, <2>1, <2>3, SpoilInv
  <2>4. CASE Spoil(n, array = "live")
    BY <1>1, <1>3, <2>1, <2>4, SpoilInv
  <2> QED BY <1>3, <2>2, <2>3, <2>4 DEF SetupDec, SetupEnc, MapFails
<1> QED BY <1>2, <1>3 DEF Setup

LEMMA FinalizeInv == ASSUME IInv, Finalize PROVE IInv'
<1>1. /\ drv' \in [on : BOOLEAN, count : 0 .. MaxBufs, held : SUBSET Indices, done : SUBSET Indices]
      /\ drv'.on = FALSE /\ drv'.held = {} /\ drv'.done = {}
  BY DEF Finalize, NoQueue
<1>2. deq' \in [at : {"idle", "dqbuf", "check", "clear", "recheck"}, idx : Indices \cup {None}]
      /\ deq'.at = "idle"
  BY DEF Finalize, AtRest
<1>3. TypeOK'
  <2>1. /\ queued' \in [Indices -> BOOLEAN] /\ private' \in [Indices -> Privates]
        /\ given' \in [Indices -> Privates \cup {"unknown"}]
    BY BlankTyped DEF Finalize
  <2>2. /\ array' \in {"none", "live", "freed"} /\ streaming' \in BOOLEAN
        /\ UNCHANGED <<port, enq, ctl>>
    BY DEF Finalize
  <2>3. n' \in 0 .. MaxBufs
    BY DEF Finalize
  <2> QED BY <1>1, <1>2, <2>1, <2>2, <2>3 DEF IInv, TypeOK
<1>4. NoCall' /\ FlagFollows' /\ ~Usable'
  BY <1>1, <1>2 DEF NoCall, Finalize, FlagFollows, Usable
<1>5. \A b \in Indices : given'[b] = "unknown"
  BY DEF Finalize, Nobodys
<1>6. \A b \in Indices : ~Taken(b)' /\ \A e \in Enqueuers : ~Before(e, b)'
  BY <1>4 DEF NoCall, Taken, Before
<1> QED
  BY <1>3, <1>4, <1>5, <1>6 DEF IInv, CallsNeedArray, InOnePlace, Accounted, OneWrites

\* Registering buffers and forgetting their addresses touches no mark.
LEMMA RegisterInv == ASSUME IInv, Register \/ ClearRegistered PROVE IInv'
<1>1. UNCHANGED <<port, array, n, queued, private, streaming, drv, enq, deq, ctl, ghosts>>
  BY DEF Register, ClearRegistered
<1>2. TypeOK'
  BY <1>1 DEF IInv, TypeOK, ghosts
<1>5. CallsNeedArray' /\ FlagFollows'
  BY <1>1 DEF IInv, CallsNeedArray, NoCall, Usable, FlagFollows
<1>3. InOnePlace' /\ Accounted'
  BY <1>1, PlacesFrame DEF ghosts, Before
<1>4. OneWrites'
  BY <1>1, WritesFrame DEF ghosts, Writing
<1> QED BY <1>2, <1>3, <1>4, <1>5 DEF IInv
-----------------------------------------------------------------------------
\* Find and mark: the buffer was free, so no place but the forgotten held it.
LEMMA MarkInv ==
  ASSUME IInv, NEW e \in Enqueuers, enq[e].at = "idle", Usable,
         NEW want, NEW p \in Privates, Mark(e, want, p)
  PROVE  IInv'
<1> DEFINE i == First(Found(want))
           c == [at |-> "qbuf", idx |-> i, private |-> p]
<1>1. i \in Indices /\ ~queued[i]
  BY FirstFound DEF Mark, IInv
<1>2. /\ queued' = [queued EXCEPT ![i] = TRUE] /\ enq' = [enq EXCEPT ![e] = c]
      /\ UNCHANGED <<port, array, n, registered, private, streaming, drv, deq, ctl, given, forgotten>>
  BY DEF Mark, ghosts
<1> HIDE DEF i
<1>3. c \in Calls /\ c.at = "qbuf" /\ c.idx = i
  BY <1>1 DEF Calls
<1> HIDE DEF c
<1>4. /\ queued \in [Indices -> BOOLEAN] /\ enq \in [Enqueuers -> Calls]
      /\ \A b \in Indices : queued'[b] = IF b = i THEN TRUE ELSE queued[b]
      /\ \A f \in Enqueuers : enq'[f] = IF f = e THEN c ELSE enq[f]
  BY <1>1, <1>2 DEF IInv, TypeOK
<1>5. TypeOK'
  <2>1. queued' \in [Indices -> BOOLEAN] /\ enq' \in [Enqueuers -> Calls]
    BY <1>1, <1>2, <1>3, <1>4
  <2>2. \A f \in Enqueuers : enq'[f].at \in {"qbuf", "private"} => enq'[f].idx \in Indices
    BY <1>1, <1>3, <1>4 DEF IInv, TypeOK
  <2> QED BY <1>2, <2>1, <2>2 DEF IInv, TypeOK
<1>6. CallsNeedArray' /\ FlagFollows'
  BY <1>2 DEF IInv, CallsNeedArray, Usable, FlagFollows
<1>7. \A b \in Indices : /\ Taken(b)' <=> Taken(b)
                         /\ \A f \in Enqueuers :
                              Before(f, b)' <=> (f = e /\ b = i) \/ (f # e /\ Before(f, b))
  BY <1>2, <1>3, <1>4 DEF Taken, Before
<1>8. \A b \in Indices, f \in Enqueuers : Writing(f, b)' <=> f # e /\ Writing(f, b)
  BY <1>3, <1>4 DEF Writing
<1>9. ~Before(e, i) /\ \A b \in Indices : ~Writing(e, b) /\ ~Before(e, b)
  BY DEF Before, Writing
<1>10. InOnePlace'
  BY <1>1, <1>2, <1>4, <1>7, <1>9 DEF IInv, InOnePlace, Usable
<1>11. Accounted'
  BY <1>1, <1>2, <1>4, <1>7, <1>9 DEF IInv, Accounted, Usable
<1>12. OneWrites'
  BY <1>2, <1>4, <1>8, <1>9 DEF IInv, OneWrites
<1> QED BY <1>5, <1>6, <1>10, <1>11, <1>12 DEF IInv

LEMMA EnqueueInv == ASSUME IInv, NEW e \in Enqueuers, Enqueue(e) PROVE IInv'
<1>1. PICK want \in Indices \cup {None} :
        Found(want) # {} /\ Mark(e, want, Another(First(Found(want))))
  BY DEF Enqueue
<1>2. Another(First(Found(want))) \in Privates
  BY DEF Another, Privates
<1> QED BY <1>1, <1>2, MarkInv DEF Enqueue

\* The driver takes the buffer: from the hand of the call to the queue.
LEMMA QbufTakenInv == ASSUME IInv, NEW e \in Enqueuers, QbufTaken(e) PROVE IInv'
<1> DEFINE i == enq[e].idx
           g == IF Overlaps(e, i) THEN "unknown" ELSE enq[e].private
<1>1. enq[e].at = "qbuf" /\ enq[e] \in Calls /\ i \in Indices /\ enq \in [Enqueuers -> Calls]
  BY DEF QbufTaken, IInv, TypeOK
<1>2. /\ drv' = [drv EXCEPT !.held = @ \cup {i}]
      /\ enq' = [enq EXCEPT ![e].at = "private"]
      /\ given' = [given EXCEPT ![i] = g]
      /\ UNCHANGED <<port, array, n, queued, registered, private, streaming, deq, ctl, forgotten>>
  BY DEF QbufTaken, buffers
<1>3. /\ drv'.on = drv.on /\ drv'.count = drv.count /\ drv'.done = drv.done
      /\ drv'.held = drv.held \cup {i}
      /\ drv' \in [on : BOOLEAN, count : 0 .. MaxBufs, held : SUBSET Indices, done : SUBSET Indices]
  BY <1>1, <1>2 DEF IInv, TypeOK
<1>4. /\ enq' \in [Enqueuers -> Calls]
      /\ enq'[e].at = "private" /\ enq'[e].idx = i /\ enq'[e].private = enq[e].private
      /\ \A f \in Enqueuers \ {e} : enq'[f] = enq[f]
  BY <1>1, <1>2 DEF Calls
<1>5. /\ g \in Privates \cup {"unknown"}
      /\ \A b \in Indices : given'[b] = IF b = i THEN g ELSE given[b]
      /\ given' \in [Indices -> Privates \cup {"unknown"}]
  BY <1>1, <1>2 DEF IInv, TypeOK, Calls
<1>6. TypeOK'
  <2>1. \A f \in Enqueuers : enq'[f].at \in {"qbuf", "private"} => enq'[f].idx \in Indices
    BY <1>1, <1>4 DEF IInv, TypeOK
  <2>2. drv'.done \subseteq drv'.held
    BY <1>3 DEF IInv, TypeOK
  <2> QED BY <1>2, <1>3, <1>4, <1>5, <2>1, <2>2 DEF IInv, TypeOK
<1>7. CallsNeedArray' /\ FlagFollows'
  BY <1>1, <1>2, <1>3 DEF IInv, CallsNeedArray, NoCall, Usable, FlagFollows
<1>8. \A b \in Indices : /\ Taken(b)' <=> Taken(b)
                         /\ \A f \in Enqueuers : Before(f, b)' <=> f # e /\ Before(f, b)
                         /\ \A f \in Enqueuers :
                              Writing(f, b)' <=> (f = e /\ b = i) \/ (f # e /\ Writing(f, b))
  BY <1>2, <1>4 DEF Taken, Before, Writing
<1>9. Before(e, i) /\ \A b \in Indices : b # i => ~Before(e, b)
  BY <1>1 DEF Before
<1>10. \A b \in Indices : ~Writing(e, b)
  BY <1>1 DEF Writing
<1>11. InOnePlace'
  BY <1>1, <1>2, <1>3, <1>8, <1>9 DEF IInv, InOnePlace, Usable
<1>12. Accounted'
  BY <1>1, <1>2, <1>3, <1>8, <1>9 DEF IInv, Accounted, Usable
<1>13. OneWrites'
  <2> SUFFICES ASSUME NEW b \in Indices, given'[b] # "unknown"
               PROVE  /\ \A f \in Enqueuers : Writing(f, b)' => given'[b] = enq'[f].private
                      /\ \A f, h \in Enqueuers : Writing(f, b)' /\ Writing(h, b)' => f = h
                      /\ (\A f \in Enqueuers : ~Writing(f, b)') => private'[b] = given'[b]
    BY DEF OneWrites
  <2>1. CASE b = i
    <3>1. ~Overlaps(e, i) /\ given'[i] = enq[e].private
      BY <1>1, <1>5, <2>1
    <3>2. \A f \in Enqueuers \ {e} : ~Writing(f, i)
      BY <3>1 DEF Overlaps, Writing
    <3> QED BY <1>4, <1>8, <2>1, <3>1, <3>2
  <2>2. CASE b # i
    BY <1>2, <1>4, <1>5, <1>8, <1>10, <2>2 DEF IInv, OneWrites
  <2> QED BY <2>1, <2>2
<1> QED BY <1>6, <1>7, <1>11, <1>12, <1>13 DEF IInv

\* The driver refuses the buffer: its mark goes with the call.
LEMMA QbufRefusedInv == ASSUME IInv, NEW e \in Enqueuers, QbufRefused(e) PROVE IInv'
<1> DEFINE i == enq[e].idx
<1>1. enq[e].at = "qbuf" /\ i \in Indices /\ enq \in [Enqueuers -> Calls]
      /\ queued \in [Indices -> BOOLEAN]
  BY DEF QbufRefused, IInv, TypeOK
<1>2. /\ queued' = [queued EXCEPT ![i] = FALSE]
      /\ enq' = [enq EXCEPT ![e] = Inert]
      /\ UNCHANGED <<port, array, n, registered, private, streaming, drv, deq, ctl, given, forgotten>>
  BY DEF QbufRefused, Unmarked, ghosts
<1>3. Inert \in Calls /\ Inert.at = "idle"
  BY DEF Inert, Calls, Privates
<1>4. /\ \A f \in Enqueuers : enq'[f] = IF f = e THEN Inert ELSE enq[f]
      /\ enq' \in [Enqueuers -> Calls] /\ queued' \in [Indices -> BOOLEAN]
      /\ \A b \in Indices : queued'[b] = IF b = i THEN FALSE ELSE queued[b]
  BY <1>1, <1>2, <1>3
<1>5. TypeOK'
  BY <1>2, <1>3, <1>4 DEF IInv, TypeOK
<1>6. CallsNeedArray' /\ FlagFollows'
  BY <1>1, <1>2 DEF IInv, CallsNeedArray, NoCall, Usable, FlagFollows
<1>7. \A b \in Indices : /\ Taken(b)' <=> Taken(b)
                         /\ \A f \in Enqueuers : Before(f, b)' <=> f # e /\ Before(f, b)
                         /\ \A f \in Enqueuers : /\ Writing(f, b)' <=> Writing(f, b)
                                                 /\ Writing(f, b) => enq'[f] = enq[f]
  BY <1>1, <1>2, <1>3, <1>4 DEF Taken, Before, Writing
<1>8. Before(e, i) /\ \A b \in Indices : b # i => ~Before(e, b)
  BY <1>1 DEF Before
<1>9. InOnePlace'
  BY <1>1, <1>2, <1>4, <1>7, <1>8 DEF IInv, InOnePlace, Usable
<1>10. Accounted'
  BY <1>1, <1>2, <1>4, <1>7, <1>8 DEF IInv, Accounted, Usable
<1>11. OneWrites'
  BY <1>2, <1>7, WritesFrame
<1> QED BY <1>5, <1>6, <1>9, <1>10, <1>11 DEF IInv

\* pPrivate is written; with no other call writing there, it is what was given.
LEMMA SetPrivateInv == ASSUME IInv, NEW e \in Enqueuers, SetPrivate(e) PROVE IInv'
<1> DEFINE i == enq[e].idx
           c == Inert
<1>1. enq[e].at = "private" /\ i \in Indices /\ enq \in [Enqueuers -> Calls] /\ enq[e] \in Calls
      /\ private \in [Indices -> Privates] /\ enq[e].private \in Privates
  BY DEF SetPrivate, IInv, TypeOK, Calls
<1>2. /\ private' = [private EXCEPT ![i] = enq[e].private]
      /\ enq' = [enq EXCEPT ![e] = c]
      /\ UNCHANGED <<port, array, n, queued, registered, streaming, drv, deq, ctl, given, forgotten>>
  BY <1>1 DEF SetPrivate, Owner, ghosts
<1>3. c \in Calls /\ c.at = "idle"
  BY DEF Inert, Calls, Privates
<1> HIDE DEF c
<1>4. /\ \A f \in Enqueuers : enq'[f] = IF f = e THEN c ELSE enq[f]
      /\ enq' \in [Enqueuers -> Calls] /\ private' \in [Indices -> Privates]
      /\ \A b \in Indices : private'[b] = IF b = i THEN enq[e].private ELSE private[b]
  BY <1>1, <1>2, <1>3
<1>5. TypeOK'
  BY <1>2, <1>3, <1>4 DEF IInv, TypeOK
<1>6. CallsNeedArray' /\ FlagFollows'
  BY <1>1, <1>2 DEF IInv, CallsNeedArray, NoCall, Usable, FlagFollows
<1>7. \A b \in Indices : \A f \in Enqueuers :
        /\ Before(f, b)' <=> Before(f, b)
        /\ Writing(f, b)' <=> f # e /\ Writing(f, b)
  BY <1>1, <1>3, <1>4 DEF Before, Writing
<1>8. InOnePlace' /\ Accounted'
  BY <1>2, <1>7, PlacesFrame
<1>9. Writing(e, i) /\ \A b \in Indices : b # i => ~Writing(e, b)
  BY <1>1 DEF Writing
<1>10. OneWrites'
  BY <1>1, <1>2, <1>4, <1>7, <1>9 DEF IInv, OneWrites
<1> QED BY <1>5, <1>6, <1>8, <1>10 DEF IInv
-----------------------------------------------------------------------------
\* The steps of Dequeue leave marks and threads alone but for ClearMark, and the ghost
\* forgets only.
LEMMA ForgetfulWrites ==
  ASSUME IInv, UNCHANGED <<private, enq>>,
         \A b \in Indices : given'[b] \in {given[b], "unknown"}
  PROVE  OneWrites'
<1>1. \A b \in Indices, e \in Enqueuers : Writing(e, b)' <=> Writing(e, b)
  BY DEF Writing
<1> QED BY <1>1 DEF IInv, OneWrites

LEMMA ReturnTyped ==
  ASSUME IInv, Return
  PROVE  /\ deq' \in [at : {"idle", "dqbuf", "check", "clear", "recheck"}, idx : Indices \cup {None}]
         /\ deq'.at = "idle" /\ \A b \in Indices : ~Taken(b)'
         /\ given' \in [Indices -> Privates \cup {"unknown"}]
         /\ \A b \in Indices : given'[b] \in {given[b], "unknown"}
<1>1. deq' = AtRest /\ given \in [Indices -> Privates \cup {"unknown"}]
  BY DEF Return, IInv, TypeOK
<1>2. /\ deq' \in [at : {"idle", "dqbuf", "check", "clear", "recheck"}, idx : Indices \cup {None}]
      /\ deq'.at = "idle"
  BY <1>1 DEF AtRest
<1>3. \A b \in Indices : ~Taken(b)'
  BY <1>2 DEF Taken
<1>4. /\ given' \in [Indices -> Privates \cup {"unknown"}]
      /\ \A b \in Indices : given'[b] \in {given[b], "unknown"}
  BY <1>1 DEF Return
<1> QED BY <1>2, <1>3, <1>4

LEMMA DequeueInv == ASSUME IInv, Dequeue \/ DqbufFails PROVE IInv'
<1>1. /\ deq' \in [at : {"idle", "dqbuf", "check", "clear", "recheck"}, idx : Indices \cup {None}]
      /\ deq'.at \in {"idle", "dqbuf"} /\ deq.at \in {"idle", "dqbuf"}
  BY DEF Dequeue, DqbufFails, DeqAt, AtRest, IInv, TypeOK
<1>2. /\ UNCHANGED <<port, array, n, queued, registered, private, streaming, drv, enq, ctl, given, forgotten>>
      /\ Usable
  BY DEF Dequeue, DqbufFails, buffers, ghosts, IInv, CallsNeedArray, NoCall
<1>3. TypeOK'
  BY <1>1, <1>2 DEF IInv, TypeOK
<1>4. CallsNeedArray' /\ FlagFollows'
  BY <1>2 DEF IInv, CallsNeedArray, Usable, FlagFollows
<1>5. \A b \in Indices : /\ ~Taken(b) /\ ~Taken(b)'
                         /\ \A e \in Enqueuers : Before(e, b)' <=> Before(e, b)
  BY <1>1, <1>2 DEF Taken, Before
<1>6. InOnePlace'
  BY <1>2, <1>5 DEF IInv, InOnePlace, Usable
<1>7. Accounted'
  BY <1>1, <1>2, <1>5 DEF IInv, Accounted, Usable
<1>8. OneWrites'
  BY <1>2, ForgetfulWrites
<1> QED BY <1>3, <1>4, <1>6, <1>7, <1>8 DEF IInv

\* From the queue of the driver to the hand of Dequeue.
LEMMA DqbufInv == ASSUME IInv, Dqbuf PROVE IInv'
<1>1. PICK b \in drv.done :
        /\ drv' = [drv EXCEPT !.held = @ \ {b}, !.done = @ \ {b}]
        /\ deq' = [deq EXCEPT !.at = IF port = "dec_out" THEN "check" ELSE "clear", !.idx = b]
  BY DEF Dqbuf
<1>2. /\ UNCHANGED <<port, array, n, queued, registered, private, streaming, enq, ctl, given, forgotten>>
      /\ deq.at = "dqbuf" /\ drv.on
  BY DEF Dqbuf, buffers, ghosts
<1>3. b \in Indices /\ b \in drv.held
  BY DEF IInv, TypeOK
<1>4. /\ drv'.on = drv.on /\ drv'.count = drv.count /\ drv'.held = drv.held \ {b}
      /\ drv'.done = drv.done \ {b} /\ drv'.done \subseteq drv'.held
      /\ drv' \in [on : BOOLEAN, count : 0 .. MaxBufs, held : SUBSET Indices, done : SUBSET Indices]
  BY <1>1 DEF IInv, TypeOK
<1>5. /\ deq' \in [at : {"idle", "dqbuf", "check", "clear", "recheck"}, idx : Indices \cup {None}]
      /\ deq'.at \in {"check", "clear"} /\ deq'.idx = b
  BY <1>1, <1>3 DEF IInv, TypeOK
<1>6. Usable /\ streaming
  BY <1>2 DEF IInv, CallsNeedArray, NoCall, FlagFollows
<1>7. TypeOK'
  BY <1>2, <1>3, <1>4, <1>5 DEF IInv, TypeOK
<1>8. CallsNeedArray' /\ FlagFollows'
  BY <1>2, <1>4, <1>6 DEF IInv, CallsNeedArray, Usable, FlagFollows
<1>9. \A c \in Indices : /\ ~Taken(c) /\ (Taken(c)' <=> c = b)
                         /\ \A e \in Enqueuers : Before(e, c)' <=> Before(e, c)
  BY <1>2, <1>5 DEF Taken, Before
<1>10. InOnePlace'
  BY <1>2, <1>3, <1>4, <1>6, <1>9 DEF IInv, InOnePlace, Usable
<1>11. Accounted'
  <2> SUFFICES ASSUME ctl = "idle", NEW c \in Indices, queued[c]
               PROVE  \/ c \in drv'.held
                      \/ \E e \in Enqueuers : Before(e, c)'
                      \/ deq'.at = "clear" /\ deq'.idx = c
                      \/ deq'.at = "check" /\ deq'.idx = c /\ streaming'
    BY <1>2 DEF Accounted
  <2>1. CASE c = b
    BY <1>2, <1>5, <1>6, <2>1
  <2>2. CASE c # b
    BY <1>2, <1>4, <1>6, <1>9, <2>2 DEF IInv, Accounted
  <2> QED BY <2>1, <2>2
<1>12. OneWrites'
  BY <1>2, ForgetfulWrites
<1> QED BY <1>7, <1>8, <1>10, <1>11, <1>12 DEF IInv

\* Dequeue leaves without clearing the mark only when the flag is down: then a Stop runs,
\* or has cleared the mark already.
LEMMA CheckBeforeInv == ASSUME IInv, CheckBefore PROVE IInv'
<1>1. /\ UNCHANGED <<port, array, n, queued, registered, private, streaming, drv, enq, ctl, forgotten>>
      /\ deq.at = "check" /\ deq.idx \in Indices /\ Usable
  BY DEF CheckBefore, buffers, IInv, TypeOK, CallsNeedArray, NoCall
<1>2. \A b \in Indices, e \in Enqueuers : Before(e, b)' <=> Before(e, b)
  BY <1>1 DEF Before
<1>3. CallsNeedArray' /\ FlagFollows'
  BY <1>1 DEF IInv, CallsNeedArray, Usable, FlagFollows
<1>4. CASE streaming
  <2>1. given' = given /\ deq' = [deq EXCEPT !.at = "clear"]
    BY <1>4 DEF CheckBefore, DeqAt
  <2>2. /\ deq' \in [at : {"idle", "dqbuf", "check", "clear", "recheck"}, idx : Indices \cup {None}]
        /\ deq'.at = "clear" /\ deq'.idx = deq.idx
    BY <2>1 DEF IInv, TypeOK
  <2>3. TypeOK'
    BY <1>1, <2>1, <2>2 DEF IInv, TypeOK
  <2>4. \A b \in Indices : Taken(b)' <=> Taken(b)
    BY <1>1, <2>2 DEF Taken
  <2>5. InOnePlace'
    BY <1>1, <1>2, <2>4 DEF IInv, InOnePlace, Usable
  <2>6. Accounted'
    BY <1>1, <1>2, <2>2 DEF IInv, Accounted, Usable
  <2>7. OneWrites'
    BY <1>1, <2>1, ForgetfulWrites
  <2> QED BY <1>3, <2>3, <2>5, <2>6, <2>7 DEF IInv
<1>5. CASE ~streaming
  <2>1. Return
    BY <1>5 DEF CheckBefore
  <2>2. TypeOK'
    BY <1>1, <2>1, ReturnTyped DEF IInv, TypeOK
  <2>3. InOnePlace'
    BY <1>1, <1>2, <2>1, ReturnTyped DEF IInv, InOnePlace, Usable
  <2>4. Accounted'
    BY <1>1, <1>2, <1>5 DEF IInv, Accounted, Usable
  <2>5. OneWrites'
    BY <1>1, <2>1, ReturnTyped, ForgetfulWrites
  <2> QED BY <1>3, <2>2, <2>3, <2>4, <2>5 DEF IInv
<1> QED BY <1>4, <1>5

\* The mark goes while nobody else has the buffer.
LEMMA ClearMarkInv == ASSUME IInv, ClearMark PROVE IInv'
<1> DEFINE i == deq.idx
<1>1. /\ UNCHANGED <<port, array, n, registered, private, streaming, drv, enq, ctl, forgotten>>
      /\ deq.at = "clear" /\ i \in Indices /\ Usable /\ queued \in [Indices -> BOOLEAN]
  BY DEF ClearMark, IInv, TypeOK, CallsNeedArray, NoCall
<1>2. queued' = [queued EXCEPT ![i] = FALSE]
  BY DEF ClearMark
<1>3. /\ queued' \in [Indices -> BOOLEAN]
      /\ \A b \in Indices : queued'[b] = IF b = i THEN FALSE ELSE queued[b]
  BY <1>1, <1>2
<1>4. /\ deq' \in [at : {"idle", "dqbuf", "check", "clear", "recheck"}, idx : Indices \cup {None}]
      /\ deq'.at \in {"check", "clear", "recheck"} => deq'.idx \in Indices
      /\ \A b \in Indices : ~Taken(b)'
      /\ given' \in [Indices -> Privates \cup {"unknown"}]
      /\ \A b \in Indices : given'[b] \in {given[b], "unknown"}
  <2>1. CASE port = "dec_in"
    <3>1. deq' = [deq EXCEPT !.at = "recheck"] /\ given' = given
      BY <2>1 DEF ClearMark, DeqAt
    <3>2. /\ deq' \in [at : {"idle", "dqbuf", "check", "clear", "recheck"}, idx : Indices \cup {None}]
          /\ deq'.at = "recheck" /\ deq'.idx = i
      BY <3>1 DEF IInv, TypeOK
    <3> QED BY <1>1, <3>1, <3>2 DEF IInv, TypeOK, Taken
  <2>2. CASE port # "dec_in"
    BY <2>2, ReturnTyped DEF ClearMark
  <2> QED BY <2>1, <2>2
<1>5. TypeOK'
  BY <1>1, <1>3, <1>4 DEF IInv, TypeOK
<1>6. CallsNeedArray' /\ FlagFollows'
  BY <1>1 DEF IInv, CallsNeedArray, Usable, FlagFollows
<1>7. \A b \in Indices : /\ Taken(b) <=> b = i
                         /\ \A e \in Enqueuers : Before(e, b)' <=> Before(e, b)
  BY <1>1 DEF Taken, Before
<1>8. InOnePlace'
  BY <1>1, <1>3, <1>4, <1>7 DEF IInv, InOnePlace, Usable
<1>9. Accounted'
  BY <1>1, <1>3, <1>7 DEF IInv, Accounted, Usable
<1>10. OneWrites'
  BY <1>1, <1>4, ForgetfulWrites
<1> QED BY <1>5, <1>6, <1>8, <1>9, <1>10 DEF IInv

LEMMA CheckAfterInv == ASSUME IInv, CheckAfter PROVE IInv'
<1>1. /\ UNCHANGED <<port, array, n, queued, registered, private, streaming, drv, enq, ctl, forgotten>>
      /\ deq.at = "recheck" /\ Usable /\ Return
  BY DEF CheckAfter, buffers, IInv, CallsNeedArray, NoCall
<1>2. TypeOK'
  BY <1>1, ReturnTyped DEF IInv, TypeOK
<1>3. CallsNeedArray' /\ FlagFollows'
  BY <1>1 DEF IInv, CallsNeedArray, Usable, FlagFollows
<1>4. \A b \in Indices : ~Taken(b) /\ \A e \in Enqueuers : Before(e, b)' <=> Before(e, b)
  BY <1>1 DEF Taken, Before
<1>5. InOnePlace'
  BY <1>1, <1>4, ReturnTyped DEF IInv, InOnePlace, Usable
<1>6. Accounted'
  BY <1>1, <1>4 DEF IInv, Accounted, Usable
<1>7. OneWrites'
  BY <1>1, ReturnTyped, ForgetfulWrites
<1> QED BY <1>2, <1>3, <1>5, <1>6, <1>7 DEF IInv
-----------------------------------------------------------------------------
\* Start and the first halves of a Stop move no mark.
LEMMA RunInv == ASSUME IInv, Run PROVE IInv'
<1>1. /\ UNCHANGED <<port, array, n, queued, registered, private, enq, deq, ctl, given, forgotten>>
      /\ drv' = [drv EXCEPT !.on = TRUE] /\ streaming' = TRUE /\ ctl = "idle" /\ Usable
  BY DEF Run, buffers, ghosts
<1>2. /\ drv'.on = TRUE /\ drv'.held = drv.held /\ drv'.done = drv.done
      /\ drv' \in [on : BOOLEAN, count : 0 .. MaxBufs, held : SUBSET Indices, done : SUBSET Indices]
  BY <1>1 DEF IInv, TypeOK
<1>3. streaming' \in BOOLEAN
  BY <1>1
<1>4. TypeOK'
  BY <1>1, <1>2, <1>3 DEF IInv, TypeOK
<1>5. CallsNeedArray' /\ FlagFollows'
  BY <1>1, <1>2 DEF IInv, CallsNeedArray, Usable, FlagFollows
<1>6. InOnePlace' /\ Accounted'
  BY <1>1, <1>2, PlacesFrame DEF Before
<1>7. OneWrites'
  BY <1>1, ForgetfulWrites
<1> QED BY <1>4, <1>5, <1>6, <1>7 DEF IInv

LEMMA StopStreamoffInv == ASSUME IInv, StopStreamoff PROVE IInv'
<1>1. /\ UNCHANGED <<port, array, n, queued, registered, private, streaming, enq, deq, forgotten>>
      /\ ctl = "idle" /\ Usable /\ ctl' \in {"flag", "clear"}
  BY DEF StopStreamoff, buffers
<1>2. /\ drv' \in [on : BOOLEAN, count : 0 .. MaxBufs, held : SUBSET Indices, done : SUBSET Indices]
      /\ drv'.done \subseteq drv'.held /\ drv'.held \subseteq drv.held
      /\ drv'.on <=> streaming' /\ ctl' # "flag"
      /\ given' \in [Indices -> Privates \cup {"unknown"}]
      /\ \A b \in Indices : given'[b] \in {given[b], "unknown"}
  <2>1. CASE streaming
    <3>1. drv' = [drv EXCEPT !.on = FALSE, !.held = {}, !.done = {}] /\ ctl' = "flag"
          /\ given' = [i \in Indices |-> IF i = deq.idx THEN given[i] ELSE "unknown"]
      BY <2>1 DEF StopStreamoff
    <3>2. given \in [Indices -> Privates \cup {"unknown"}]
      BY DEF IInv, TypeOK
    <3>3. /\ given' \in [Indices -> Privates \cup {"unknown"}]
          /\ \A b \in Indices : given'[b] \in {given[b], "unknown"}
      BY <3>1, <3>2
    <3>4. /\ drv'.on = FALSE /\ drv'.held = {} /\ drv'.done = {}
          /\ drv' \in [on : BOOLEAN, count : 0 .. MaxBufs, held : SUBSET Indices, done : SUBSET Indices]
      BY <3>1 DEF IInv, TypeOK
    <3> QED BY <1>1, <2>1, <3>1, <3>3, <3>4
  <2>2. CASE ~streaming
    <3>1. drv' = drv /\ given' = given
      BY <2>2 DEF StopStreamoff
    <3> QED BY <1>1, <2>2, <3>1 DEF IInv, TypeOK, FlagFollows
  <2> QED BY <2>1, <2>2
<1>3. TypeOK'
  BY <1>1, <1>2 DEF IInv, TypeOK
<1>4. CallsNeedArray' /\ FlagFollows'
  BY <1>1, <1>2 DEF CallsNeedArray, Usable, FlagFollows
<1>5. \A b \in Indices : /\ Taken(b)' <=> Taken(b)
                         /\ \A e \in Enqueuers : Before(e, b)' <=> Before(e, b)
  BY <1>1 DEF Taken, Before
<1>6. InOnePlace'
  BY <1>1, <1>2, <1>5 DEF IInv, InOnePlace, Usable
<1>7. Accounted'
  BY <1>1 DEF Accounted
<1>8. OneWrites'
  BY <1>1, <1>2, ForgetfulWrites
<1> QED BY <1>3, <1>4, <1>6, <1>7, <1>8 DEF IInv

LEMMA StopFlagInv == ASSUME IInv, StopFlag PROVE IInv'
<1>1. /\ UNCHANGED <<port, array, n, queued, registered, private, drv, enq, deq, given, forgotten>>
      /\ ctl = "flag" /\ ctl' = "clear" /\ Usable
  BY DEF StopFlag, buffers, ghosts, IInv, CallsNeedArray, NoCall
<1>2. streaming' = FALSE /\ streaming' \in BOOLEAN
  BY DEF StopFlag
<1>3. TypeOK'
  BY <1>1, <1>2 DEF IInv, TypeOK
<1>4. CallsNeedArray' /\ FlagFollows'
  BY <1>1, <1>2 DEF IInv, CallsNeedArray, Usable, FlagFollows
<1>5. \A b \in Indices : /\ Taken(b)' <=> Taken(b)
                         /\ \A e \in Enqueuers : Before(e, b)' <=> Before(e, b)
  BY <1>1 DEF Taken, Before
<1>6. InOnePlace'
  BY <1>1, <1>5 DEF IInv, InOnePlace, Usable
<1>7. Accounted'
  BY <1>1 DEF Accounted
<1>8. OneWrites'
  BY <1>1, ForgetfulWrites
<1> QED BY <1>3, <1>4, <1>6, <1>7, <1>8 DEF IInv

\* Clearing all marks at once forgets the buffers in use, and only those.
LEMMA UnmarkInv ==
  ASSUME IInv, Usable, Unmark, ctl' \in {"idle", ctl}, ctl # "flag"
  PROVE  IInv'
<1>1. UNCHANGED <<port, array, n, registered, private, streaming, drv, enq, deq, given>>
  BY DEF Unmark
<1>2. /\ queued' \in [Indices -> BOOLEAN] /\ \A b \in Indices : ~queued'[b]
      /\ forgotten' = InUse
  BY DEF Unmark
<1>3. TypeOK'
  BY <1>1, <1>2 DEF IInv, TypeOK
<1>4. CallsNeedArray' /\ FlagFollows'
  BY <1>1 DEF IInv, CallsNeedArray, Usable, FlagFollows
<1>5. \A b \in Indices \ forgotten' :
        b \notin drv'.held /\ ~Taken(b)' /\ \A e \in Enqueuers : ~Before(e, b)'
  <2> SUFFICES ASSUME NEW b \in Indices, b \notin InUse
               PROVE  b \notin drv.held /\ deq.idx # b /\ \A e \in Enqueuers : enq[e].idx # b
    BY <1>1, <1>2 DEF Taken, Before
  <2>1. b # None
    BY DEF Indices, None
  <2> QED BY <2>1 DEF InUse
<1>6. InOnePlace'
  BY <1>5 DEF InOnePlace
<1>7. Accounted'
  BY <1>2 DEF Accounted
<1>8. OneWrites'
  BY <1>1, ForgetfulWrites
<1> QED BY <1>3, <1>4, <1>6, <1>7, <1>8 DEF IInv

LEMMA ClearInv == ASSUME IInv, StopClear \/ ClearQueued PROVE IInv'
<1>1. Unmark /\ ctl' \in {"idle", ctl} /\ ctl # "flag"
  BY DEF StopClear, ClearQueued
<1>2. Usable
  BY DEF StopClear, ClearQueued, IInv, CallsNeedArray, NoCall
<1> QED BY <1>1, <1>2, UnmarkInv

LEMMA CompleteInv == ASSUME IInv, Complete PROVE IInv'
<1>1. UNCHANGED <<port, array, n, queued, registered, private, streaming, enq, deq, ctl, given, forgotten>>
  BY DEF Complete, buffers, ghosts
<1>2. PICK b \in drv.held : drv' = [drv EXCEPT !.done = @ \cup {b}]
  BY DEF Complete
<1>3. /\ drv'.on = drv.on /\ drv'.held = drv.held /\ drv'.done = drv.done \cup {b}
      /\ drv' \in [on : BOOLEAN, count : 0 .. MaxBufs, held : SUBSET Indices, done : SUBSET Indices]
  BY <1>2 DEF IInv, TypeOK
<1>4. TypeOK'
  BY <1>1, <1>3 DEF IInv, TypeOK
<1>5. CallsNeedArray' /\ FlagFollows'
  BY <1>1, <1>3 DEF IInv, CallsNeedArray, NoCall, Usable, FlagFollows
<1>6. InOnePlace' /\ Accounted'
  BY <1>1, <1>3, PlacesFrame DEF Before
<1>7. OneWrites'
  BY <1>1, ForgetfulWrites
<1> QED BY <1>4, <1>5, <1>6, <1>7 DEF IInv

LEMMA StutterInv == ASSUME IInv, UNCHANGED vars PROVE IInv'
<1>1. UNCHANGED <<port, array, n, queued, registered, private, streaming, drv, enq, deq, ctl, given, forgotten>>
  BY DEF vars, buffers, ghosts
<1>2. TypeOK'
  BY <1>1 DEF IInv, TypeOK
<1>3. CallsNeedArray' /\ FlagFollows'
  BY <1>1 DEF IInv, CallsNeedArray, NoCall, Usable, FlagFollows
<1>4. InOnePlace' /\ Accounted'
  BY <1>1, PlacesFrame DEF Before
<1>5. OneWrites'
  BY <1>1, ForgetfulWrites
<1> QED BY <1>2, <1>3, <1>4, <1>5 DEF IInv
-----------------------------------------------------------------------------
\* Every step keeps the invariant.
LEMMA NextInv == IInv /\ [Next]_vars => IInv'
<1> SUFFICES ASSUME IInv, [Next]_vars PROVE IInv'
  OBVIOUS
<1>1. CASE Control
  BY <1>1, SetupInv, RegisterInv, FinalizeInv, RunInv, StopStreamoffInv, StopFlagInv, ClearInv
     DEF Control
<1>2. ASSUME NEW e \in Enqueuers, DecEnqueue(e) \/ EncEnqueue(e) PROVE IInv'
  BY <1>2, EnqueueInv, QbufTakenInv, QbufRefusedInv, SetPrivateInv
     DEF DecEnqueue, EncEnqueue
<1>3. CASE DecDequeue \/ EncDequeue
  BY <1>3, DequeueInv, DqbufInv, CheckBeforeInv, ClearMarkInv, CheckAfterInv
     DEF DecDequeue, EncDequeue
<1> QED
  BY <1>1, <1>2, <1>3, CompleteInv, StutterInv DEF Next

LEMMA Invariance == Spec => []IInv
BY InitInv, NextInv, PTL DEF Spec

\* Whatever the threads interleave and the driver refuses, a buffer the driver holds is
\* marked, unless a Stop or a Clear_Queued came while it was in use.
THEOREM MarkOfHeld == Spec => []HeldIsMarked
<1>1. IInv => HeldIsMarked
  BY DEF IInv, TypeOK, InOnePlace, HeldIsMarked
<1> QED BY <1>1, Invariance, PTL

\* A buffer is never lost to Enqueue: with no call running, what is marked is with the
\* driver, also after a Stop overtook calls of both threads.
THEOREM MarkIsHeld == Spec => []NothingLost
<1>1. IInv => NothingLost
  <2> SUFFICES ASSUME IInv, Usable, NoCall, NEW i \in 0 .. n - 1, queued[i]
               PROVE  i \in drv.held
    BY DEF NothingLost
  <2>1. i \in Indices
    BY DEF IInv, TypeOK, Indices
  <2> QED BY <2>1 DEF IInv, Accounted, NoCall, Before
<1> QED BY <1>1, Invariance, PTL

\* A buffer carries the pPrivate of its last Enqueue, or that call alone still has to
\* write it, so that no stale write can replace it later; the Dequeue that comes before
\* the write is not excluded.
THEOREM OwnPrivate == Spec => []PrivateIsOwn
<1>1. IInv => PrivateIsOwn
  <2> SUFFICES ASSUME IInv, NEW b \in Indices, given[b] # "unknown"
               PROVE  /\ Writers(b) = {} => private[b] = given[b]
                      /\ \A e \in Writers(b) : Writers(b) = {e} /\ enq[e].private = given[b]
    <3>1. ASSUME IInv PROVE drv.held \cup {deq.idx} \subseteq Indices \cup {None}
      BY <3>1 DEF IInv, TypeOK
    <3> QED BY <3>1 DEF PrivateIsOwn
  <2>1. /\ \A e \in Writers(b) : e \in Enqueuers /\ Writing(e, b)
        /\ \A e \in Enqueuers : Writing(e, b) => e \in Writers(b)
    BY DEF Writers, Writing
  <2>2. /\ \A e \in Enqueuers : Writing(e, b) => given[b] = enq[e].private
        /\ \A e, f \in Enqueuers : Writing(e, b) /\ Writing(f, b) => e = f
        /\ (\A e \in Enqueuers : ~Writing(e, b)) => private[b] = given[b]
    BY DEF IInv, OneWrites
  <2> QED BY <2>1, <2>2
<1> QED BY <1>1, Invariance, PTL
=============================================================================
