---------------------------- MODULE GscM2M_proofs ----------------------------
(***************************************************************************)
(* Proofs about GscM2M for any number of threads on a handle, every set of *)
(* geometries and loads, and every choice of driver calls that may fail.   *)
(***************************************************************************)
EXTENDS GscM2M, TLAPS

USE ThreadsAssumption, GeomsAssumption

\* What is needed of the values of the variables.
TypeOK ==
  /\ lock \in Threads \cup {NoThread}
  /\ excl \in BOOLEAN
  /\ pc = [t \in Threads |-> pc[t]]
  /\ geom = [s \in Sides |-> geom[s]]

\* The thread inside a call is the holder of op_mutex or, on an exclusive handle, the one
\* caller, and there is a handle.
OneAtWork ==
  \A t \in Threads : pc[t] # "idle" => dev # NoDev /\ t = IF excl THEN Caller ELSE lock

\* The flags say what the driver does.
FlagsAreStreams ==
  /\ on \in [Sides -> BOOLEAN]
  /\ q = [s \in Sides |-> q[s]]
  /\ fmt = [s \in Sides |-> fmt[s]]
  /\ \A s \in Sides : on[s] = q[s].on

\* The places where a side has been stopped, and where it has been given its format and
\* nothing has been queued on it.
StoppedAt(s) ==
  IF s = "src"
  THEN {"fmt_src", "off_dst", "fmt_dst", "q_src", "q_dst", "csc", "on_src",
        "end_dst", "free_src", "free_dst"}
  ELSE {"fmt_dst", "q_src", "q_dst", "csc", "on_src", "on_dst", "free_src", "free_dst"}

PreparedAt(s) == IF s = "src" THEN {"off_dst", "fmt_dst", "q_src"} ELSE {"q_src", "q_dst"}

\* What the place p needs of the queues Q, the formats F the driver was given and the
\* formats G of the handle.
PlaceOK(p, Q, F, G) ==
  \A s \in Sides :
    /\ p \in StoppedAt(s) => ~Q[s].on
    /\ p \in PreparedAt(s) => Q[s].count = 1 /\ Q[s].fifo = <<>> /\ F[s] = G[s]

\* The inductive invariant.
IInv ==
  TypeOK /\ OneAtWork /\ FlagsAreStreams /\ \A t \in Threads : PlaceOK(pc[t], q, fmt, geom)
-----------------------------------------------------------------------------
(* The order of the places. *)

LEMMA ProgramIs ==
  /\ DOMAIN Program = 1 .. 16 /\ Len(Program) = 16
  /\ Program[1] = "off_src" /\ Program[2] = "fmt_src" /\ Program[3] = "off_dst"
  /\ Program[4] = "fmt_dst" /\ Program[5] = "q_src" /\ Program[6] = "q_dst"
  /\ Program[7] = "csc" /\ Program[8] = "on_src" /\ Program[9] = "on_dst"
  /\ Program[10] = "wait" /\ Program[11] = "dq_src" /\ Program[12] = "dq_dst"
  /\ Program[13] = "end_src" /\ Program[14] = "end_dst" /\ Program[15] = "free_src"
  /\ Program[16] = "free_dst"
BY DEF Program

LEMMA AfterStep ==
  ASSUME NEW i \in 1 .. 15
  PROVE  After(Program[i]) = Program[i + 1]
<1>1. DOMAIN Program = 1 .. 16 /\ Len(Program) = 16
  BY ProgramIs
<1>2. \A k \in 1 .. 16 : Program[k] = Program[i] => k = i
  BY ProgramIs
<1> DEFINE k == CHOOSE k \in DOMAIN Program : Program[k] = Program[i]
<1>3. k \in 1 .. 16 /\ Program[k] = Program[i]
  BY <1>1
<1>4. k = i
  BY <1>2, <1>3
<1>5. After(Program[i]) = IF k = 16 THEN "idle" ELSE Program[k + 1]
  BY <1>1 DEF After
<1>6. Program[k + 1] = Program[i + 1]
  BY <1>4
<1> HIDE DEF k
<1> QED BY <1>4, <1>5, <1>6

LEMMA AfterValue ==
  /\ After("off_src") = "fmt_src" /\ After("fmt_src") = "off_dst"
  /\ After("off_dst") = "fmt_dst" /\ After("fmt_dst") = "q_src"
  /\ After("q_src") = "q_dst" /\ After("q_dst") = "csc" /\ After("csc") = "on_src"
  /\ After("on_src") = "on_dst" /\ After("on_dst") = "wait" /\ After("wait") = "dq_src"
  /\ After("dq_src") = "dq_dst" /\ After("dq_dst") = "end_src"
  /\ After("end_src") = "end_dst" /\ After("end_dst") = "free_src"
  /\ After("free_src") = "free_dst"
<1>1. \A i \in 1 .. 15 : After(Program[i]) = Program[i + 1]
  BY AfterStep
<1> QED BY <1>1, ProgramIs
-----------------------------------------------------------------------------
(* A step of a thread inside a call. *)

\* Nobody else is inside one.
LEMMA OthersIdle ==
  ASSUME IInv, NEW t \in Threads, pc[t] # "idle", NEW u \in Threads, u # t
  PROVE  pc[u] = "idle"
BY DEF IInv, OneAtWork

\* The thread comes to the place n, or to the end of its call.
LEMMA MoveInv ==
  ASSUME IInv, NEW t \in Threads, pc[t] # "idle", NEW n, pc' = [pc EXCEPT ![t] = n],
         n = "idle" \/ (lock' = lock /\ PlaceOK(n, q', fmt', geom)),
         lock' \in Threads \cup {NoThread},
         UNCHANGED <<dev, excl, geom>>, FlagsAreStreams'
  PROVE  IInv'
<1>1. TypeOK
  BY DEF IInv
<1>2. pc'[t] = n /\ pc' = [u \in Threads |-> pc'[u]]
      /\ \A u \in Threads : u # t => pc'[u] = "idle"
  <2>1. \A u \in Threads : u # t => pc'[u] = pc[u]
    BY <1>1 DEF TypeOK
  <2> QED BY <1>1, <2>1, OthersIdle DEF TypeOK
<1>3. TypeOK'
  BY <1>1, <1>2 DEF TypeOK
<1>4. OneAtWork'
  BY <1>2 DEF IInv, OneAtWork
<1>5. \A u \in Threads : PlaceOK(pc[u], q, fmt, geom)'
  <2> SUFFICES ASSUME NEW u \in Threads PROVE PlaceOK(pc[u], q, fmt, geom)'
    OBVIOUS
  <2>1. pc'[u] = "idle" \/ (pc'[u] = n /\ PlaceOK(n, q', fmt', geom))
    BY <1>2
  <2>2. CASE pc'[u] = "idle"
    BY <2>2 DEF PlaceOK, StoppedAt, PreparedAt
  <2>3. CASE pc'[u] = n /\ PlaceOK(n, q', fmt', geom)
    BY <2>3 DEF PlaceOK
  <2> QED BY <2>1, <2>2, <2>3
<1> QED BY <1>3, <1>4, <1>5 DEF IInv

\* A call that fails leaves nothing to show but the flags.
LEMMA FailInv ==
  ASSUME IInv, NEW t \in Threads, pc[t] # "idle", Fail(t), FlagsAreStreams'
  PROVE  IInv'
<1>1. pc' = [pc EXCEPT ![t] = "idle"] /\ UNCHANGED <<dev, excl, geom>>
  BY DEF Fail, Return
<1>2. lock' \in Threads \cup {NoThread}
  BY DEF Fail, Return, IInv, TypeOK
<1> HIDE DEF Fail
<1> QED BY <1>1, <1>2, MoveInv

\* One that goes on must bring about what its next place needs.
LEMMA GotoInv ==
  ASSUME IInv, NEW t \in Threads, pc[t] # "idle", Goto(t, pc[t]), FlagsAreStreams',
         EndsCall(pc[t]) \/ PlaceOK(After(pc[t]), q', fmt', geom)
  PROVE  IInv'
<1>1. PICK n : /\ pc' = [pc EXCEPT ![t] = n]
               /\ n = "idle" \/ (lock' = lock /\ PlaceOK(n, q', fmt', geom))
  <2>1. CASE EndsCall(pc[t])
    BY <2>1 DEF Goto, Return
  <2>2. CASE ~EndsCall(pc[t])
    BY <2>2 DEF Goto
  <2> QED BY <2>1, <2>2
<1>2. lock' \in Threads \cup {NoThread}
  BY DEF Goto, Return, IInv, TypeOK
<1>3. UNCHANGED <<dev, excl, geom>>
  BY DEF Goto
<1> QED BY <1>1, <1>2, <1>3, MoveInv

\* The driver did something to the queue of side s, and the flag followed it.
LEMMA FlagsFollow ==
  ASSUME FlagsAreStreams, NEW s \in Sides, q'[s].on \in BOOLEAN,
         q' = [q EXCEPT ![s] = q'[s]], on' = [on EXCEPT ![s] = q'[s].on],
         fmt' = [u \in Sides |-> fmt'[u]]
  PROVE  FlagsAreStreams' /\ \A u \in Sides : u # s => q'[u] = q[u]
<1>1. \A u \in Sides : u # s => q'[u] = q[u]
  BY DEF FlagsAreStreams
<1>2. on'[s] = q'[s].on /\ (\A u \in Sides : u # s => on'[u] = on[u])
      /\ on' \in [Sides -> BOOLEAN]
  BY DEF FlagsAreStreams
<1>3. q' = [u \in Sides |-> q'[u]]
  BY DEF FlagsAreStreams
<1> QED BY <1>1, <1>2, <1>3 DEF FlagsAreStreams

\* It did, and the side streams as before.
LEMMA FlagsKept ==
  ASSUME FlagsAreStreams, NEW s \in Sides, q'[s].on = q[s].on,
         q' = [q EXCEPT ![s] = q'[s]], on' = on, fmt' = [u \in Sides |-> fmt'[u]]
  PROVE  FlagsAreStreams' /\ \A u \in Sides : u # s => q'[u] = q[u]
<1>1. q'[s].on = on[s] /\ q'[s].on \in BOOLEAN
  BY DEF FlagsAreStreams
<1>2. on' = [on EXCEPT ![s] = q'[s].on]
  BY <1>1 DEF FlagsAreStreams
<1> QED BY <1>1, <1>2, FlagsFollow

LEMMA FlagsStay ==
  ASSUME FlagsAreStreams, UNCHANGED <<on, q, fmt>>
  PROVE  FlagsAreStreams'
BY DEF FlagsAreStreams
-----------------------------------------------------------------------------
(* One lemma per step of a call. *)

LEMMA FormatOffInv ==
  ASSUME IInv, NEW t \in Threads, NEW s \in Sides, FormatOff(t, s)
  PROVE  IInv'
<1> DEFINE p == pc[t]
           x == After(p)
<1>1. p = IF s = "src" THEN "off_src" ELSE "off_dst"
  BY DEF FormatOff, At
<1>2. FlagsAreStreams /\ PlaceOK(p, q, fmt, geom)
  BY DEF IInv
<1>3. /\ x = IF s = "src" THEN "fmt_src" ELSE "fmt_dst"
      /\ p # "idle" /\ geom' = geom
  BY <1>1, AfterValue DEF FormatOff, Goto, Fail
<1> HIDE DEF x
<1>4. CASE Fail(t) /\ UNCHANGED <<on, q, fmt>>
  BY <1>2, <1>3, <1>4, FlagsStay, FailInv
<1>5. CASE Goto(t, p) /\ UNCHANGED <<on, q, fmt>> /\ ~on[s]
  <2>1. PlaceOK(x, q', fmt', geom)
    BY <1>1, <1>2, <1>3, <1>5 DEF PlaceOK, StoppedAt, PreparedAt, FlagsAreStreams, Sides
  <2> QED BY <1>2, <1>3, <1>5, <2>1, FlagsStay, GotoInv DEF x
<1>6. CASE /\ q' = [q EXCEPT ![s] = Streamoff(q[s])]
           /\ on' = [on EXCEPT ![s] = FALSE] /\ Goto(t, p) /\ fmt' = fmt
  <2>1. /\ FlagsAreStreams' /\ ~q'[s].on
        /\ \A u \in Sides : u # s => q'[u] = q[u]
    <3>1. q'[s] = Streamoff(q[s]) /\ q' = [q EXCEPT ![s] = q'[s]]
      BY <1>2, <1>6 DEF FlagsAreStreams
    <3>2. q'[s].on = FALSE
      BY <3>1 DEF Streamoff
    <3>3. on' = [on EXCEPT ![s] = q'[s].on] /\ fmt' = [u \in Sides |-> fmt'[u]]
      BY <1>2, <1>6, <3>2 DEF FlagsAreStreams
    <3> QED BY <1>2, <3>1, <3>2, <3>3, FlagsFollow
  <2>2. PlaceOK(x, q', fmt', geom)
    BY <1>1, <1>2, <1>3, <1>6, <2>1 DEF PlaceOK, StoppedAt, PreparedAt, Sides
  <2> QED BY <1>3, <1>6, <2>1, <2>2, GotoInv DEF x
<1> QED BY <1>4, <1>5, <1>6 DEF FormatOff
LEMMA FormatInv ==
  ASSUME IInv, NEW t \in Threads, NEW s \in Sides, Format(t, s)
  PROVE  IInv'
<1> DEFINE p == pc[t]
           x == After(p)
<1>1. p = IF s = "src" THEN "fmt_src" ELSE "fmt_dst"
  BY DEF Format, At
<1>2. FlagsAreStreams /\ PlaceOK(p, q, fmt, geom)
  BY DEF IInv
<1>3. /\ x = IF s = "src" THEN "off_dst" ELSE "q_src"
      /\ p # "idle" /\ geom' = geom
  BY <1>1, AfterValue DEF Format, Goto, Fail
<1> HIDE DEF x
<1>4. CASE Fail(t) /\ UNCHANGED <<on, q>> /\ fmt' \in {fmt, [fmt EXCEPT ![s] = geom[s]]}
  <2>1. FlagsAreStreams'
    BY <1>2, <1>4 DEF FlagsAreStreams
  <2> QED BY <1>3, <1>4, <2>1, FailInv
<1>5. CASE /\ q' = [q EXCEPT ![s] = Reqbufs(q[s], 1)]
           /\ fmt' = [fmt EXCEPT ![s] = geom[s]] /\ Goto(t, p) /\ on' = on
  <2>1. q'[s] = Reqbufs(q[s], 1) /\ q' = [q EXCEPT ![s] = q'[s]]
    BY <1>2, <1>5 DEF FlagsAreStreams
  <2>2. q'[s].on = q[s].on /\ q'[s].count = 1 /\ q'[s].fifo = <<>>
    BY <2>1 DEF Reqbufs
  <2>3. /\ fmt' = [u \in Sides |-> fmt'[u]] /\ fmt'[s] = geom[s]
        /\ \A u \in Sides : u # s => fmt'[u] = fmt[u]
    BY <1>2, <1>5 DEF FlagsAreStreams
  <2>4. FlagsAreStreams' /\ \A u \in Sides : u # s => q'[u] = q[u]
    BY <1>2, <1>5, <2>1, <2>2, <2>3, FlagsKept
  <2>5. PlaceOK(x, q', fmt', geom)
    BY <1>1, <1>2, <1>3, <2>2, <2>3, <2>4 DEF PlaceOK, StoppedAt, PreparedAt, Sides
  <2> QED BY <1>3, <1>5, <2>4, <2>5, GotoInv DEF x
<1> QED BY <1>4, <1>5 DEF Format

LEMMA QueueInv ==
  ASSUME IInv, NEW t \in Threads, NEW s \in Sides, Queue(t, s)
  PROVE  IInv'
<1> DEFINE p == pc[t]
           x == After(p)
<1>1. p = IF s = "src" THEN "q_src" ELSE "q_dst"
  BY DEF Queue, At
<1>2. FlagsAreStreams /\ PlaceOK(p, q, fmt, geom)
  BY DEF IInv
<1>3. /\ x = IF s = "src" THEN "q_dst" ELSE "csc"
      /\ p # "idle" /\ geom' = geom
  BY <1>1, AfterValue DEF Queue, Goto, Fail
<1> HIDE DEF x
<1>4. CASE Fail(t) /\ UNCHANGED <<on, q, fmt>>
  BY <1>2, <1>3, <1>4, FlagsStay, FailInv
<1>5. CASE q' = [q EXCEPT ![s] = Qbuf(q[s], 0)] /\ Goto(t, p) /\ UNCHANGED <<on, fmt>>
  <2>1. q'[s] = Qbuf(q[s], 0) /\ q' = [q EXCEPT ![s] = q'[s]]
    BY <1>2, <1>5 DEF FlagsAreStreams
  <2>2. q'[s].on = q[s].on
    BY <2>1 DEF Qbuf
  <2>3. FlagsAreStreams' /\ \A u \in Sides : u # s => q'[u] = q[u]
    BY <1>2, <1>5, <2>1, <2>2, FlagsKept DEF FlagsAreStreams
  <2>4. PlaceOK(x, q', fmt', geom)
    BY <1>1, <1>2, <1>3, <1>5, <2>2, <2>3 DEF PlaceOK, StoppedAt, PreparedAt, Sides
  <2> QED BY <1>3, <1>5, <2>3, <2>4, GotoInv DEF x
<1> QED BY <1>4, <1>5 DEF Queue

LEMMA CscInv ==
  ASSUME IInv, NEW t \in Threads, Csc(t)
  PROVE  IInv'
<1>1. pc[t] = "csc" /\ UNCHANGED <<on, q, fmt>> /\ (Goto(t, pc[t]) \/ Fail(t))
  BY DEF Csc
<1>2. FlagsAreStreams' /\ PlaceOK("csc", q, fmt, geom)
  BY <1>1, FlagsStay DEF IInv
<1>3. PlaceOK("on_src", q', fmt', geom)
  BY <1>1, <1>2 DEF PlaceOK, StoppedAt, PreparedAt
<1>4. PlaceOK(After(pc[t]), q', fmt', geom)
  BY <1>1, <1>3, AfterValue
<1> QED BY <1>1, <1>2, <1>4, GotoInv, FailInv

LEMMA StreamUpInv ==
  ASSUME IInv, NEW t \in Threads, NEW s \in Sides, StreamUp(t, s)
  PROVE  IInv'
<1> DEFINE p == pc[t]
           x == After(p)
<1>1. p = IF s = "src" THEN "on_src" ELSE "on_dst"
  BY DEF StreamUp, At
<1>2. FlagsAreStreams /\ PlaceOK(p, q, fmt, geom)
  BY DEF IInv
<1>3. /\ x = IF s = "src" THEN "on_dst" ELSE "wait"
      /\ p # "idle" /\ geom' = geom
  BY <1>1, AfterValue DEF StreamUp, Goto, Fail
<1> HIDE DEF x
<1>4. CASE Fail(t) /\ UNCHANGED <<on, q, fmt>>
  BY <1>2, <1>3, <1>4, FlagsStay, FailInv
<1>5. CASE Goto(t, p) /\ UNCHANGED <<on, q, fmt>>
  <2>1. PlaceOK(x, q', fmt', geom)
    BY <1>1, <1>2, <1>3, <1>5 DEF PlaceOK, StoppedAt, PreparedAt, Sides
  <2> QED BY <1>2, <1>3, <1>5, <2>1, FlagsStay, GotoInv DEF x
<1>6. CASE /\ q' = [q EXCEPT ![s] = Streamon(q[s])]
           /\ on' = [on EXCEPT ![s] = TRUE] /\ Goto(t, p) /\ fmt' = fmt
  <2>1. q'[s] = Streamon(q[s]) /\ q' = [q EXCEPT ![s] = q'[s]]
    BY <1>2, <1>6 DEF FlagsAreStreams
  <2>2. q'[s].on = TRUE
    BY <2>1 DEF Streamon
  <2>3. on' = [on EXCEPT ![s] = q'[s].on] /\ fmt' = [u \in Sides |-> fmt'[u]]
    BY <1>2, <1>6, <2>2 DEF FlagsAreStreams
  <2>4. FlagsAreStreams' /\ \A u \in Sides : u # s => q'[u] = q[u]
    BY <1>2, <2>1, <2>2, <2>3, FlagsFollow
  <2>5. PlaceOK(x, q', fmt', geom)
    BY <1>1, <1>2, <1>3, <1>6, <2>4 DEF PlaceOK, StoppedAt, PreparedAt, Sides
  <2> QED BY <1>3, <1>6, <2>4, <2>5, GotoInv DEF x
<1> QED BY <1>4, <1>5, <1>6 DEF StreamUp

LEMMA WaitCheckInv ==
  ASSUME IInv, NEW t \in Threads, WaitCheck(t)
  PROVE  IInv'
<1>1. pc[t] = "wait" /\ UNCHANGED <<on, q, fmt>> /\ (Goto(t, pc[t]) \/ Fail(t))
  BY DEF WaitCheck
<1>2. FlagsAreStreams'
  BY <1>1, FlagsStay DEF IInv
<1>3. PlaceOK("dq_src", q', fmt', geom)
  BY DEF PlaceOK, StoppedAt, PreparedAt
<1>4. PlaceOK(After(pc[t]), q', fmt', geom)
  BY <1>1, <1>3, AfterValue
<1> QED BY <1>1, <1>2, <1>4, GotoInv, FailInv

LEMMA DequeueInv ==
  ASSUME IInv, NEW t \in Threads, NEW s \in Sides, Dequeue(t, s) \/ DequeueFails(t, s)
  PROVE  IInv'
<1> DEFINE p == pc[t]
           x == After(p)
<1>1. p = IF s = "src" THEN "dq_src" ELSE "dq_dst"
  BY DEF Dequeue, DequeueFails, At
<1>2. FlagsAreStreams
  BY DEF IInv
<1>3. x = (IF s = "src" THEN "dq_dst" ELSE "end_src") /\ p # "idle"
  BY <1>1, AfterValue
<1> HIDE DEF x
<1>4. CASE Fail(t) /\ UNCHANGED <<on, q, fmt>>
  BY <1>2, <1>3, <1>4, FlagsStay, FailInv
<1>5. CASE q' = [q EXCEPT ![s] = Dqbuf(q[s])] /\ Goto(t, p) /\ UNCHANGED <<on, fmt>>
  <2>1. q'[s] = Dqbuf(q[s]) /\ q' = [q EXCEPT ![s] = q'[s]]
    BY <1>2, <1>5 DEF FlagsAreStreams
  <2>2. q'[s].on = q[s].on
    BY <2>1 DEF Dqbuf
  <2>3. FlagsAreStreams'
    BY <1>2, <1>5, <2>1, <2>2, FlagsKept DEF FlagsAreStreams
  <2>4. PlaceOK(x, q', fmt', geom)
    BY <1>3 DEF PlaceOK, StoppedAt, PreparedAt
  <2> QED BY <1>3, <1>5, <2>3, <2>4, GotoInv DEF x
<1> QED BY <1>4, <1>5 DEF Dequeue, DequeueFails

LEMMA StreamDownInv ==
  ASSUME IInv, NEW t \in Threads, NEW s \in Sides, StreamDown(t, s)
  PROVE  IInv'
<1> DEFINE p == pc[t]
           x == After(p)
<1>1. p = IF s = "src" THEN "end_src" ELSE "end_dst"
  BY DEF StreamDown, At
<1>2. FlagsAreStreams /\ PlaceOK(p, q, fmt, geom)
  BY DEF IInv
<1>3. x = (IF s = "src" THEN "end_dst" ELSE "free_src") /\ p # "idle"
  BY <1>1, AfterValue
<1> HIDE DEF x
<1>4. CASE Fail(t) /\ UNCHANGED <<on, q, fmt>>
  BY <1>2, <1>3, <1>4, FlagsStay, FailInv
<1>5. CASE /\ q' = [q EXCEPT ![s] = Streamoff(q[s])]
           /\ on' = [on EXCEPT ![s] = FALSE] /\ Goto(t, p) /\ fmt' = fmt
  <2>1. q'[s] = Streamoff(q[s]) /\ q' = [q EXCEPT ![s] = q'[s]]
    BY <1>2, <1>5 DEF FlagsAreStreams
  <2>2. q'[s].on = FALSE
    BY <2>1 DEF Streamoff
  <2>3. on' = [on EXCEPT ![s] = q'[s].on] /\ fmt' = [u \in Sides |-> fmt'[u]]
    BY <1>2, <1>5, <2>2 DEF FlagsAreStreams
  <2>4. FlagsAreStreams' /\ \A u \in Sides : u # s => q'[u] = q[u]
    BY <1>2, <2>1, <2>2, <2>3, FlagsFollow
  <2>5. PlaceOK(x, q', fmt', geom)
    BY <1>1, <1>2, <1>3, <2>2, <2>4 DEF PlaceOK, StoppedAt, PreparedAt, Sides
  <2> QED BY <1>3, <1>5, <2>4, <2>5, GotoInv DEF x
<1> QED BY <1>4, <1>5 DEF StreamDown

LEMMA FreeInv ==
  ASSUME IInv, NEW t \in Threads, NEW s \in Sides, Free(t, s)
  PROVE  IInv'
<1> DEFINE p == pc[t]
           x == After(p)
<1>1. p = IF s = "src" THEN "free_src" ELSE "free_dst"
  BY DEF Free, At
<1>2. FlagsAreStreams /\ PlaceOK(p, q, fmt, geom)
  BY DEF IInv
<1>3. p # "idle" /\ (EndsCall(p) \/ (s = "src" /\ x = "free_dst"))
  BY <1>1, AfterValue DEF EndsCall
<1> HIDE DEF x
<1>4. CASE Fail(t) /\ UNCHANGED <<on, q, fmt>>
  BY <1>2, <1>3, <1>4, FlagsStay, FailInv
<1>5. CASE q' = [q EXCEPT ![s] = Reqbufs(q[s], 0)] /\ Goto(t, p) /\ UNCHANGED <<on, fmt>>
  <2>1. q'[s] = Reqbufs(q[s], 0) /\ q' = [q EXCEPT ![s] = q'[s]]
    BY <1>2, <1>5 DEF FlagsAreStreams
  <2>2. q'[s].on = q[s].on
    BY <2>1 DEF Reqbufs
  <2>3. FlagsAreStreams' /\ \A u \in Sides : u # s => q'[u] = q[u]
    BY <1>2, <1>5, <2>1, <2>2, FlagsKept DEF FlagsAreStreams
  <2>4. EndsCall(p) \/ PlaceOK(x, q', fmt', geom)
    BY <1>1, <1>2, <1>3, <2>2, <2>3 DEF PlaceOK, StoppedAt, PreparedAt, Sides
  <2> QED BY <1>3, <1>5, <2>3, <2>4, GotoInv DEF x
<1> QED BY <1>4, <1>5 DEF Free
-----------------------------------------------------------------------------
(* Between the calls. *)

\* While no call is under way the places ask nothing.
LEMMA IdleInv ==
  ASSUME IInv, \A t \in Threads : pc[t] = "idle", UNCHANGED <<lock, pc>>,
         excl' \in BOOLEAN, geom' = [s \in Sides |-> geom'[s]], FlagsAreStreams'
  PROVE  IInv'
<1>1. TypeOK' /\ OneAtWork'
  BY DEF IInv, TypeOK, OneAtWork
<1>2. \A t \in Threads : PlaceOK(pc[t], q, fmt, geom)'
  BY DEF PlaceOK, StoppedAt, PreparedAt
<1> QED BY <1>1, <1>2 DEF IInv

LEMMA StartInv ==
  ASSUME IInv, \A u \in Threads : pc[u] = "idle", NEW t \in Threads,
         NEW n \in {"off_src", "wait"}, pc' = [pc EXCEPT ![t] = n],
         dev # NoDev, lock' \in Threads \cup {NoThread}, t = IF excl THEN Caller ELSE lock',
         UNCHANGED <<dev, excl, on, q, geom, fmt>>
  PROVE  IInv'
<1>1. TypeOK /\ FlagsAreStreams
  BY DEF IInv
<1>2. pc' = [u \in Threads |-> pc'[u]] /\ pc'[t] = n
      /\ \A u \in Threads : u # t => pc'[u] = "idle"
  BY <1>1 DEF TypeOK
<1>3. TypeOK' /\ OneAtWork'
  BY <1>1, <1>2 DEF TypeOK, OneAtWork
<1>4. \A u \in Threads : PlaceOK(pc[u], q, fmt, geom)'
  <2> SUFFICES ASSUME NEW u \in Threads PROVE PlaceOK(pc[u], q, fmt, geom)'
    OBVIOUS
  <2>1. pc'[u] \in {"idle", "off_src", "wait"}
    BY <1>2
  <2> QED BY <2>1 DEF PlaceOK, StoppedAt, PreparedAt
<1> QED BY <1>1, <1>3, <1>4, FlagsStay DEF IInv

LEMMA FreshFlags ==
  ASSUME IInv, FreshHandle, fmt' = fmt
  PROVE  FlagsAreStreams'
BY DEF IInv, FlagsAreStreams, FreshHandle, Fresh

LEMMA HandleInv ==
  ASSUME IInv, Create \/ CreateExclusive \/ Destroy
  PROVE  IInv'
<1>1. \A t \in Threads : pc[t] = "idle"
  BY DEF IInv, OneAtWork, Create, CreateExclusive, Destroy
<1>2. FreshHandle /\ UNCHANGED <<lock, pc, geom, fmt>> /\ excl' \in BOOLEAN
  BY DEF IInv, TypeOK, Create, CreateExclusive, Destroy
<1>3. geom' = [s \in Sides |-> geom'[s]]
  BY <1>2 DEF IInv, TypeOK
<1> QED BY <1>1, <1>2, <1>3, FreshFlags, IdleInv

\* A call starts, or a setter runs, when nobody is inside a call.
LEMMA CallsInv ==
  ASSUME IInv, NEW t \in Threads, Calls(t)
  PROVE  IInv'
<1>1. \A u \in Threads : pc[u] = "idle"
  BY DEF IInv, OneAtWork, Calls, Convert, RunExclusive, WaitDone, SetFormat, Starts
<1>2. CASE Convert(t)
  BY <1>1, <1>2, StartInv DEF Convert, Starts
<1>3. CASE RunExclusive(t) \/ WaitDone(t)
  <2>1. /\ \/ pc' = [pc EXCEPT ![t] = "off_src"]
           \/ pc' = [pc EXCEPT ![t] = "wait"]
        /\ dev # NoDev /\ excl /\ t = Caller /\ lock' = lock
        /\ UNCHANGED <<dev, excl, on, q, geom, fmt>>
    BY <1>3 DEF RunExclusive, WaitDone, Starts
  <2>2. lock' \in Threads \cup {NoThread}
    BY <2>1 DEF IInv, TypeOK
  <2> QED BY <1>1, <2>1, <2>2, StartInv
<1>4. CASE SetFormat(t)
  <2>1. UNCHANGED <<lock, pc, excl, on, q, fmt>>
    BY <1>4 DEF SetFormat
  <2>2. excl' \in BOOLEAN /\ geom' = [s \in Sides |-> geom'[s]]
    BY <1>4, <2>1 DEF SetFormat, IInv, TypeOK
  <2>3. FlagsAreStreams'
    BY <2>1, FlagsStay DEF IInv
  <2> QED BY <1>1, <2>1, <2>2, <2>3, IdleInv
<1> QED BY <1>2, <1>3, <1>4 DEF Calls

LEMMA ScaleInv ==
  ASSUME IInv, Scale
  PROVE  IInv'
<1>1. UNCHANGED <<dev, excl, lock, pc, on, geom, fmt>>
  BY DEF Scale
<1>2. \A s \in Sides :
        q'[s].on = q[s].on /\ q'[s].count = q[s].count /\ q'[s].fifo = q[s].fifo
  BY DEF Scale, Finish
<1>3. q' = [s \in Sides |-> q'[s]]
  BY DEF Scale
<1>4. TypeOK' /\ OneAtWork'
  BY <1>1 DEF IInv, TypeOK, OneAtWork
<1>5. FlagsAreStreams'
  BY <1>1, <1>2, <1>3 DEF IInv, FlagsAreStreams
<1>6. \A t \in Threads : PlaceOK(pc[t], q, fmt, geom)'
  <2> SUFFICES ASSUME NEW t \in Threads PROVE PlaceOK(pc[t], q', fmt, geom)
    BY <1>1
  <2>1. PlaceOK(pc[t], q, fmt, geom)
    BY DEF IInv
  <2> QED BY <1>2, <2>1 DEF PlaceOK
<1> QED BY <1>4, <1>5, <1>6 DEF IInv

LEMMA WorkInv ==
  ASSUME IInv, NEW t \in Threads, Work(t) \/ \E s \in Sides : DequeueFails(t, s)
  PROVE  IInv'
<1>1. CASE BadSize(t)
  <2>1. pc[t] # "idle" /\ Fail(t) /\ UNCHANGED <<on, q, fmt>>
    BY <1>1 DEF BadSize
  <2> QED BY <2>1, FlagsStay, FailInv DEF IInv
<1> QED BY <1>1, CscInv, WaitCheckInv, FormatOffInv, FormatInv, QueueInv, StreamUpInv,
           DequeueInv, StreamDownInv, FreeInv DEF Work

LEMMA InitInv == Init => IInv
<1> SUFFICES ASSUME Init PROVE IInv
  OBVIOUS
<1>1. TypeOK /\ OneAtWork
  BY DEF Init, TypeOK, OneAtWork
<1>2. FlagsAreStreams
  BY DEF Init, FlagsAreStreams, Fresh
<1>3. \A t \in Threads : PlaceOK(pc[t], q, fmt, geom)
  BY DEF Init, PlaceOK, StoppedAt, PreparedAt
<1> QED BY <1>1, <1>2, <1>3 DEF IInv

LEMMA NextInv == IInv /\ [Next]_vars => IInv'
<1> SUFFICES ASSUME IInv, [Next]_vars PROVE IInv'
  OBVIOUS
<1>1. CASE UNCHANGED vars
  BY <1>1 DEF vars, IInv, TypeOK, OneAtWork, FlagsAreStreams, PlaceOK
<1> QED BY <1>1, HandleInv, ScaleInv, CallsInv, WorkInv DEF Next

LEMMA Always == Spec => []IInv
BY InitInv, NextInv, PTL DEF Spec
-----------------------------------------------------------------------------
(* The properties. *)

\* However a conversion or an exclusive run failed, and whatever calls came after it, the
\* driver can take each call of exynos_gsc_m2m_run_core and of the wait when its turn comes.
THEOREM ConversionsAreTaken == Spec => []NeverRefused
<1>1. IInv => NeverRefused
  <2> SUFFICES ASSUME IInv, NEW t \in Threads, NEW s \in Sides
               PROVE  /\ At(t, s, "fmt_src", "fmt_dst") => CanReqbufs(q[s])
                      /\ At(t, s, "q_src", "q_dst") => CanQbuf(q[s], 0)
                      /\ At(t, s, "on_src", "on_dst") => CanStreamon(q[s])
                      /\ At(t, s, "free_src", "free_dst") => CanReqbufs(q[s])
    BY DEF NeverRefused
  <2>1. PlaceOK(pc[t], q, fmt, geom)
    BY DEF IInv
  <2>2. At(t, s, "fmt_src", "fmt_dst") \/ At(t, s, "on_src", "on_dst")
          \/ At(t, s, "free_src", "free_dst") => ~q[s].on
    BY <2>1 DEF At, PlaceOK, StoppedAt, Sides
  <2>3. At(t, s, "q_src", "q_dst") => q[s].count = 1 /\ q[s].fifo = <<>>
    BY <2>1 DEF At, PlaceOK, PreparedAt, Sides
  <2>4. q[s].count = 1 /\ q[s].fifo = <<>> => CanQbuf(q[s], 0)
    BY DEF CanQbuf, Outstanding
  <2> QED BY <2>2, <2>3, <2>4 DEF CanReqbufs, CanStreamon
<1> QED BY <1>1, Always, PTL

\* No setter of another thread gets between S_FMT and the plane sizes the buffer is queued
\* with.
THEOREM SizesFitFormat == Spec => []PlanesFitFormat
<1>1. IInv => PlanesFitFormat
  BY DEF IInv, PlanesFitFormat, PlaceOK, PreparedAt, At, Sides
<1> QED BY <1>1, Always, PTL
=============================================================================
