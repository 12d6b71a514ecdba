---------------------------- MODULE TVOut_proofs ----------------------------
(* Proofs about TVOut for every number of frames, with and without cable and   *)
(* path changes: the mailbox, the disable mutexes, the locks and the cable.    *)
EXTENDS TVOut, TLAPS

USE TVOutAssumption

\* Where a call that reaches ExynosHdmi is between its first lock and its end.
Inside == {"first", "second", "body"}

\* A flush thread is between taking and giving back its disable mutex exactly
\* while it owns it.
Owners == \A s \in Slots : fpc[s] \in InFlush <=> disable[s] = "thread"

\* setHdmiClearLayer holds the disable mutex of the layer it clears;
\* setHdmiLayerDisable saw the mailbox empty, and mLock keeps it so.
CallerHolds ==
  /\ call.op = "clear" => call.at # "spin"
  /\ call.op = "disable" => call.at # "guard"
  /\ call.op = "clear" /\ call.at \in Inside => disable[SpinSlot] = "caller"
  /\ call.op = "disable" /\ call.at \in Inside => msg[SpinSlot] = 0

\* The inductive invariant.
IInv ==
  TypeOK /\ WokenHasMessage /\ Owners /\ CallerHolds /\ CableMeansConnected

\* A call that did not begin, and one that is over, is nowhere.
LEMMA IdleTyped ==
  /\ Idle \in [op : Ops, at : Places, layers : Seq(Layers)] /\ Len(Idle.layers) = 0
  /\ Idle.op = "none" /\ Idle.at = "idle"
BY DEF Idle, Ops, Places

LEMMA SpinSlotTyped == SpinSlot \in Slots
BY DEF SpinSlot, SlotOf, Slots

LEMMA InitInv == Init => IInv
<1> SUFFICES ASSUME Init PROVE IInv
  OBVIOUS
<1>1. TypeOK
  <2>1. 0 \in Frames /\ 0 \in Nat
    BY DEF Frames
  <2>2. /\ call \in [op : Ops, at : Places, layers : Seq(Layers)]
        /\ Len(call.layers) <= 3
    BY IdleTyped DEF Init
  <2>3. after \in Seq({"set", "path", "blit"}) /\ Len(after) <= 3
    BY DEF Init
  <2>4. /\ cable \in BOOLEAN /\ connected \in BOOLEAN /\ path \in Paths
        /\ hwcLayer \in BOOLEAN /\ enable \in BOOLEAN
    BY DEF Init, Paths
  <2>5. pathChange \in BOOLEAN
    BY DEF Init
  <2>6. /\ msg \in [Slots -> Frames] /\ frames \in Frames
        /\ arg \in [Slots -> [size : Frames, addr : Frames]]
        /\ shown \in [Slots -> Frames]
    BY <2>1 DEF Init
  <2>7. /\ fpc \in [Slots -> {"top", "waiting", "woken", "args", "lock", "other", "flush", "done"}]
        /\ disable \in [Slots -> {"none", "caller", "thread"}]
        /\ lock \in [Slots -> Slots \cup {"none", "caller"}]
    BY DEF Init
  <2> QED
    BY <2>2, <2>3, <2>4, <2>5, <2>6, <2>7 DEF TypeOK
<1>2. WokenHasMessage /\ Owners /\ CallerHolds /\ CableMeansConnected
  BY IdleTyped DEF Init, WokenHasMessage, Owners, CallerHolds, CableMeansConnected,
                   InFlush, Inside
<1> QED
  BY <1>1, <1>2 DEF IInv

-----------------------------------------------------------------------------
(* Flush threads. *)

\* A thread's step leaves the call, the cable and the connection alone.
LEMMA ThreadKeeps ==
  ASSUME IInv, NEW s \in Slots, Thread(s)
  PROVE  /\ UNCHANGED <<service, frames, call, after>>
         /\ CableMeansConnected'
<1>1. UNCHANGED <<service, frames, call, after>>
  <2>1. CASE Wait(s)        BY <2>1 DEF Wait
  <2>2. CASE LockDisable(s) BY <2>2 DEF LockDisable
  <2>3. CASE ReadArg(s)     BY <2>3 DEF ReadArg
  <2>4. CASE LockOwn(s)     BY <2>4 DEF LockOwn
  <2>5. CASE PassOther(s)   BY <2>5 DEF PassOther
  <2>6. CASE DoFlush(s)     BY <2>6 DEF DoFlush
  <2>7. CASE Finish(s)      BY <2>7 DEF Finish
  <2> QED
    BY <2>1, <2>2, <2>3, <2>4, <2>5, <2>6, <2>7 DEF Thread
<1> QED
  BY <1>1 DEF IInv, service, CableMeansConnected

\* The arguments a thread has read are frames.
LEMMA ArgTyped ==
  ASSUME IInv, NEW s \in Slots, Thread(s)
  PROVE  arg' \in [Slots -> [size : Frames, addr : Frames]]
<1>1. arg \in [Slots -> [size : Frames, addr : Frames]] /\ msg[s] \in Frames
  BY DEF IInv, TypeOK
<1>2. CASE LockDisable(s)
  BY <1>1, <1>2 DEF LockDisable, Frames
<1>3. CASE ReadArg(s)
  <2>1. PICK field \in {"size", "addr"} : arg' = [arg EXCEPT ![s][field] = msg[s]]
    BY <1>3 DEF ReadArg
  <2>2. [arg[s] EXCEPT ![field] = msg[s]] \in [size : Frames, addr : Frames]
    BY <1>1
  <2> QED
    BY <1>1, <2>1, <2>2
<1>4. CASE Wait(s) \/ LockOwn(s) \/ PassOther(s) \/ DoFlush(s) \/ Finish(s)
  BY <1>1, <1>4 DEF Wait, LockOwn, PassOther, DoFlush, Finish
<1> QED
  BY <1>2, <1>3, <1>4 DEF Thread

LEMMA ThreadTyped ==
  ASSUME IInv, NEW s \in Slots, Thread(s)
  PROVE  TypeOK'
<1>1. TypeOK
  BY DEF IInv
<1>2. arg' \in [Slots -> [size : Frames, addr : Frames]]
  BY ArgTyped
<1>3. UNCHANGED <<service, frames, call, after>>
  BY ThreadKeeps
<1>4. CASE Wait(s)
  BY <1>1, <1>2, <1>3, <1>4 DEF TypeOK, Wait, Goes, service
<1>5. CASE LockDisable(s)
  BY <1>1, <1>2, <1>3, <1>5 DEF TypeOK, LockDisable, Goes, service
<1>6. CASE ReadArg(s)
  BY <1>1, <1>2, <1>3, <1>6 DEF TypeOK, ReadArg, Goes, service
<1>7. CASE LockOwn(s)
  BY <1>1, <1>2, <1>3, <1>7 DEF TypeOK, LockOwn, Goes, service
<1>8. CASE PassOther(s)
  BY <1>1, <1>2, <1>3, <1>8 DEF TypeOK, PassOther, Goes, service
<1>9. CASE DoFlush(s)
  BY <1>1, <1>2, <1>3, <1>9 DEF TypeOK, DoFlush, Goes, service
<1>10. CASE Finish(s)
  BY <1>1, <1>2, <1>3, <1>10 DEF TypeOK, Finish, Finished, Frames, Goes, service
<1> QED
  BY <1>4, <1>5, <1>6, <1>7, <1>8, <1>9, <1>10 DEF Thread

\* A thread keeps its own mailbox until the last step of its flush, and takes
\* and gives back its own disable mutex only.
LEMMA ThreadInv ==
  ASSUME IInv, NEW s \in Slots, Thread(s)
  PROVE  IInv'
<1>1. TypeOK /\ WokenHasMessage /\ Owners /\ CallerHolds
  BY DEF IInv
<1>2. TypeOK' /\ CableMeansConnected' /\ call' = call
  BY ThreadTyped, ThreadKeeps
<1>3. CASE Finish(s)
  <2>1. /\ fpc' = [fpc EXCEPT ![s] = "top"] /\ msg' = [msg EXCEPT ![s] = 0]
        /\ disable' = [disable EXCEPT ![s] = "none"] /\ fpc[s] = "done"
    BY <1>3 DEF Finish, Finished, Goes
  <2>2. disable[s] = "thread"
    BY <1>1, <2>1 DEF Owners, InFlush
  <2>3. WokenHasMessage' /\ Owners'
    BY <1>1, <2>1 DEF TypeOK, WokenHasMessage, Owners, InFlush
  <2>4. CallerHolds'
    BY <1>1, <1>2, <2>1, <2>2, SpinSlotTyped DEF TypeOK, CallerHolds, SpinSlot
  <2> QED
    BY <1>2, <2>3, <2>4 DEF IInv
<1>4. CASE LockDisable(s)
  <2>1. /\ fpc' = [fpc EXCEPT ![s] = "args"] /\ msg' = msg /\ disable[s] = "none"
        /\ disable' = [disable EXCEPT ![s] = "thread"] /\ fpc[s] = "woken"
    BY <1>4 DEF LockDisable, Goes
  <2>2. WokenHasMessage' /\ Owners'
    BY <1>1, <2>1 DEF TypeOK, WokenHasMessage, Owners, InFlush
  <2>3. CallerHolds'
    BY <1>1, <1>2, <2>1, SpinSlotTyped DEF TypeOK, CallerHolds, SpinSlot
  <2> QED
    BY <1>2, <2>2, <2>3 DEF IInv
<1>5. CASE Wait(s) \/ ReadArg(s) \/ LockOwn(s) \/ PassOther(s) \/ DoFlush(s)
  <2>1. /\ msg' = msg /\ disable' = disable
        /\ \E at \in {"waiting", "args", "lock", "other", "flush", "done"} :
             /\ fpc' = [fpc EXCEPT ![s] = at]
             /\ at = "waiting" <=> fpc[s] = "top"
             /\ at # "waiting" => fpc[s] \in InFlush
    BY <1>5 DEF Wait, ReadArg, LockOwn, PassOther, DoFlush, Goes, InFlush
  <2>2. WokenHasMessage' /\ Owners'
    BY <1>1, <2>1 DEF TypeOK, WokenHasMessage, Owners, InFlush
  <2>3. CallerHolds'
    BY <1>1, <1>2, <2>1 DEF CallerHolds, SpinSlot
  <2> QED
    BY <1>2, <2>2, <2>3 DEF IInv
<1> QED
  BY <1>3, <1>4, <1>5 DEF Thread

-----------------------------------------------------------------------------
(* Service calls. *)

\* The types of what only service calls write.
ServiceOK ==
  /\ cable \in BOOLEAN /\ connected \in BOOLEAN /\ path \in Paths
  /\ hwcLayer \in BOOLEAN /\ enable \in BOOLEAN /\ pathChange \in BOOLEAN
AfterOK == after \in Seq({"set", "path", "blit"}) /\ Len(after) <= 3
CallOK  == call \in [op : Ops, at : Places, layers : Seq(Layers)] /\ Len(call.layers) <= 3

\* A step of a call that leaves the flush threads, their mailboxes and the
\* disable mutexes alone keeps the invariant when it keeps the caller's part.
LEMMA CallerKeeps ==
  ASSUME IInv, UNCHANGED <<msg, frames, thread, disable>>,
         ServiceOK', AfterOK', CallOK', CallerHolds', CableMeansConnected',
         lock' \in [Slots -> Slots \cup {"none", "caller"}]
  PROVE  IInv'
<1>1. TypeOK'
  BY DEF IInv, TypeOK, ServiceOK, AfterOK, CallOK, thread
<1>2. WokenHasMessage' /\ Owners'
  BY DEF IInv, WokenHasMessage, Owners, thread
<1> QED
  BY <1>1, <1>2 DEF IInv

\* A call begins outside its locks: a clear before the disable mutex, a layer
\* disable before the mailbox was looked at.
LEMMA BeginInv ==
  ASSUME IInv, NEW op \in Ops, NEW at \in Places, NEW layers \in Seq(Layers),
         Len(layers) <= 3, Begin(op, at, layers),
         op = "clear" => at = "guard", op = "disable" => at = "spin",
         ServiceOK', AfterOK', CableMeansConnected'
  PROVE  IInv'
<1>1. call' = [op |-> op, at |-> at, layers |-> layers]
  BY DEF Begin
<1>2. UNCHANGED <<pathChange, msg, frames, thread, disable, lock>>
  BY DEF Begin
<1>3. CallOK'
  BY <1>1 DEF CallOK
<1>4. CallerHolds'
  BY <1>1 DEF CallerHolds, Inside
<1>5. lock' \in [Slots -> Slots \cup {"none", "caller"}]
  BY <1>2 DEF IInv, TypeOK
<1> QED
  BY <1>2, <1>3, <1>4, <1>5, CallerKeeps

\* What every call finds.
LEMMA Found ==
  ASSUME IInv
  PROVE  /\ ServiceOK /\ AfterOK /\ CallOK
         /\ lock \in [Slots -> Slots \cup {"none", "caller"}]
BY DEF IInv, TypeOK, ServiceOK, AfterOK, CallOK

LEMMA NoLayers == <<>> \in Seq(Layers) /\ Len(<<>>) <= 3
OBVIOUS

LEMMA OneLayer ==
  ASSUME NEW l \in Layers
  PROVE  <<l>> \in Seq(Layers) /\ Len(<<l>>) <= 3
OBVIOUS

LEMMA SetStatusInv == ASSUME IInv, SetStatus PROVE IInv'
<1>1. ServiceOK' /\ AfterOK' /\ CableMeansConnected'
  BY Found DEF SetStatus, Begin, ServiceOK, AfterOK, service, IInv, CableMeansConnected
<1>2. CASE cable
  <2>1. Begin("disconnect", "first", <<>>)
    BY <1>2 DEF SetStatus
  <2> QED
    BY <1>1, <2>1, BeginInv, NoLayers DEF Ops, Places
<1>3. CASE ~cable
  <2>1. Begin("connect", "first", <<>>)
    BY <1>3 DEF SetStatus
  <2> QED
    BY <1>1, <2>1, BeginInv, NoLayers DEF Ops, Places
<1> QED
  BY <1>2, <1>3

\* A call that keeps the service's variables as they are.
LEMMA PlainCall ==
  ASSUME IInv, NEW op \in Ops \ {"clear", "disable"}, Begin(op, "first", <<>>),
         UNCHANGED service, AfterOK'
  PROVE  IInv'
<1>1. ServiceOK' /\ CableMeansConnected'
  BY Found DEF Begin, ServiceOK, service, IInv, CableMeansConnected
<1> QED
  BY <1>1, BeginInv, NoLayers DEF Places

LEMMA SetInv == ASSUME IInv, Set PROVE IInv'
BY PlainCall, Found DEF Set, Ops, AfterOK

LEMMA SetPathInv == ASSUME IInv, SetPath PROVE IInv'
BY PlainCall, Found DEF SetPath, Ops, AfterOK

LEMMA SetHwcLayerInv == ASSUME IInv, SetHwcLayer PROVE IInv'
<1>1. UNCHANGED <<cable, connected, path, enable, pathChange, msg, frames, thread,
                  disable, lock, call, after>> /\ hwcLayer' = ~hwcLayer
  BY DEF SetHwcLayer
<1>2. ServiceOK' /\ AfterOK' /\ CallOK' /\ CableMeansConnected'
  BY <1>1, Found DEF ServiceOK, AfterOK, CallOK, IInv, CableMeansConnected
<1>3. CallerHolds'
  BY <1>1 DEF IInv, CallerHolds, SpinSlot
<1> QED
  BY <1>1, <1>2, <1>3, Found, CallerKeeps

LEMMA SetClearLayerInv ==
  ASSUME IInv, NEW on \in BOOLEAN, SetClearLayer(on) PROVE IInv'
<1>1. UNCHANGED <<cable, connected, path, hwcLayer, after>> /\ enable' = on
  BY DEF SetClearLayer
<1>2. CASE on \/ ~cable
  <2>1. UNCHANGED <<pathChange, msg, frames, thread, disable, lock, call>>
    BY <1>2 DEF SetClearLayer
  <2>2. ServiceOK' /\ AfterOK' /\ CallOK' /\ CableMeansConnected'
    BY <1>1, <2>1, Found DEF ServiceOK, AfterOK, CallOK, IInv, CableMeansConnected
  <2>3. CallerHolds'
    BY <2>1 DEF IInv, CallerHolds, SpinSlot
  <2> QED
    BY <2>1, <2>2, <2>3, Found, CallerKeeps
<1>3. CASE ~(on \/ ~cable)
  <2>1. Begin("clear", "guard", <<"video", "graphic0", "graphic1">>)
    BY <1>3 DEF SetClearLayer
  <2>2. ServiceOK' /\ AfterOK' /\ CableMeansConnected'
    BY <1>1, <2>1, Found DEF Begin, ServiceOK, AfterOK, IInv, CableMeansConnected
  <2>3. /\ <<"video", "graphic0", "graphic1">> \in Seq(Layers)
        /\ Len(<<"video", "graphic0", "graphic1">>) <= 3
    BY DEF Layers
  <2> QED
    BY <2>1, <2>2, <2>3, BeginInv DEF Ops, Places
<1> QED
  BY <1>2, <1>3

LEMMA SetLayerDisableInv ==
  ASSUME IInv, NEW l \in Layers, SetLayerDisable(l) PROVE IInv'
<1>1. Begin("disable", "spin", <<l>>) /\ UNCHANGED <<service, after>>
  BY DEF SetLayerDisable
<1>2. ServiceOK' /\ AfterOK' /\ CableMeansConnected'
  BY <1>1, Found DEF Begin, ServiceOK, AfterOK, service, IInv, CableMeansConnected
<1> QED
  BY <1>1, <1>2, OneLayer, BeginInv DEF Ops, Places

\* A message posted is not NULL; it wakes a thread that waits, and a call that
\* saw an empty mailbox is not under way.
LEMMA Blit2HdmiInv ==
  ASSUME IInv, NEW mode \in Modes, Blit2Hdmi(mode), AfterOK' PROVE IInv'
<1>1. TypeOK /\ WokenHasMessage /\ Owners /\ CallerHolds /\ CableMeansConnected
  BY DEF IInv
<1>2. /\ call.at = "idle"
      /\ UNCHANGED <<service, pathChange, arg, shown, disable, lock, call>>
  BY DEF Blit2Hdmi
<1>3. ServiceOK' /\ CallOK' /\ CableMeansConnected'
  BY <1>1, <1>2, Found DEF ServiceOK, CallOK, service, CableMeansConnected
<1>4. CallerHolds'
  BY <1>2 DEF CallerHolds, Inside
<1>5. CASE Takes(mode)
  <2>1. PICK s \in Slots : Deliver(s)
    BY <1>5 DEF Blit2Hdmi, Slots
  <2>2. frames \in Nat /\ frames < MaxFrames /\ frames' = frames + 1
    BY <1>1, <1>5 DEF Blit2Hdmi, TypeOK, Frames
  <2>3. /\ msg' = [msg EXCEPT ![s] = frames + 1]
        /\ fpc' = [fpc EXCEPT ![s] = IF @ = "waiting" THEN "woken" ELSE @]
    BY <2>1 DEF Deliver
  <2>4. frames + 1 \in Frames /\ frames + 1 # 0
    BY <2>2 DEF Frames
  <2>5. WokenHasMessage' /\ Owners'
    BY <1>1, <1>2, <2>3, <2>4 DEF TypeOK, WokenHasMessage, Owners, InFlush
  <2>6. TypeOK'
    BY <1>1, <1>2, <1>3, <2>2, <2>3, <2>4 DEF TypeOK, ServiceOK, CallOK, AfterOK
  <2> QED
    BY <1>3, <1>4, <2>5, <2>6 DEF IInv
<1>6. CASE ~Takes(mode)
  <2>1. UNCHANGED <<msg, fpc, frames>>
    BY <1>6 DEF Blit2Hdmi
  <2> QED
    BY <1>2, <1>3, <1>4, <2>1, Found, CallerKeeps DEF thread
<1> QED
  BY <1>5, <1>6

LEMMA StatusTailInv == ASSUME IInv, StatusTail PROVE IInv'
<1>1. after # <<>> /\ after' = Tail(after)
  BY DEF StatusTail
<1>2. AfterOK'
  BY <1>1, Found DEF AfterOK
<1>3. Head(after) \in {"set", "path", "blit"}
  BY <1>1, Found DEF AfterOK
<1>4. CASE Head(after) = "set"
  <2>1. Begin("set", "first", <<>>) /\ UNCHANGED service
    BY <1>4 DEF StatusTail
  <2> QED
    BY <1>2, <2>1, PlainCall DEF Ops
<1>5. CASE Head(after) = "path" /\ path = "writeback"
  <2>1. UNCHANGED <<service, pathChange, msg, frames, thread, disable, lock, call>>
    BY <1>5 DEF StatusTail
  <2>2. ServiceOK' /\ CallOK' /\ CableMeansConnected'
    BY <2>1, Found DEF ServiceOK, CallOK, service, IInv, CableMeansConnected
  <2>3. CallerHolds'
    BY <2>1 DEF IInv, CallerHolds, SpinSlot
  <2> QED
    BY <1>2, <2>1, <2>2, <2>3, Found, CallerKeeps
<1>6. CASE Head(after) = "path" /\ path # "writeback"
  <2>1. Begin("path", "first", <<>>) /\ UNCHANGED service
    BY <1>6 DEF StatusTail
  <2> QED
    BY <1>2, <2>1, PlainCall DEF Ops
<1>7. CASE Head(after) = "blit"
  <2>1. Blit2Hdmi("mirror")
    BY <1>7 DEF StatusTail
  <2> QED
    BY <1>2, <2>1, Blit2HdmiInv DEF Modes
<1> QED
  BY <1>3, <1>4, <1>5, <1>6, <1>7

-----------------------------------------------------------------------------
(* The steps of a call. *)

\* A call that goes on to another place.
LEMMA AtTyped ==
  ASSUME IInv, NEW a \in Places, At(a)
  PROVE  CallOK' /\ call'.at = a /\ call'.op = call.op /\ SpinSlot' = SpinSlot
BY Found DEF At, CallOK, SpinSlot

LEMMA SpinInv == ASSUME IInv, Spin PROVE IInv'
<1>1. call.at = "spin" /\ CallerHolds
  BY DEF Spin, IInv
<1>2. UNCHANGED <<service, pathChange, msg, frames, thread, disable, lock, after>>
  BY DEF Spin
<1>3. ServiceOK' /\ AfterOK' /\ CableMeansConnected'
  BY <1>2, Found DEF ServiceOK, AfterOK, service, IInv, CableMeansConnected
<1>4. CASE msg[SpinSlot] = 0
  <2>1. At("first")
    BY <1>4 DEF Spin, Seen
  <2>2. CallOK' /\ call'.at = "first" /\ call'.op = call.op /\ SpinSlot' = SpinSlot
    BY <2>1, AtTyped DEF Places
  <2>3. CallerHolds'
    BY <1>1, <1>2, <1>4, <2>2 DEF CallerHolds, Inside
  <2> QED
    BY <1>2, <1>3, <2>2, <2>3, Found, CallerKeeps
<1>5. CASE msg[SpinSlot] # 0
  <2>1. At("spin")
    BY <1>5 DEF Spin, Seen
  <2>2. CallOK' /\ call'.at = "spin" /\ call'.op = call.op
    BY <2>1, AtTyped DEF Places
  <2>3. CallerHolds'
    BY <1>1, <2>2 DEF CallerHolds, Inside
  <2> QED
    BY <1>2, <1>3, <2>2, <2>3, Found, CallerKeeps
<1> QED
  BY <1>4, <1>5

\* The disable mutex was free, so no flush of that layer is under way.
LEMMA GuardInv == ASSUME IInv, Guard PROVE IInv'
<1>1. TypeOK /\ WokenHasMessage /\ Owners /\ CallerHolds /\ CableMeansConnected
  BY DEF IInv
<1>2. UNCHANGED <<service, pathChange, msg, frames, thread, lock, after>>
  BY DEF Guard
<1>3. call.at = "guard" /\ disable[SpinSlot] = "none" /\ At("first")
  BY DEF Guard
<1>4. disable' = [disable EXCEPT ![SpinSlot] = "caller"]
  BY DEF Guard
<1>5. CallOK' /\ call'.at = "first" /\ call'.op = call.op /\ SpinSlot' = SpinSlot
  BY <1>3, AtTyped DEF Places
<1>6. CallerHolds'
  BY <1>1, <1>3, <1>4, <1>5, SpinSlotTyped DEF CallerHolds, Inside, TypeOK
<1>7. Owners' /\ WokenHasMessage'
  BY <1>1, <1>2, <1>3, <1>4, SpinSlotTyped DEF Owners, WokenHasMessage, TypeOK, thread
<1>8. TypeOK'
  BY <1>1, <1>2, <1>4, <1>5, SpinSlotTyped DEF TypeOK, CallOK, service, thread
<1>9. CableMeansConnected'
  BY <1>1, <1>2 DEF CableMeansConnected, service
<1> QED
  BY <1>6, <1>7, <1>8, <1>9 DEF IInv

\* The two locks of ExynosHdmi.
LEMMA LockInv == ASSUME IInv, LockFirst \/ LockSecond PROVE IInv'
<1>1. CallerHolds
  BY DEF IInv
<1>2. UNCHANGED <<service, pathChange, msg, frames, thread, disable, after>>
  BY DEF LockFirst, LockSecond
<1>3. ServiceOK' /\ AfterOK' /\ CableMeansConnected'
  BY <1>2, Found DEF ServiceOK, AfterOK, service, IInv, CableMeansConnected
<1>4. lock' \in [Slots -> Slots \cup {"none", "caller"}]
  BY Found DEF LockFirst, LockSecond
<1>5. PICK a \in {"second", "body"} : call.at \in Inside /\ At(a)
  BY DEF LockFirst, LockSecond, Inside
<1>6. CallOK' /\ call'.at = a /\ call'.op = call.op /\ SpinSlot' = SpinSlot
  BY <1>5, AtTyped DEF Places
<1>7. CallerHolds'
  BY <1>1, <1>2, <1>5, <1>6 DEF CallerHolds, Inside
<1> QED
  BY <1>2, <1>3, <1>4, <1>6, <1>7, CallerKeeps

LEMMA UnlockTyped ==
  ASSUME Unlock PROVE lock' \in [Slots -> Slots \cup {"none", "caller"}]
BY DEF Unlock

\* A call that ends.
LEMMA EndTyped ==
  ASSUME call' = Idle PROVE CallOK' /\ CallerHolds'
BY IdleTyped DEF CallOK, CallerHolds, Inside

\* The clear of one layer gives its disable mutex back.
LEMMA ClearBodyInv == ASSUME IInv, Body, call.op = "clear" PROVE IInv'
<1>1. TypeOK /\ WokenHasMessage /\ Owners /\ CallerHolds /\ CableMeansConnected
  BY DEF IInv
<1>2. UNCHANGED <<service, pathChange, msg, frames, thread, after>>
  BY DEF Body, service
<1>3. /\ disable' = [disable EXCEPT ![SpinSlot] = "none"]
      /\ call' = (IF Len(call.layers) > 1 THEN NextLayer ELSE Idle)
      /\ call.at = "body" /\ Unlock
  BY DEF Body
<1>4. disable[SpinSlot] = "caller"
  BY <1>1, <1>3 DEF CallerHolds, Inside
<1>5. CallOK' /\ CallerHolds'
  <2>1. CASE Len(call.layers) > 1
    <3>1. call \in [op : Ops, at : Places, layers : Seq(Layers)] /\ Len(call.layers) <= 3
      BY <1>1 DEF TypeOK
    <3>2. Tail(call.layers) \in Seq(Layers) /\ Len(Tail(call.layers)) <= 3
      BY <2>1, <3>1
    <3>3. call' = [call EXCEPT !.at = "guard", !.layers = Tail(call.layers)]
      BY <1>3, <2>1 DEF NextLayer
    <3>4. CallOK' /\ call'.at = "guard" /\ call'.op = "clear"
      BY <3>1, <3>2, <3>3 DEF CallOK, Places
    <3> QED
      BY <3>4 DEF CallerHolds, Inside
  <2>2. CASE ~(Len(call.layers) > 1)
    BY <1>3, <2>2, EndTyped
  <2> QED
    BY <2>1, <2>2
<1>6. Owners' /\ WokenHasMessage'
  BY <1>1, <1>2, <1>3, <1>4, SpinSlotTyped DEF Owners, WokenHasMessage, TypeOK, thread
<1>7. TypeOK'
  BY <1>1, <1>2, <1>3, <1>5, SpinSlotTyped, UnlockTyped DEF TypeOK, CallOK, service, thread
<1>8. CableMeansConnected'
  BY <1>1, <1>2 DEF CableMeansConnected, service
<1> QED
  BY <1>5, <1>6, <1>7, <1>8 DEF IInv

LEMMA BodyInv == ASSUME IInv, Body PROVE IInv'
<1>1. CASE call.op = "clear"
  BY <1>1, ClearBodyInv
<1>2. CASE call.op # "clear"
  <2>1. UNCHANGED <<msg, frames, thread, disable, after>> /\ Unlock /\ call.at = "body"
    BY <1>2 DEF Body
  <2>2. AfterOK' /\ CableMeansConnected /\ CallerHolds
    BY <2>1, Found DEF AfterOK, IInv
  <2>3. CASE call.op = "connect"
    <3>1. At("flags") /\ UNCHANGED <<service, pathChange>>
      BY <2>3 DEF Body
    <3>2. CallOK' /\ call'.at = "flags" /\ call'.op = "connect"
      BY <2>3, <3>1, AtTyped DEF Places
    <3>3. CallerHolds' /\ ServiceOK' /\ CableMeansConnected'
      BY <2>2, <3>1, <3>2, Found DEF CallerHolds, Inside, ServiceOK, service, CableMeansConnected
    <3> QED
      BY <2>1, <2>2, <3>2, <3>3, UnlockTyped, CallerKeeps
  <2>4. CASE call.op = "disconnect"
    <3>1. /\ cable' = FALSE /\ connected' \in {connected, FALSE} /\ call' = Idle
          /\ UNCHANGED <<path, hwcLayer, enable, pathChange>>
      BY <2>4 DEF Body
    <3>2. ServiceOK' /\ CableMeansConnected'
      BY <3>1, Found DEF ServiceOK, CableMeansConnected
    <3> QED
      BY <2>1, <2>2, <3>1, <3>2, EndTyped, UnlockTyped, CallerKeeps
  <2>5. CASE call.op = "path"
    <3>1. /\ path' = (IF path = "overlay" THEN "writeback" ELSE "overlay")
          /\ pathChange' = TRUE /\ call' = Idle
          /\ UNCHANGED <<cable, connected, hwcLayer, enable>>
      BY <2>5 DEF Body
    <3>2. ServiceOK' /\ CableMeansConnected'
      BY <2>2, <3>1, Found DEF ServiceOK, CableMeansConnected, Paths
    <3> QED
      BY <2>1, <2>2, <3>1, <3>2, EndTyped, UnlockTyped, CallerKeeps
  <2>6. CASE call.op \notin {"connect", "disconnect", "path"}
    <3>1. call' = Idle /\ UNCHANGED <<service, pathChange>>
      BY <1>2, <2>6 DEF Body
    <3>2. ServiceOK' /\ CableMeansConnected'
      BY <2>2, <3>1, Found DEF ServiceOK, CableMeansConnected, service
    <3> QED
      BY <2>1, <2>2, <3>1, <3>2, EndTyped, UnlockTyped, CallerKeeps
  <2> QED
    BY <2>3, <2>4, <2>5, <2>6
<1> QED
  BY <1>1, <1>2

LEMMA FlagsInv == ASSUME IInv, Flags PROVE IInv'
<1>1. /\ call' = Idle
      /\ UNCHANGED <<path, hwcLayer, enable, msg, frames, thread, disable, lock>>
  BY DEF Flags
<1>2. ServiceOK' /\ AfterOK' /\ CableMeansConnected'
  <2>1. CASE /\ cable' = TRUE /\ connected' = TRUE
             /\ pathChange' = (pathChange \/ ~connected)
             /\ after' = <<"set">> \o (IF enable THEN <<"path", "blit">> ELSE <<>>)
    <3>1. ServiceOK' /\ CableMeansConnected'
      BY <1>1, <2>1, Found DEF ServiceOK, CableMeansConnected
    <3> DEFINE rest == IF enable THEN <<"path", "blit">> ELSE <<>>
    <3>2. rest \in Seq({"set", "path", "blit"}) /\ Len(rest) <= 2
      <4>1. CASE enable  BY <4>1
      <4>2. CASE ~enable BY <4>2
      <4> QED BY <4>1, <4>2
    <3>3. <<"set">> \in Seq({"set", "path", "blit"}) /\ Len(<<"set">>) = 1
      OBVIOUS
    <3>4. after' = <<"set">> \o rest
      BY <2>1
    <3> HIDE DEF rest
    <3>5. /\ <<"set">> \o rest \in Seq({"set", "path", "blit"})
          /\ Len(<<"set">> \o rest) = Len(<<"set">>) + Len(rest)
      BY <3>2, <3>3
    <3>6. AfterOK'
      BY <3>2, <3>3, <3>4, <3>5 DEF AfterOK
    <3> QED
      BY <3>1, <3>6
  <2>2. CASE UNCHANGED <<cable, connected, pathChange, after>>
    BY <1>1, <2>2, Found DEF ServiceOK, AfterOK, IInv, CableMeansConnected
  <2> QED
    BY <2>1, <2>2 DEF Flags
<1> QED
  BY <1>1, <1>2, EndTyped, Found, CallerKeeps

-----------------------------------------------------------------------------
LEMMA StutterInv == ASSUME IInv, UNCHANGED vars PROVE IInv'
<1>1. UNCHANGED <<service, pathChange, msg, frames, thread, disable, lock, call, after>>
  BY DEF vars
<1>2. ServiceOK' /\ AfterOK' /\ CallOK' /\ CallerHolds' /\ CableMeansConnected'
  BY <1>1, Found DEF ServiceOK, AfterOK, CallOK, CallerHolds, SpinSlot, service, IInv,
                     CableMeansConnected
<1> QED
  BY <1>1, <1>2, Found, CallerKeeps

LEMMA NextInv == ASSUME IInv, [Next]_vars PROVE IInv'
<1>1. CASE \E s \in Slots : Thread(s)
  BY <1>1, ThreadInv
<1>2. CASE SetStatus \/ Set \/ SetPath \/ SetHwcLayer
  BY <1>2, SetStatusInv, SetInv, SetPathInv, SetHwcLayerInv
<1>3. CASE \E on \in BOOLEAN : SetClearLayer(on)
  BY <1>3, SetClearLayerInv
<1>4. CASE \E l \in Layers : SetLayerDisable(l)
  BY <1>4, SetLayerDisableInv
<1>5. CASE \E mode \in Modes : Blit2Hdmi(mode) /\ UNCHANGED after
  <2>1. AfterOK'
    BY <1>5, Found DEF AfterOK
  <2> QED
    BY <1>5, <2>1, Blit2HdmiInv
<1>6. CASE StatusTail
  BY <1>6, StatusTailInv
<1>7. CASE Continue
  BY <1>7, SpinInv, GuardInv, LockInv, BodyInv, FlagsInv DEF Continue
<1>8. CASE UNCHANGED vars
  BY <1>8, StutterInv
<1> QED
  BY <1>1, <1>2, <1>3, <1>4, <1>5, <1>6, <1>7, <1>8 DEF Next, Caller

\* The inductive invariant holds in every behaviour of the service.
THEOREM Invariance == Spec => []IInv
BY InitInv, NextInv, PTL DEF Spec

\* The variables of the service keep their types.
THEOREM TypeCorrect == Spec => []TypeOK
<1>1. IInv => TypeOK
  BY DEF IInv
<1> QED
  BY <1>1, Invariance, PTL

\* The flush of a woken thread never follows a NULL message, however many
\* frames are posted and whatever the binder calls do meanwhile.
THEOREM WokenFindsMessage == Spec => []WokenHasMessage
<1>1. IInv => WokenHasMessage
  BY DEF IInv
<1> QED
  BY <1>1, Invariance, PTL

\* The spin on the mailbox and the disable mutex keep the flush thread out while
\* its layer is cleared or disabled.
THEOREM StoppedIsQuiet == Spec => []QuietWhenStopped
<1>1. IInv => QuietWhenStopped
  BY SpinSlotTyped DEF IInv, QuietWhenStopped, WokenHasMessage, Owners, CallerHolds, Inside
<1> QED
  BY <1>1, Invariance, PTL

\* The service believes in a cable only while ExynosHdmi is connected.
THEOREM CableTruth == Spec => []CableMeansConnected
<1>1. IInv => CableMeansConnected
  BY DEF IInv
<1> QED
  BY <1>1, Invariance, PTL

-----------------------------------------------------------------------------
(* The two locks of ExynosHdmi.  A flush owns the lock of its layer until it   *)
(* has drawn, although it gives the other one back before; a method owns the   *)
(* first lock while it waits for the second, and both in its body.             *)

Held ==
  /\ \A s \in Slots : fpc[s] \in {"other", "flush"} => lock[s] = s
  /\ call.at \in {"second", "body"} => lock["ui"] = "caller"
  /\ call.at = "body" => lock["video"] = "caller"

LEMMA HeldQuiets == Held => MethodsExcludeFlushes
BY DEF Held, MethodsExcludeFlushes, Slots

\* A thread takes a free lock and gives back its own.
LEMMA ThreadHeld ==
  ASSUME TypeOK, Held, NEW s \in Slots, Thread(s), call' = call
  PROVE  Held'
<1>1. CASE LockOwn(s)
  <2>1. PICK at \in {"other", "flush"} : fpc' = [fpc EXCEPT ![s] = at]
    BY <1>1 DEF LockOwn, Goes
  <2>2. lock[s] = "none" /\ lock' = [lock EXCEPT ![s] = s]
    BY <1>1 DEF LockOwn
  <2> QED
    BY <2>1, <2>2 DEF TypeOK, Held, Slots
<1>2. CASE DoFlush(s)
  <2>1. /\ fpc[s] = "flush" /\ fpc' = [fpc EXCEPT ![s] = "done"]
        /\ lock' = [lock EXCEPT ![s] = "none"]
    BY <1>2 DEF DoFlush, Goes
  <2> QED
    BY <2>1 DEF TypeOK, Held, Slots
<1>3. CASE PassOther(s)
  BY <1>3 DEF TypeOK, Held, PassOther, Goes
<1>4. CASE Wait(s) \/ LockDisable(s) \/ ReadArg(s) \/ Finish(s)
  <2>1. PICK at \in {"waiting", "args", "lock", "top"} : fpc' = [fpc EXCEPT ![s] = at]
    BY <1>4 DEF Wait, LockDisable, ReadArg, Finish, Goes
  <2>2. lock' = lock
    BY <1>4 DEF Wait, LockDisable, ReadArg, Finish
  <2> QED
    BY <2>1, <2>2 DEF TypeOK, Held
<1> QED
  BY <1>1, <1>2, <1>3, <1>4 DEF Thread

\* A step of the service that leaves the locks alone and is not in their body.
LEMMA CallerHeld ==
  ASSUME Held, lock' = lock, call'.at \notin {"second", "body"} \/ call' = call,
         \A s \in Slots : fpc'[s] \in {"other", "flush"} => fpc[s] \in {"other", "flush"}
  PROVE  Held'
BY DEF Held

LEMMA BeginHeld ==
  ASSUME Held, NEW op, NEW at \in Places \ {"second", "body"}, NEW layers,
         Begin(op, at, layers)
  PROVE  Held'
<1>1. lock' = lock /\ fpc' = fpc /\ call'.at = at
  BY DEF Begin, thread
<1> QED
  BY <1>1, CallerHeld

LEMMA BlitHeld ==
  ASSUME TypeOK, Held, NEW mode \in Modes, Blit2Hdmi(mode)
  PROVE  Held'
<1>1. lock' = lock /\ call' = call
  BY DEF Blit2Hdmi
<1>2. ASSUME NEW s \in Slots, fpc'[s] \in {"other", "flush"}
      PROVE  fpc[s] \in {"other", "flush"}
  BY <1>2 DEF TypeOK, Blit2Hdmi, Deliver, Slots
<1> QED
  BY <1>1, <1>2, CallerHeld

\* A call that starts, or one that needs no lock.
LEMMA StartHeld ==
  ASSUME TypeOK, Held,
         \/ SetStatus \/ Set \/ SetPath \/ SetHwcLayer \/ StatusTail
         \/ \E on \in BOOLEAN : SetClearLayer(on)
         \/ \E l \in Layers : SetLayerDisable(l)
  PROVE  Held'
<1>1. CASE SetStatus
  <2>1. PICK op \in Ops : Begin(op, "first", <<>>)
    BY <1>1 DEF SetStatus, Ops
  <2> QED
    BY <2>1, BeginHeld DEF Places
<1>2. CASE Set \/ SetPath
  <2>1. PICK op \in Ops : Begin(op, "first", <<>>)
    BY <1>2 DEF Set, SetPath, Ops
  <2> QED
    BY <2>1, BeginHeld DEF Places
<1>3. CASE SetHwcLayer
  BY <1>3, CallerHeld DEF SetHwcLayer, thread
<1>4. CASE StatusTail
  <2>1. CASE \E op \in Ops : Begin(op, "first", <<>>)
    BY <2>1, BeginHeld DEF Places
  <2>2. CASE UNCHANGED <<thread, lock, call>>
    BY <2>2, CallerHeld DEF thread
  <2>3. CASE Blit2Hdmi("mirror")
    BY <2>3, BlitHeld DEF Modes
  <2>4. CASE Head(after) = "set"
    BY <1>4, <2>1, <2>4 DEF StatusTail, Ops
  <2>5. CASE Head(after) = "path"
    BY <1>4, <2>1, <2>2, <2>5 DEF StatusTail, Ops
  <2>6. CASE Head(after) = "blit"
    BY <1>4, <2>3, <2>6 DEF StatusTail
  <2>7. after # <<>> /\ after \in Seq({"set", "path", "blit"})
    BY <1>4 DEF StatusTail, TypeOK
  <2>8. Head(after) \in {"set", "path", "blit"}
    BY <2>7
  <2> QED
    BY <2>4, <2>5, <2>6, <2>8
<1>5. ASSUME NEW on \in BOOLEAN, SetClearLayer(on) PROVE Held'
  <2>1. CASE Begin("clear", "guard", <<"video", "graphic0", "graphic1">>)
    BY <2>1, BeginHeld DEF Places
  <2>2. CASE UNCHANGED <<thread, lock, call>>
    BY <2>2, CallerHeld DEF thread
  <2> QED
    BY <1>5, <2>1, <2>2 DEF SetClearLayer
<1>6. ASSUME NEW l \in Layers, SetLayerDisable(l) PROVE Held'
  BY <1>6, BeginHeld DEF SetLayerDisable, Places
<1> QED
  BY <1>1, <1>2, <1>3, <1>4, <1>5, <1>6

\* A call takes the locks in one order and gives both back at its end.
LEMMA ContinueHeld ==
  ASSUME TypeOK, Held, Continue
  PROVE  Held'
<1>1. CASE Spin
  <2>1. lock' = lock /\ fpc' = fpc
    BY <1>1 DEF Spin, thread
  <2>2. call' \in {[call EXCEPT !.at = "first"], [call EXCEPT !.at = "spin"]}
    BY <1>1 DEF Spin, At
  <2> QED
    BY <2>1, <2>2, CallerHeld DEF TypeOK
<1>2. CASE Guard
  BY <1>2, CallerHeld DEF Guard, At, TypeOK, thread
<1>3. CASE LockFirst
  <2>1. /\ lock["ui"] = "none" /\ lock' = [lock EXCEPT !["ui"] = "caller"]
        /\ call' = [call EXCEPT !.at = "second"] /\ fpc' = fpc
    BY <1>3 DEF LockFirst, At, thread
  <2> QED
    BY <2>1 DEF Held, TypeOK, Slots
<1>4. CASE LockSecond
  <2>1. /\ lock["video"] = "none" /\ lock' = [lock EXCEPT !["video"] = "caller"]
        /\ call' = [call EXCEPT !.at = "body"] /\ fpc' = fpc /\ call.at = "second"
    BY <1>4 DEF LockSecond, At, thread
  <2> QED
    BY <2>1 DEF Held, TypeOK, Slots
<1>5. CASE Body
  <2>1. \A s \in Slots : fpc[s] \notin {"other", "flush"}
    BY <1>5 DEF Body, Held, Slots
  <2>2. fpc' = fpc
    BY <1>5 DEF Body, thread
  <2>3. call'.at \notin {"second", "body"}
    <3>1. CASE call.op = "connect"
      BY <1>5, <3>1 DEF Body, At, TypeOK
    <3>2. CASE call.op = "clear"
      <4>1. call' \in {NextLayer, Idle}
        BY <1>5, <3>2 DEF Body
      <4> QED
        BY <4>1, IdleTyped DEF NextLayer, TypeOK
    <3>3. CASE call.op \notin {"connect", "clear"}
      <4>1. call' = Idle
        BY <1>5, <3>3 DEF Body
      <4> QED
        BY <4>1, IdleTyped
    <3> QED
      BY <3>1, <3>2, <3>3
  <2> QED
    BY <2>1, <2>2, <2>3 DEF Held
<1>6. CASE Flags
  <2>1. lock' = lock /\ fpc' = fpc /\ call' = Idle
    BY <1>6 DEF Flags, thread
  <2> QED
    BY <2>1, IdleTyped, CallerHeld
<1> QED
  BY <1>1, <1>2, <1>3, <1>4, <1>5, <1>6 DEF Continue

\* The body of a method of ExynosHdmi and the drawing of a flush exclude each
\* other, whatever path change makes the flush take and give back the second lock.
THEOREM BodyExcludesFlush == Spec => []MethodsExcludeFlushes
<1>1. Init => Held
  BY IdleTyped DEF Init, Held
<1>2. ASSUME IInv, Held, [Next]_vars PROVE Held'
  <2>1. TypeOK
    BY <1>2 DEF IInv
  <2>2. ASSUME NEW s \in Slots, Thread(s) PROVE Held'
    BY <1>2, <2>1, <2>2, ThreadKeeps, ThreadHeld
  <2>3. ASSUME NEW mode \in Modes, Blit2Hdmi(mode) PROVE Held'
    BY <1>2, <2>1, <2>3, BlitHeld
  <2>4. CASE UNCHANGED vars
    BY <1>2, <2>4, CallerHeld DEF vars, thread
  <2> QED
    BY <1>2, <2>1, <2>2, <2>3, <2>4, StartHeld, ContinueHeld DEF Next, Caller
<1> QED
  BY <1>1, <1>2, HeldQuiets, Invariance, PTL DEF Spec
=============================================================================
