------------------------------- MODULE TVOut -------------------------------
(* The TV-out service (libhdmi/libhdmiservice/ExynosTVOutService.cpp): binder  *)
(* calls hand frames to two flush threads through one-message mailboxes, and   *)
(* both sides meet in the two locks of ExynosHdmi.                             *)
(*                                                                             *)
(* Every service method runs under mLock, so one caller stands for all binder  *)
(* threads.  What ExynosHdmi does under its locks is module Hdmi; here only    *)
(* the locks, the connection and mHdmiPathChange matter.  The critical         *)
(* sections of sync_mutex_X are single steps.  Wake-ups are never spurious     *)
(* (assumption: the code has no predicate around pthread_cond_wait).           *)
EXTENDS Naturals, Sequences

CONSTANTS MaxFrames,   \* bound: frames handed over in one behaviour
          Moves        \* TRUE: cable and path change while frames flow

ASSUME TVOutAssumption == MaxFrames \in Nat \ {0} /\ Moves \in BOOLEAN

Slots    == {"ui", "video"}
Layers   == {"video", "graphic0", "graphic1"}
Paths    == {"writeback", "overlay"}
Modes    == {"mirror", "ui", "video"}
Frames   == 0..MaxFrames               \* 0 is the NULL message
Other(s) == IF s = "ui" THEN "video" ELSE "ui"
SlotOf(l) == IF l = "video" THEN "video" ELSE "ui"

VARIABLES
  cable,       \* mHdmiCableInserted
  connected,   \* ExynosHdmi::mFlagConnected
  path,        \* mHdmiPath
  hwcLayer,    \* mHwcLayer # 0
  enable,      \* mEnable
  pathChange,  \* ExynosHdmi::mHdmiPathChange
  msg,         \* mMsgForUI, mMsgForVideo
  frames,      \* frames handed over so far
  fpc,         \* where each flush thread is
  arg,         \* the arguments of each thread's last flush
  shown,       \* newest frame each thread gave to the hardware
  disable,     \* owners of sync_mutex_disable_X
  lock,        \* owners of mLock_UI and mLock_VIDEO
  call,        \* the service call under mLock, and where it is
  after         \* the calls setHdmiStatus still makes after it left mLock

service == <<cable, connected, path, hwcLayer, enable>>
thread  == <<fpc, arg, shown>>
vars == <<service, pathChange, msg, frames, thread, disable, lock, call, after>>

Ops    == {"none", "connect", "disconnect", "set", "path", "disable", "clear"}
Places == {"idle", "spin", "guard", "first", "second", "body", "flags"}
Idle == [op |-> "none", at |-> "idle", layers |-> <<>>]

TypeOK ==
  /\ cable \in BOOLEAN /\ connected \in BOOLEAN /\ path \in Paths
  /\ hwcLayer \in BOOLEAN /\ enable \in BOOLEAN /\ pathChange \in BOOLEAN
  /\ msg \in [Slots -> Frames] /\ frames \in Frames
  /\ fpc \in [Slots -> {"top", "waiting", "woken", "args", "lock", "other", "flush", "done"}]
  /\ arg \in [Slots -> [size : Frames, addr : Frames]]
  /\ shown \in [Slots -> Frames]
  /\ disable \in [Slots -> {"none", "caller", "thread"}]
  /\ lock \in [Slots -> Slots \cup {"none", "caller"}]
  /\ call \in [op : Ops, at : Places, layers : Seq(Layers)] /\ Len(call.layers) <= 3
  /\ after \in Seq({"set", "path", "blit"}) /\ Len(after) <= 3

Init ==
  /\ cable \in BOOLEAN /\ connected = cable     \* the boot-time connect
  /\ pathChange = (Moves /\ cable)
  /\ path \in (IF Moves THEN {"writeback"} ELSE Paths)
  /\ hwcLayer = FALSE /\ enable = FALSE
  /\ msg = [s \in Slots |-> 0] /\ frames = 0
  /\ fpc = [s \in Slots |-> "top"]
  /\ arg = [s \in Slots |-> [size |-> 0, addr |-> 0]]
  /\ shown = [s \in Slots |-> 0]
  /\ disable = [s \in Slots |-> "none"] /\ lock = [s \in Slots |-> "none"]
  /\ call = Idle /\ after = <<>>

-----------------------------------------------------------------------------
(* Flush threads. *)

Goes(s, at) == fpc' = [fpc EXCEPT ![s] = at]

\* Enters pthread_cond_wait: a signal sent before this step is lost.
Wait(s) ==
  /\ fpc[s] = "top" /\ Goes(s, "waiting")
  /\ UNCHANGED <<service, pathChange, msg, frames, arg, shown, disable, lock, call, after>>

LockDisable(s) ==
  /\ fpc[s] = "woken" /\ disable[s] = "none"
  /\ Goes(s, "args") /\ disable' = [disable EXCEPT ![s] = "thread"]
  /\ arg' = [arg EXCEPT ![s] = [size |-> 0, addr |-> 0]]
  /\ UNCHANGED <<service, pathChange, msg, frames, shown, lock, call, after>>

\* The arguments are read one by one from a mailbox that blit2Hdmi may
\* overwrite meanwhile, in an order C++ leaves open: the size and the addresses
\* stand for all of them.
ReadArg(s) ==
  /\ fpc[s] = "args"
  /\ \E field \in {f \in {"size", "addr"} : arg[s][f] = 0} :
       arg' = [arg EXCEPT ![s][field] = msg[s]]
  /\ Goes(s, IF 0 \in {arg'[s].size, arg'[s].addr} THEN "args" ELSE "lock")
  /\ UNCHANGED <<service, pathChange, msg, frames, shown, disable, lock, call, after>>

\* Mutant: the Autolock of its own layer, too, ends before the drawing.
LockOwnScoped(s) ==
  /\ fpc[s] = "lock" /\ lock[s] = "none"
  /\ Goes(s, IF pathChange THEN "other" ELSE "flush")
  /\ UNCHANGED <<service, pathChange, msg, frames, arg, shown, disable, lock, call, after>>

\* ExynosHdmi::flush takes the lock of its own layer for the whole call.
LockOwn(s) ==
  /\ fpc[s] = "lock" /\ lock[s] = "none"
  /\ lock' = [lock EXCEPT ![s] = s]
  /\ Goes(s, IF pathChange THEN "other" ELSE "flush")
  /\ UNCHANGED <<service, pathChange, msg, frames, arg, shown, disable, call, after>>

\* The Autolock on the other layer ends with the if-statement it stands in.
PassOther(s) ==
  /\ fpc[s] = "other" /\ lock[Other(s)] = "none"
  /\ Goes(s, "flush")
  /\ UNCHANGED <<service, pathChange, msg, frames, arg, shown, disable, lock, call, after>>

\* m_Doflush: refused without a connection; otherwise it may show the frame,
\* and may settle the path change; either may fail.
DoFlush(s) ==
  /\ fpc[s] = "flush" /\ Goes(s, "done")
  /\ lock' = [lock EXCEPT ![s] = "none"]
  /\ \/ ~connected /\ UNCHANGED <<pathChange, shown>>
     \/ /\ connected /\ pathChange' \in {pathChange, FALSE}
        /\ shown' = [shown EXCEPT ![s] = arg[s].addr]
     \/ connected /\ UNCHANGED <<pathChange, shown>>
  /\ UNCHANGED <<service, msg, frames, arg, disable, call, after>>

\* Mutant: a flush that failed leaves the loop body before it clears the mailbox.
FinishedIfShown(s) == msg' = [msg EXCEPT ![s] = IF shown[s] = arg[s].addr THEN 0 ELSE @]

\* mMsgForX = NULL, whatever it holds by now, then sync_mutex_disable_X.
Finished(s) == msg' = [msg EXCEPT ![s] = 0]
Finish(s) ==
  /\ fpc[s] = "done" /\ Goes(s, "top") /\ Finished(s)
  /\ disable' = [disable EXCEPT ![s] = "none"]
  /\ UNCHANGED <<service, pathChange, frames, arg, shown, lock, call, after>>

Thread(s) ==
  \/ Wait(s) \/ LockDisable(s) \/ ReadArg(s) \/ LockOwn(s)
  \/ PassOther(s) \/ DoFlush(s) \/ Finish(s)

-----------------------------------------------------------------------------
(* Service calls.  Begin enters mLock; a call that reaches ExynosHdmi takes    *)
(* mLock_UI, then mLock_VIDEO, and leaves mLock when it is done.               *)

Begin(op, at, layers) ==
  /\ call.at = "idle"
  /\ call' = [op |-> op, at |-> at, layers |-> layers]
  /\ UNCHANGED <<pathChange, msg, frames, thread, disable, lock>>

\* setHdmiStatus: nothing to do when the cable is already so.
SetStatus ==
  /\ Moves /\ after = <<>>
  /\ Begin(IF cable THEN "disconnect" ELSE "connect", "first", <<>>)
  /\ UNCHANGED <<service, after>>

\* Mode, resolution, HDCP, rotation, DRM and layer enable only take the locks.
Set == Begin("set", "first", <<>>) /\ UNCHANGED <<service, after>>

SetPath ==
  Moves /\ Begin("path", "first", <<>>) /\ UNCHANGED <<service, after>>

SetHwcLayer ==
  /\ call.at = "idle" /\ hwcLayer' = ~hwcLayer
  /\ UNCHANGED <<cable, connected, path, enable, pathChange, msg, frames, thread,
                 disable, lock, call, after>>

SetClearLayer(on) ==
  /\ enable' = on
  /\ IF on \/ ~cable
     THEN /\ call.at = "idle"
          /\ UNCHANGED <<pathChange, msg, frames, thread, disable, lock, call>>
     ELSE Begin("clear", "guard", <<"video", "graphic0", "graphic1">>)
  /\ UNCHANGED <<cable, connected, path, hwcLayer, after>>

SetLayerDisable(l) ==
  /\ cable /\ Begin("disable", "spin", <<l>>)
  /\ UNCHANGED <<service, after>>

\* Which frames blit2Hdmi takes: a mirror only of the writeback path and when
\* the composer has no layer of its own, everything else only for the overlay.
Takes(mode) ==
  /\ cable
  /\ IF mode = "mirror" THEN ~hwcLayer /\ path = "writeback" ELSE path = "overlay"

\* Mutant: one of blit2Hdmi's four copies writes the other mailbox.
DeliverCrossed(s) ==
  /\ msg' = [msg EXCEPT ![Other(s)] = frames + 1]
  /\ fpc' = [fpc EXCEPT ![s] = IF @ = "waiting" THEN "woken" ELSE @]

\* The message replaces the one before it; the signal wakes the thread only if
\* it waits already.
Deliver(s) ==
  /\ msg' = [msg EXCEPT ![s] = frames + 1]
  /\ fpc' = [fpc EXCEPT ![s] = IF @ = "waiting" THEN "woken" ELSE @]

Blit2Hdmi(mode) ==
  /\ call.at = "idle"
  /\ IF Takes(mode)
     THEN /\ frames < MaxFrames /\ frames' = frames + 1
          /\ Deliver(IF mode = "video" THEN "video" ELSE "ui")
     ELSE UNCHANGED <<msg, fpc, frames>>
  /\ UNCHANGED <<service, pathChange, arg, shown, disable, lock, call>>

\* What setHdmiStatus does after it left mLock: other calls may come between.
StatusTail ==
  /\ after # <<>> /\ after' = Tail(after)
  /\ CASE Head(after) = "set"  -> Begin("set", "first", <<>>) /\ UNCHANGED service
       [] Head(after) = "path" ->
            /\ UNCHANGED service
            /\ IF path = "writeback"
               THEN /\ call.at = "idle"
                    /\ UNCHANGED <<pathChange, msg, frames, thread, disable, lock, call>>
               ELSE Begin("path", "first", <<>>)
       [] Head(after) = "blit" -> Blit2Hdmi("mirror")

-----------------------------------------------------------------------------
(* The steps of a call inside mLock. *)

At(a) == call' = [call EXCEPT !.at = a]
NextLayer == [call EXCEPT !.at = "guard", !.layers = Tail(call.layers)]

SpinSlot == SlotOf(Head(call.layers))

\* Mutant: setHdmiLayerDisable looks at the other mailbox.
SeenCrossed(s) == msg[Other(s)]

\* setHdmiLayerDisable leaves its loop once it sees no message, under the
\* disable mutex; otherwise it looks again.
Seen(s) == msg[s]
Spin ==
  /\ call.at = "spin" /\ disable[SpinSlot] = "none"
  /\ At(IF Seen(SpinSlot) = 0 THEN "first" ELSE "spin")
  /\ UNCHANGED <<service, pathChange, msg, frames, thread, disable, lock, after>>

Guard ==
  /\ call.at = "guard" /\ disable[SpinSlot] = "none"
  /\ disable' = [disable EXCEPT ![SpinSlot] = "caller"] /\ At("first")
  /\ UNCHANGED <<service, pathChange, msg, frames, thread, lock, after>>

LockFirst ==
  /\ call.at = "first" /\ lock["ui"] = "none"
  /\ lock' = [lock EXCEPT !["ui"] = "caller"] /\ At("second")
  /\ UNCHANGED <<service, pathChange, msg, frames, thread, disable, after>>

LockSecond ==
  /\ call.at = "second" /\ lock["video"] = "none"
  /\ lock' = [lock EXCEPT !["video"] = "caller"] /\ At("body")
  /\ UNCHANGED <<service, pathChange, msg, frames, thread, disable, after>>

Unlock == lock' = [s \in Slots |-> "none"]

Body ==
  /\ call.at = "body" /\ Unlock
  /\ CASE call.op = "connect" ->
            At("flags") /\ UNCHANGED <<service, pathChange, disable>>
       [] call.op = "disconnect" ->            \* its failure is not looked at
            /\ cable' = FALSE /\ connected' \in {connected, FALSE} /\ call' = Idle
            /\ UNCHANGED <<path, hwcLayer, enable, pathChange, disable>>
       [] call.op = "path" ->
            /\ path' = (IF path = "overlay" THEN "writeback" ELSE "overlay")
            /\ pathChange' = TRUE /\ call' = Idle
            /\ UNCHANGED <<cable, connected, hwcLayer, enable, disable>>
       [] call.op = "clear" ->
            /\ disable' = [disable EXCEPT ![SpinSlot] = "none"]
            /\ call' = (IF Len(call.layers) > 1 THEN NextLayer ELSE Idle)
            /\ UNCHANGED <<service, pathChange>>
       [] OTHER ->
            call' = Idle /\ UNCHANGED <<service, pathChange, disable>>
  /\ UNCHANGED <<msg, frames, thread, after>>

\* Mutant: setHdmiStatus records the cable although connect failed.
FlagsUnchecked ==
  /\ call.at = "flags" /\ call' = Idle
  /\ cable' = TRUE /\ connected' \in {connected, TRUE}
  /\ pathChange' = (pathChange \/ connected' # connected) /\ after' = <<"set">>
  /\ UNCHANGED <<path, hwcLayer, enable, msg, frames, thread, disable, lock>>

\* connect sets its flags after it left both locks; when it was connected all
\* along it sets none; without hot-plug level it fails and the cable is out.
Flags ==
  /\ call.at = "flags" /\ call' = Idle
  /\ \/ /\ cable' = TRUE /\ connected' = TRUE
        /\ pathChange' = (pathChange \/ ~connected)
        /\ after' = <<"set">> \o (IF enable THEN <<"path", "blit">> ELSE <<>>)
     \/ ~connected /\ UNCHANGED <<cable, connected, pathChange, after>>
  /\ UNCHANGED <<path, hwcLayer, enable, msg, frames, thread, disable, lock>>

Continue == Spin \/ Guard \/ LockFirst \/ LockSecond \/ Body \/ Flags

Caller ==
  \/ SetStatus \/ Set \/ SetPath \/ SetHwcLayer
  \/ \E on \in BOOLEAN : SetClearLayer(on)
  \/ \E l \in Layers : SetLayerDisable(l)
  \/ \E mode \in Modes : Blit2Hdmi(mode) /\ UNCHANGED after
  \/ StatusTail \/ Continue

Next == (\E s \in Slots : Thread(s)) \/ Caller

\* The threads run, a call that began goes on, and a mutex that keeps coming
\* free is had in the end: each of the three waits for one mutex at a time.
Fairness == (\A s \in Slots : SF_vars(Thread(s))) /\ SF_vars(Continue)

Spec == Init /\ [][Next]_vars /\ Fairness

-----------------------------------------------------------------------------
InFlush == {"args", "lock", "other", "flush", "done"}

\* A flush thread that left pthread_cond_wait finds a message in its mailbox
\* until it clears it itself: the mMsgForX-> of the flush call never follows NULL.
WokenHasMessage ==
  \A s \in Slots : fpc[s] \in InFlush \cup {"woken"} => msg[s] # 0

\* While setHdmiLayerDisable or setHdmiClearLayer stops a layer, the flush thread
\* that draws on it is not inside a flush, nor about to enter one in the
\* first case: the spin on the mailbox and the disable mutex keep it out.
QuietWhenStopped ==
  call.op \in {"disable", "clear"} /\ call.at \in {"first", "second", "body"} =>
    /\ fpc[SpinSlot] \notin InFlush
    /\ call.op = "disable" => fpc[SpinSlot] # "woken"

\* The body of connect, of disconnect, of a setter or of a clear never runs while a
\* flush thread draws: a flush uses the scalers and mixer layers that disconnect
\* frees, and the one lock it holds to its end must keep both of theirs from them.
\* Two flushes do overlap.
MethodsExcludeFlushes ==
  call.at = "body" => \A s \in Slots : fpc[s] # "flush"

\* The service believes in a cable only while ExynosHdmi is connected, so no
\* setting and no frame is passed to an object that refuses it for good.
CableMeansConnected == cable => connected

\* A frame no flush has read, whose signal found no thread waiting: nothing will
\* wake the thread for it.
Stranded(s) == fpc[s] \in {"top", "waiting"} /\ msg[s] > arg[s].addr

\* With the path settled, every service call returns, setHdmiLayerDisable's spin
\* on the mailbox included, unless the lost
\* wake-up left a frame stranded in a mailbox.
ServiceReturns ==
  (call.at # "idle") ~> (call.at = "idle" \/ \E s \in Slots : Stranded(s))
=============================================================================
