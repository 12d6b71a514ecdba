-------------------------------- MODULE Cec --------------------------------
(***************************************************************************)
(* The CEC thread of ExynosHdmi over libcec: it takes a logical address    *)
(* when a television is connected and answers the bus until it is stopped. *)
(*                                                                         *)
(*   cec   fd is open; thread: "none", "starting" (run was called, its     *)
(*         loop has not begun) or "loop"; flag, paddr, laddr:              *)
(*         mFlagRunning, mPaddr, mLaddr; outlived (ghost): a disconnect    *)
(*         left the thread alone;                                          *)
(*   said  (ghost) the last frame this device sent since the bus or the    *)
(*         connection changed.                                             *)
(*                                                                         *)
(* The logical address the driver filters by is not kept.                  *)
(***************************************************************************)
EXTENDS Integers, Sequences, SequencesExt

CONSTANTS Frames,    \* what the others on the bus say
          CecFaults  \* what may fail: "open", "report"

Opcodes == {"GIVE_PHYSICAL_ADDRESS", "SET_STREAM_PATH", "REQUEST_ACTIVE_SOURCE",
            "GIVE_DEVICE_POWER_STATUS", "REPORT_POWER_STATUS", "USER_CONTROL_PRESSED",
            "GIVE_DECK_STATUS", "PLAY", "FEATURE_ABORT", "VENDOR_COMMAND"}

ASSUME FramesAssumption ==
  Frames \subseteq [op : Opcodes, src : 0 .. 15, broadcast : BOOLEAN, on : BOOLEAN]
ASSUME CecFaultsAssumption == CecFaults \subseteq {"open", "report"}

VARIABLES cec, said

cecVars == <<cec, said>>

Unregistered == 15
Invalid == 65535

\* The logical addresses of a playback device, in the order they are tried.
PlayerAddresses == <<4, 8, 11>>

Silent == [op |-> "none"]
-----------------------------------------------------------------------------
\* Slip: an address that is acknowledged is taken.
AllocatedTaken(paddr, others) ==
  LET taken == {i \in DOMAIN PlayerAddresses : PlayerAddresses[i] \in others}
  IN IF paddr = Invalid \/ taken = {} THEN Unregistered
     ELSE PlayerAddresses[CHOOSE i \in taken : \A j \in taken : i <= j]

\* CECAllocLogicalAddress on a bus where others have their addresses: none for
\* a device without a physical address, or when every one is acknowledged.
Allocated(paddr, others) ==
  LET free == {i \in DOMAIN PlayerAddresses : PlayerAddresses[i] \notin others}
  IN IF paddr = Invalid \/ free = {} THEN Unregistered
     ELSE PlayerAddresses[CHOOSE i \in free : \A j \in free : i <= j]

Report(c) == [op |-> "REPORT_PHYSICAL_ADDRESS", src |-> c.laddr, dst |-> Unregistered, paddr |-> c.paddr]
PowerRequest(c) == [op |-> "GIVE_DEVICE_POWER_STATUS", src |-> c.laddr, dst |-> 0]

\* Thread::run refuses a thread that is alive.
RunThread(c) == IF c.thread = "none" THEN [c EXCEPT !.thread = "starting", !.outlived = FALSE] ELSE c

CecOpen(c) == {[c EXCEPT !.fd = ok] : ok \in IF "open" \in CecFaults THEN BOOLEAN ELSE {TRUE}}
CecClose(c) == [c EXCEPT !.fd = FALSE]

\* CECThread::start, found: the address in the EDID, none: -1; gives the thread
\* and the last frame.
CecStart(c, s, found, others) ==
  IF found = -1 THEN {<<[c EXCEPT !.paddr = Invalid], s>>}
  ELSE UNION {
    LET placed == [o EXCEPT !.laddr = Allocated(found, others)]
    IN IF ~o.fd THEN {<<o, s>>}
       ELSE {<<RunThread(placed), PowerRequest(placed)>>}
            \cup (IF "report" \in CecFaults /\ placed.laddr # Unregistered
                  THEN {<<CecClose([placed EXCEPT !.laddr = 0]), s>>} ELSE {})
    : o \in CecOpen([c EXCEPT !.paddr = found])}

\* CECThread::stop waits for the loop to end.
CecStop(c) == CecClose([c EXCEPT !.thread = "none", !.flag = FALSE])

\* disconnect stops the thread only once its loop has marked it.
CecRelease(c) == IF c.flag THEN CecStop(c) ELSE [c EXCEPT !.outlived = (c.thread # "none")]
-----------------------------------------------------------------------------
(* threadLoop. *)

\* CECIgnoreMessage.
Ignored(m) == m.src = Unregistered /\ m.op \in {"DECK_CONTROL", "PLAY"}

\* CECCheckMessageMode: what has to be broadcast, and what must not be.
ModeIsRight(m) ==
  /\ m.op \in {"REQUEST_ACTIVE_SOURCE", "SET_MENU_LANGUAGE", "ACTIVE_SOURCE"} => m.broadcast
  /\ m.op \in {"GIVE_PHYSICAL_ADDRESS", "DECK_CONTROL", "PLAY", "FEATURE_ABORT", "ABORT"} => ~m.broadcast

\* Messages of the wrong size are answered all the same.
Answered(c, m) ==
  /\ m.src # c.laddr
  /\ ~Ignored(m) /\ ModeIsRight(m)
  /\ m.op = "REPORT_POWER_STATUS" => ~m.on

Reply(c, m) ==
  LET back(op) == [op |-> op, src |-> c.laddr, dst |-> m.src]
  IN CASE m.op = "GIVE_PHYSICAL_ADDRESS" -> Report(c)
       [] m.op \in {"SET_STREAM_PATH", "REQUEST_ACTIVE_SOURCE"} -> [Report(c) EXCEPT !.op = "ACTIVE_SOURCE"]
       [] m.op = "GIVE_DEVICE_POWER_STATUS" -> back("REPORT_POWER_STATUS")
       [] m.op = "REPORT_POWER_STATUS" -> back("USER_CONTROL_PRESSED")
       [] m.op = "USER_CONTROL_PRESSED" -> back("POLL")
       [] m.op = "GIVE_DECK_STATUS" -> back("DECK_STATUS")
       [] OTHER -> back("FEATURE_ABORT")

\* A turn of the loop in which nothing came, or nothing that is answered.
Turn ==
  /\ cec.thread = "starting"
  /\ cec' = [cec EXCEPT !.thread = "loop", !.flag = TRUE]
  /\ UNCHANGED said

\* CECReceiveMessage has nothing while the device is closed.
Receives == cec.thread # "none" /\ cec.fd

Hear(m) ==
  /\ Receives
  /\ Answered(cec, m)
  /\ said' = Reply(cec, m)
  /\ cec' = [cec EXCEPT !.thread = "loop", !.flag = TRUE]

CecInit ==
  /\ cec = [fd |-> FALSE, thread |-> "none", flag |-> FALSE, paddr |-> 0, laddr |-> 0, outlived |-> FALSE]
  /\ said = Silent
=============================================================================
