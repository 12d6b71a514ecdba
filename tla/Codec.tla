------------------------------- MODULE Codec -------------------------------
(***************************************************************************)
(* A whole MFC context: what ExynosVideoDecoder.c and ExynosVideoEncoder.c *)
(* allocate, map and open, and what they leave in the driver, from Init to *)
(* Finalize.  MfcPort has the threads of one port; here one thread calls   *)
(* the table of operations in any order, also in orders that nobody wrote  *)
(* down as forbidden, and every step of Init and Setup can fail.           *)
(*                                                                         *)
(* Decoder and encoder run the same code but where kind is asked for.      *)
(***************************************************************************)
EXTENDS Integers, FiniteSets

CONSTANTS MaxBufs,    \* bound: buffers asked for or granted
          MaxSetups,  \* bound: arrays made for a context
          Geometries, \* what Set_Geometry is called with: [format, size]
          Faults      \* the calls that may fail

FaultKinds == {"init", "reqbufs", "count", "alloc", "map"}

ASSUME CodecAssumption ==
  MaxBufs \in Nat \ {0} /\ MaxSetups \in Nat \ {0} /\ Faults \subseteq FaultKinds

\* ExynosVideoColorFormatType, of which the two ports take these, and
\* ExynosVideoCodingType.
Colors == {"NV12", "NV21", "NV12_TILED"}
Codings == {"UNKNOWN", "MPEG2", "H263", "MPEG4", "VC1", "VC1_RCV", "AVC", "MVC", "VP8"}

ASSUME GeometriesAssumption ==
  /\ Geometries.raw \subseteq [format : Colors, size : Nat]
  /\ Geometries.coded \subseteq [format : Codings, size : Nat]

Ports == {"in", "out"}

VARIABLES
  kind,  \* "dec" or "enc"
  ctx,   \* "none", "live", "closed"; "dead" after a step that C leaves undefined
  port,  \* of each port: array (0 is NULL, else which of the arrays made), made,
         \* n, shared, addr of each plane, on, geom
  drv,   \* the driver: memory type of each queue, and its format
  told,  \* the controls the last call set, if it set any.  The driver has them;
         \* nothing here reads them back but Get_FrameTag
  \* What really happened, for the properties only:
  heap,  \* what is allocated, mapped or open
  lost,  \* what the calls that came made the context forget
  harm,  \* "twice": freed again, "null": NULL followed, "foreign": the
         \* caller's memory unmapped
  slips  \* "setup": a Setup failed, "register": Register on a port not shared,
         \* "share": Set_Shareable behind a Setup

vars == <<kind, ctx, port, drv, told, heap, lost, harm, slips>>

Slots     == (0 .. MaxBufs - 1) \X {0, 1}
Coded(p)  == (kind = "dec") = (p = "in")    \* the port of the bit stream
Planes(p) == IF Coded(p) THEN 1 ELSE 2

Unset    == [format |-> "none", size |-> 0]
Nothing  == [call |-> "none", slice |-> 0, unwritten |-> {}]
Empty    == [array |-> 0, made |-> 0, n |-> 0, shared |-> FALSE,
             addr |-> [s \in Slots |-> "null"], on |-> FALSE, geom |-> Unset]
Driver   == [memory |-> [p \in Ports |-> "none"], fmt |-> [p \in Ports |-> Unset]]

Start ==
  /\ ctx = "none" /\ port = [p \in Ports |-> Empty] /\ drv = Driver /\ told = Nothing
  /\ heap = {} /\ lost = {} /\ harm = {} /\ slips = {}

Init == kind \in {"dec", "enc"} /\ Start
-----------------------------------------------------------------------------
(* Init and Finalize. *)

Mutexes == {<<"mutex", p>> : p \in Ports}

\* In the order in which MFC_*_Init gets them; Init fails with the first k.
Acquired(k) ==
  {r \in {<<"context">>} : k > 0} \cup {r \in {<<"device">>} : k > 1}
    \cup {r \in {<<"mutex", "in">>} : k > 2}

\* Mutant: a failure behind the open leaves by EXIT_OPEN_FAIL.
UndoneAtOpen(k) == Acquired(k) \ {<<"device">>}

\* EXIT_QUERYCAP_FAIL, EXIT_OPEN_FAIL, EXIT_ALLOC_FAIL: what failed last decides
\* how much of the way is gone back.
Undone(k) ==
  (IF k > 1 THEN {<<"device">>} \cup (Acquired(k) \cap Mutexes) ELSE {})
    \cup (IF k > 0 THEN {<<"context">>} ELSE {})

OpenFails ==
  /\ ctx = "none" /\ ctx' = "closed" /\ "init" \in Faults
  /\ \E k \in 0 .. 3 : heap' = heap \cup (Acquired(k) \ Undone(k))
  /\ told' = Nothing /\ UNCHANGED <<kind, port, drv, lost, harm, slips>>

Open ==
  /\ ctx = "none" /\ ctx' = "live"
  /\ heap' = heap \cup {<<"context">>, <<"device">>} \cup Mutexes
  /\ port' = [p \in Ports |-> Empty]
  /\ drv' = Driver /\ told' = Nothing
  /\ UNCHANGED <<kind, lost, harm, slips>>

ArrayOf(p) == <<"array", p, port[p].array>>
MapAt(p, s) == <<"map", p, port[p].array, s>>
MapsOf(p)  == {MapAt(p, s) : s \in {t \in Slots : port[p].addr[t] = "map"}}
Foreign(p) == \E s \in Slots : port[p].addr[s] = "user"
Dangling(p) == port[p].array # 0 /\ ArrayOf(p) \notin heap

\* Mutant: the port that is shared is unmapped as well.
WrongShared(p) == {h \in {"foreign"} : Foreign(p)}

\* What goes wrong when an array is walked, unmapped where it is not shared, and
\* freed.
Wrong(p) ==
  {h \in {"twice"} : Dangling(p)}
    \cup {h \in {"foreign"} : ~Dangling(p) /\ port[p].array # 0 /\ ~port[p].shared /\ Foreign(p)}

\* Finalize walks nInbufs or nOutbufs buffers whatever the pointer is.
Follows(p) ==
  Wrong(p) \cup {h \in {"null"} : port[p].array = 0 /\ port[p].n > 0 /\ ~port[p].shared}

Released(p) == {ArrayOf(p)} \cup (IF port[p].shared THEN {} ELSE MapsOf(p))

\* What follows a use of freed memory is undefined: the process is dead.
After(wrong, state) == IF wrong \cap {"twice", "null"} # {} THEN "dead" ELSE state

Finalize ==
  LET wrong == Follows("in") \cup Follows("out") IN
  /\ ctx = "live"
  /\ harm' = harm \cup wrong /\ ctx' = After(wrong, "closed")
  /\ heap' = heap \ (Released("in") \cup Released("out") \cup Mutexes
                       \cup {<<"device">>, <<"context">>})
  /\ port' = [p \in Ports |-> Empty]
  /\ drv' = Driver /\ told' = Nothing
  /\ UNCHANGED <<kind, lost, slips>>

\* The next context, of whichever kind, is of another process: bound.
Restart ==
  /\ ctx \in {"dead", "closed"}
  /\ kind' \in {"dec", "enc"}
  /\ ctx' = "none" /\ port' = [p \in Ports |-> Empty] /\ drv' = Driver /\ told' = Nothing
  /\ heap' = {} /\ lost' = {} /\ harm' = {} /\ slips' = {}
-----------------------------------------------------------------------------
(* Setup. *)

\* The memory that Setup asks the driver for, and that Enqueue names later.
Memory(p) == IF port[p].shared THEN "user" ELSE "mmap"

\* Mutant: Setup does not look at bShareInbuf.
RequestedMapped(p) == drv' = [drv EXCEPT !.memory[p] = "mmap"]

Requested(p) == drv' = [drv EXCEPT !.memory[p] = Memory(p)]

\* EXIT with the pointer as it was: what it points to is unmapped and freed, the
\* pointer and the count stay.
GiveUp(p) ==
  /\ harm' = harm \cup Wrong(p) /\ ctx' = After(Wrong(p), ctx)
  /\ heap' = heap \ Released(p)
  /\ slips' = slips \cup {"setup"}
  /\ UNCHANGED <<port, lost>>

RequestFails(p) ==
  /\ port[p].on \/ "reqbufs" \in Faults
  /\ GiveUp(p) /\ UNCHANGED drv

\* The decoder does not take another count than it asked for.
CountDiffers(p) ==
  /\ kind = "dec" /\ "count" \in Faults /\ ~port[p].on
  /\ Requested(p) /\ GiveUp(p)

\* The pointer is overwritten: what it pointed to is forgotten.
Forgotten(p) == ({ArrayOf(p)} \cup MapsOf(p)) \cap heap

Overwritten(p, pointer, count, filled) ==
  /\ port' = [port EXCEPT ![p].array = pointer, ![p].made = port[p].made + 1, ![p].n = count,
                          ![p].addr = filled]
  /\ lost' = lost \cup Forgotten(p)

NoAddress == [s \in Slots |-> "null"]

NoMemory(p, count) ==
  /\ "alloc" \in Faults
  /\ Requested(p) /\ Overwritten(p, 0, count, NoAddress)
  /\ slips' = slips \cup {"setup"} /\ UNCHANGED <<heap, harm, ctx>>

\* querybuf or mmap fails: what was mapped is unmapped, the new array freed, the
\* pointer to it kept.
MapFails(p, count) ==
  /\ "map" \in Faults /\ ~port[p].shared
  /\ Requested(p) /\ Overwritten(p, port[p].made + 1, count, NoAddress)
  /\ slips' = slips \cup {"setup"} /\ UNCHANGED <<heap, harm, ctx>>

Mapped(p, count) ==
  [s \in Slots |-> IF ~port[p].shared /\ s[1] < count /\ s[2] < Planes(p) THEN "map" ELSE "null"]

Filled(p, count) ==
  LET made == port[p].made + 1 IN
  /\ Requested(p) /\ Overwritten(p, made, count, Mapped(p, count))
  /\ heap' = heap \cup {<<"array", p, made>>}
       \cup {<<"map", p, made, s>> : s \in {t \in Slots : Mapped(p, count)[t] = "map"}}
  /\ UNCHANGED <<harm, ctx, slips>>

Granted(p) == ~port[p].on /\ port["in"].made + port["out"].made < MaxSetups

SetupDec(p, count) ==
  /\ kind = "dec" /\ Granted(p)
  /\ NoMemory(p, count) \/ MapFails(p, count) \/ Filled(p, count)

SetupEncIn(count) ==
  /\ kind = "enc" /\ Granted("in")
  /\ NoMemory("in", count) \/ MapFails("in", count) \/ Filled("in", count)

SetupEncOut(count) ==
  /\ kind = "enc" /\ Granted("out")
  /\ NoMemory("out", count) \/ MapFails("out", count) \/ Filled("out", count)

Setup ==
  /\ ctx = "live"
  /\ \/ \E p \in Ports : RequestFails(p) \/ CountDiffers(p)
     \/ \E count \in 1 .. MaxBufs :
          SetupEncIn(count) \/ SetupEncOut(count) \/ \E p \in Ports : SetupDec(p, count)
  /\ told' = Nothing /\ UNCHANGED kind
-----------------------------------------------------------------------------
(* The other operations on the buffers.  Enqueue, Dequeue and Clear_Queued     *)
(* keep the marks of MfcPort and nothing else, but that Enqueue names a memory *)
(* type, which is Memory(p).  A call on an array that a failed Setup freed     *)
(* is left out but for Setup and Finalize.                                     *)

Usable(p) == ctx = "live" /\ port[p].array # 0 /\ ~Dangling(p)

\* Nothing ever sets it back.  What is mapped by then stays mapped.
SetShareable ==
  /\ ctx = "live"
  /\ \E p \in Ports :
       /\ port' = [port EXCEPT ![p].shared = TRUE]
       /\ lost' = lost \cup (MapsOf(p) \cap heap)
       /\ slips' = slips \cup {l \in {"share"} : port[p].array # 0}
  /\ told' = Nothing /\ UNCHANGED <<kind, ctx, drv, heap, harm>>

\* Get_Buffer, of the output port alone, looks at the count, not at the pointer.
GetBuffer(i) ==
  IF i >= port["out"].n THEN "NULL"
  ELSE IF port["out"].array = 0 \/ Dangling("out") THEN "stray" ELSE "buffer"

\* bRegistered is false: never mapped, or cleared, of which plane 0 tells.
Unregistered(p) == {i \in 0 .. port[p].n - 1 : port[p].addr[<<i, 0>>] = "null"}

\* The first buffer that is not registered takes the caller's addresses.
Register(p) ==
  LET i == CHOOSE j \in Unregistered(p) : \A k \in Unregistered(p) : j <= k
      taken == {s \in Slots : s[1] = i /\ s[2] < Planes(p)}
  IN
  /\ Usable(p) /\ Unregistered(p) # {}
  /\ port' = [port EXCEPT ![p].addr = [s \in Slots |-> IF s \in taken THEN "user" ELSE @[s]]]
  /\ lost' = lost \cup {MapAt(p, s) : s \in {t \in taken : port[p].addr[t] = "map" /\ ~port[p].shared}}
  /\ slips' = IF port[p].shared THEN slips ELSE slips \cup {"register"}
  /\ told' = Nothing /\ UNCHANGED <<kind, ctx, drv, heap, harm>>

\* Only the address of plane 0 is cleared.
ClearRegistered(p) ==
  LET cleared == {s \in Slots : s[1] < port[p].n /\ s[2] = 0} IN
  /\ Usable(p)
  /\ port' = [port EXCEPT ![p].addr = [s \in Slots |-> IF s \in cleared THEN "null" ELSE @[s]]]
  /\ lost' = lost \cup {MapAt(p, s) : s \in {t \in cleared : port[p].addr[t] = "map" /\ ~port[p].shared}}
  /\ told' = Nothing /\ UNCHANGED <<kind, ctx, drv, heap, harm, slips>>

Stream(p, on) ==
  /\ Usable(p) /\ port[p].on # on
  /\ port' = [port EXCEPT ![p].on = on]
  /\ told' = Nothing /\ UNCHANGED <<kind, ctx, drv, heap, lost, harm, slips>>
-----------------------------------------------------------------------------
(* Geometry. *)

\* __CodingType_To_V4L2PixelFormat: what is not listed is H264.
CodedPixels(coding) ==
  CASE coding = "AVC"   -> "H264"  [] coding = "MPEG4" -> "MPEG4" [] coding = "H263" -> "H263"
    [] coding = "VP8"   -> "VP8"   [] coding = "VC1"   -> "VC1_G" [] coding = "VC1_RCV" -> "VC1_L"
    [] coding = "MPEG2" -> "MPEG2" [] OTHER -> "H264"

\* __ColorFormatType_To_V4L2PixelFormat: what is not listed is NV12M.
ColorPixels(color) ==
  CASE color = "NV12_TILED" -> "NV12MT_16X16" [] color = "NV21" -> "NV21M" [] OTHER -> "NV12M"

\* __V4L2PixelFormat_To_ColorFormatType: NV12MT_16X16 is not listed either, and
\* comes out right as the default.
ColorOf(pixels) ==
  CASE pixels = "NV12M" -> "NV12" [] pixels = "NV21M" -> "NV21" [] OTHER -> "NV12_TILED"

Pixels(p, g) == [g EXCEPT !.format = IF Coded(p) THEN CodedPixels(g.format) ELSE ColorPixels(g.format)]

\* A format that the driver refuses leaves both as they were.
SetGeometry(p) ==
  /\ ctx = "live"
  /\ \E g \in Geometries[IF Coded(p) THEN "coded" ELSE "raw"] :
       /\ drv' = [drv EXCEPT !.fmt[p] = Pixels(p, g)]
       /\ port' = [port EXCEPT ![p].geom = g]
  /\ told' = Nothing /\ UNCHANGED <<kind, ctx, heap, lost, harm, slips>>

SetGeometryDec(p) == kind = "dec" /\ SetGeometry(p)
SetGeometryEnc(p) == kind = "enc" /\ SetGeometry(p)

\* What Get_Geometry_Outbuf of the decoder and the two of the encoder read from
\* the driver into the caller's structure, over what the caller had there.  The
\* width of the encoder's input is read into the height, which is read next.
GetGeometryDec(had) == [had EXCEPT !.format = ColorOf(drv.fmt["out"].format)]
GetGeometryEnc(p, had) == [had EXCEPT !.size = drv.fmt[p].size]
-----------------------------------------------------------------------------
(* Controls. *)

DecControls == {"tag", "delay", "packed", "deblock", "slice", "sei", "cacheable"}
EncControls == {"tag", "type", "rate", "bitrate", "skip", "period", "cacheable"}

\* Bound: controls are told apart only before the first Setup; they touch
\* nothing that Setup or Finalize looks at.
Configuring == ctx = "live" /\ \A p \in Ports : port[p].made = 0

\* One ioctl each; a control that is refused stays as it was.
SetControl(controls) ==
  /\ Configuring
  /\ \E c \in controls : told' = [Nothing EXCEPT !.call = c]
  /\ UNCHANGED <<kind, ctx, port, drv, heap, lost, harm, slips>>

SetDecControl == kind = "dec" /\ SetControl(DecControls)
SetEncControl == kind = "enc" /\ SetControl(EncControls)

\* The codecs Set_EncParam knows; every other is an undefined codec type.
EncCodecs == {"AVC", "MPEG4", "H263"}

\* Bit rate, GOP, slice mode, refresh, padding and rate control: indices 0 to 7.
CommonWritten == 0 .. 7

\* Two indices that only the slice modes 0, 1 and 3 write.
SliceWritten(slice) == IF slice \in {0, 1, 3} THEN {13, 14} ELSE {}

\* 39 is the frame skip mode, 59 to 90 the order of the slices.
AvcWritten(slice) == 8 .. 12 \cup SliceWritten(slice) \cup 15 .. 38 \cup {39} \cup 40 .. 58 \cup 59 .. 90

\* Mutant: the VBV size is sent no more, and the others keep their places.
Mpeg4WrittenLess(slice) == 8 .. 12 \cup SliceWritten(slice) \cup 15 .. 21 \cup 23 .. 25

Mpeg4Written(slice) == 8 .. 12 \cup SliceWritten(slice) \cup 15 .. 24 \cup {25}

H263Written == 8 .. 12 \cup 13 .. 16 \cup {17}

Written(codec, slice) ==
  CommonWritten \cup (CASE codec = "AVC" -> AvcWritten(slice) [] codec = "MPEG4" -> Mpeg4Written(slice)
                        [] codec = "H263" -> H263Written)

\* H264_CTRL_NUM, MPEG4_CTRL_NUM, H263_CTRL_NUM.
Count(codec) == CASE codec = "AVC" -> 91 [] codec = "MPEG4" -> 26 [] codec = "H263" -> 18

\* An undefined codec is refused before anything is sent.
SetEncParam ==
  /\ Configuring /\ kind = "enc"
  /\ \E codec \in EncCodecs, slice \in 0 .. 3 :
       told' = [call |-> codec, slice |-> slice,
                unwritten |-> (0 .. Count(codec) - 1) \ Written(codec, slice)]
  /\ UNCHANGED <<kind, ctx, port, drv, heap, lost, harm, slips>>
-----------------------------------------------------------------------------
Next ==
  \/ Open \/ OpenFails \/ Finalize \/ Restart \/ Setup \/ SetShareable
  \/ SetDecControl \/ SetEncControl \/ SetEncParam
  \/ \E p \in Ports :
       \/ Register(p) \/ ClearRegistered(p) \/ SetGeometryDec(p) \/ SetGeometryEnc(p)
       \/ \E on \in BOOLEAN : Stream(p, on)

Spec == Init /\ [][Next]_vars
-----------------------------------------------------------------------------
(* Properties. *)

\* After Finalize, or an Init that failed at any of its steps, nothing is left
\* allocated, mapped or open but what a call out of order made the context
\* forget: a Setup on top of another, Set_Shareable or Clear_RegisteredBuffer
\* on a mapped port.
NothingLeaked == ctx = "closed" => heap = lost

\* No array is freed twice or followed through NULL before a Setup has failed,
\* and the memory a caller registered is never unmapped unless he registered it
\* on a port that is not shared; nor does Get_Buffer give out a stray pointer.
\* Neither Finalize nor the EXIT of Setup goes wrong by itself, in any order of
\* calls.
FreesOnlyOwn ==
  /\ harm \cap {"twice", "null"} # {} => "setup" \in slips
  /\ "foreign" \in harm => "register" \in slips
  /\ ctx = "live" /\ GetBuffer(0) = "stray" => "setup" \in slips

\* The memory type that Enqueue names is the one the queue was set up with, so
\* that QBUF is not refused for good, whatever failed and was set up again,
\* unless Set_Shareable came behind a Setup.
MemoryAgrees ==
  \A p \in Ports : Usable(p) /\ drv.memory[p] # Memory(p) => "share" \in slips

\* What the driver is told is what the caller said: whatever the codec,
\* Set_EncParam sends no control it has not written, for the slice modes that
\* its comment lists; and a geometry that was set comes back, each colour through
\* both conversions, the size through the driver (but the width of the encoder's
\* input).
DriverIsTold ==
  /\ told.slice \in {0, 1, 3} => told.unwritten = {}
  /\ \A c \in Colors : ColorOf(ColorPixels(c)) = c
  /\ ctx = "live" =>
    \A p \in Ports : port[p].geom # Unset =>
      IF kind = "enc" THEN GetGeometryEnc(p, Unset).size = port[p].geom.size
                      ELSE p = "out" => GetGeometryDec(Unset).format = port[p].geom.format
=============================================================================
