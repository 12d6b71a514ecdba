-------------------------------- MODULE Edid --------------------------------
(***************************************************************************)
(* The DDC line, the EDID read over it, and what ExynosHdmi chooses from   *)
(* it: libddc, the cache of libedid, and connect, disconnect,              *)
(* setHdmiOutputMode and setHdmiResolution as far as they concern them.    *)
(*                                                                         *)
(*   sink     the EDID of the television that is plugged in, or NoSink;    *)
(*   ddc      ref_cnt, and whether ddc_fd is open;                         *)
(*   edid     gEdidData;                                                   *)
(*   saved    aVIC;                                                        *)
(*   hd       mFlagConnected, mHdmiOutputMode, mHdmiResolutionValue and    *)
(*            mHdmiS3DMode; modeBy, resBy (ghost): the EDIDs mode and      *)
(*            resolution were chosen by;                                   *)
(*   leaks    (ghost) the connects that gave up and kept the DDC line      *)
(*            counted, since it was last closed.                           *)
(***************************************************************************)
EXTENDS EdidTables

CONSTANTS Sinks,     \* EDIDs of televisions
          AskedModes, \* output modes that are asked for
          Asked,     \* resolutions that are asked for, with their 3D mode
          DefaultMode, \* DEFAULT_OUPUT_MODE
          MaxRef,    \* bound on ref_cnt and on the connects that leave it counted
          Faults     \* what may fail for reasons of its own

NoSink == [none |-> TRUE]

Modes == {"YCBCR", "RGB", "DVI"}

ASSUME SinksAssumption == NoSink \notin Sinks
ASSUME DefaultModeAssumption == DefaultMode \in Modes /\ AskedModes \subseteq Modes
ASSUME AskedAssumption == \A q \in Asked : q[2] \in Modes3D
ASSUME MaxRefAssumption == MaxRef \in Nat \ {0}
ASSUME EdidFaultsAssumption == Faults \subseteq {"open", "read", "checksum", "close", "external", "stop"}

VARIABLES sink, ddc, edid, saved, hd, leaks

edidVars == <<sink, ddc, edid, saved, hd, leaks>>

\* A connect gave up after it had opened the line, and nothing has closed it since.
halfway == leaks > 0
-----------------------------------------------------------------------------
(* libddc and libedid.  Each operator gives the possible results on a       *)
(* record of the line and the cache.                                        *)

Line == [ref |-> ddc.ref, open |-> ddc.open, edid |-> edid]

\* DDCOpen counts also an open that failed.
DdcOpen(l) ==
  IF l.ref > 0 THEN {[l EXCEPT !.ref = @ + 1]}
  ELSE {[l EXCEPT !.ref = 1, !.open = ok] : ok \in IF "open" \in Faults THEN BOOLEAN ELSE {TRUE}}

\* DDCClose.
DdcClose(l) ==
  IF l.ref = 0 THEN l
  ELSE IF l.ref > 1 THEN [l EXCEPT !.ref = @ - 1]
  ELSE [l EXCEPT !.ref = 0, !.open = FALSE]

\* Slips: the cache is kept; the count is taken down without closing.
CloseKeepsEdid(l) == DdcClose(l)
CloseLeavesOpen(l) == [l EXCEPT !.ref = IF @ > 0 THEN @ - 1 ELSE 0, !.edid = NoSink]

\* EDIDClose resets the cache, then gives up the line.
EdidClose(l) == DdcClose([l EXCEPT !.edid = NoSink])

\* EDIDClose answers 0 when the last close fails; an fd that never was open
\* cannot be closed either.
CloseMayFail(l) == l.ref = 1 /\ ("close" \in Faults \/ ~l.open)

\* EDDCRead, and ReadEDIDBlock over it.
EddcReadMayFail(l) == ~l.open \/ sink = NoSink \/ "read" \in Faults
BlockMayFail(l) == EddcReadMayFail(l) \/ "checksum" \in Faults

\* EDIDRead: nothing to do once the blocks are there; nothing stays of blocks
\* that could not all be read, or that begin with no block map.
EdidRead(l) ==
  IF l.edid # NoSink THEN {l.edid}
  ELSE {e \in {NoSink, sink} :
          IF e = NoSink THEN BlockMayFail(l) \/ ~Readable(sink) ELSE l.open /\ Readable(e)}

With(l, e) == [l EXCEPT !.edid = e]
-----------------------------------------------------------------------------
(* The output mode. *)

HasHdmi(e) == e # NoSink /\ HasVendorBlock(e)

\* Slip: nobody asks about YCbCr.
ModeUnasked(m, e) == IF m # "DVI" /\ ~HasHdmi(e) THEN "DVI" ELSE m

\* hdmi_check_output_mode with a readable EDID.
ModeFor(m, e) ==
  IF m # "DVI" /\ ~HasHdmi(e) THEN "DVI"
  ELSE IF m = "YCBCR" /\ ~CheckColorSpace(e, "YCBCR444") THEN "RGB"
  ELSE m

\* Without one: every question reads again, and DVI asks two.
ModeUnread(m, l) ==
  IF m # "DVI" THEN {<<"DVI", NoSink>>}
  ELSE {<<IF e # NoSink /\ CheckColorSpace(e, "YCBCR444") THEN "YCBCR" ELSE "RGB", e>> : e \in EdidRead(l)}

CheckMode(m, l) ==
  UNION {IF e = NoSink THEN ModeUnread(m, l) ELSE {<<ModeFor(m, e), e>>} : e \in EdidRead(l)}

\* setHdmiOutputMode takes a calibrated mode, but for DVI what was asked for.
NewMode(m, checked) == IF checked # m /\ checked = "DVI" THEN m ELSE checked
-----------------------------------------------------------------------------
(* The resolution. *)

\* The answers hdmi_check_resolution may give for a resolution.
Asks(e, r, s3d) ==
  IF e = NoSink THEN {FALSE} ELSE UNION {Answers(e, saved, p) : p \in PresetsOf(r, s3d)}

\* The EDID e was read in the course of the questions: those before had none.
ReadLate(l) == l.edid = NoSink /\ BlockMayFail(l)

None == <<>>

\* A search in the list of s3d ends with a resolution, or with none.
Searched(s3d, l, e) ==
  LET list == ListOf(s3d)
      asked == StartOf(s3d) .. Len(list)
      asks == [k \in asked |-> Asks(e, list[k], s3d)]
      passed(k) == ReadLate(l) \/ asks[k] # {TRUE}
  IN {<<list[k], s3d>> : k \in {i \in asked : TRUE \in asks[i] /\ \A j \in StartOf(s3d) .. i - 1 : passed(j)}}
     \cup (IF \A k \in asked : passed(k) THEN {None} ELSE {})

\* setHdmiResolution: the one asked for; else one of its 3D list; else one of
\* the 2D list; else the last resort.
Resolutions(r, s3d, l, e) ==
  LET asks == Asks(e, r, s3d)
      in3D == IF s3d = "2D" THEN {None} ELSE Searched(s3d, l, e)
      in2D == Searched("2D", l, e)
      searched == (in3D \ {None})
                  \cup (IF None \in in3D THEN (in2D \ {None}) \cup {Fallback : n \in in2D \cap {None}} ELSE {})
  IN {v \in {<<r, s3d>>} : TRUE \in asks}
     \cup (IF ReadLate(l) \/ asks # {TRUE} THEN searched ELSE {})

\* The codes saved after questions about some 3D formats fs.
SavedAfter(e, fs) ==
  IF e = NoSink THEN {saved}
  ELSE {v \in {saved, SaveVic(saved, e)} :
          \/ v = SaveVic(saved, e) /\ \E f \in fs : TRUE \in Saves(e, f)
          \/ v = saved /\ \A f \in fs : FALSE \in Saves(e, f)}

Formats3D(s3d) == IF s3d = "2D" THEN {} ELSE {FormatOf(p[2]) : p \in PresetTable(s3d)}

\* display_menu asks for five formats in each of two 3D structures.
MenuFormats == {"v1280x720p_60Hz", "v1280x720p_50Hz", "v1920x1080p_60Hz",
                "v1920x1080p_50Hz", "v1920x1080p_24Hz"}
-----------------------------------------------------------------------------
SetLine(l) == ddc' = [ref |-> l.ref, open |-> l.open] /\ edid' = l.edid

Plug ==
  /\ sink = NoSink
  /\ sink' \in Sinks
  /\ UNCHANGED <<ddc, edid, saved, hd, leaks>>

Unplug ==
  /\ sink # NoSink
  /\ sink' = NoSink
  /\ UNCHANGED <<ddc, edid, saved, hd, leaks>>

\* The line after connect opened it and tried to read.
Opened ==
  {IF q[2] = NoSink THEN EdidClose(q[1]) ELSE With(q[1], q[2]) :
     q \in UNION {{<<l, e>> : e \in EdidRead(l)} : l \in DdcOpen(Line)}}

\* EDIDGetCECPhysicalAddress, if the CEC thread is to be started.
Addressed(asks, l) == IF asks THEN {With(l, e) : e \in EdidRead(l)} ELSE {l}

NoAddress == 65535  \* CEC_NOT_VALID_PHYSICAL_ADDRESS
NotFound == -1

AddressOf(l) ==
  IF l.edid # NoSink /\ IsTimingExtension(l.edid) /\ HasVendorBlock(l.edid)
  THEN l.edid.paddr ELSE NotFound

\* connect sets mode and resolution again before anything else is known to
\* work; asks and a: whether the physical address was asked for, and the answer.
Connect(asks, a) ==
  /\ ~hd.conn /\ sink # NoSink /\ ddc.ref < MaxRef
  /\ \E l1 \in Opened :
     \E l2 \in {l \in Addressed(asks, l1) : a = AddressOf(l)} :
     \E m \in CheckMode(hd.mode, l2) :
     \E e \in EdidRead(With(l2, m[2])) :
     \E v \in Resolutions(hd.res, hd.s3d, With(l2, m[2]), e) :
       LET set == [hd EXCEPT !.mode = NewMode(hd.mode, m[1]), !.modeBy = m[2],
                             !.res = v[1], !.s3d = v[2], !.resBy = e]
       IN \/ /\ "external" \in Faults /\ leaks < MaxRef
             /\ hd' = set
             /\ SetLine(With(l2, e))
             /\ saved' \in SavedAfter(e, Formats3D(hd.s3d))
             /\ leaks' = leaks + l2.ref - ddc.ref
          \/ /\ hd' = [set EXCEPT !.conn = TRUE]
             /\ \E e2 \in EdidRead(With(l2, e)) :
                  /\ SetLine(With(l2, e2))
                  /\ saved' \in SavedAfter(e2, MenuFormats)
             /\ UNCHANGED leaks
  /\ UNCHANGED sink

Unset == [conn |-> FALSE, mode |-> DefaultMode, modeBy |-> NoSink,
          res |-> Default2D, s3d |-> "2D", resBy |-> NoSink]

\* disconnect gives up when the line cannot be closed, or a layer not stopped;
\* the 3D mode outlives it.
Disconnect ==
  /\ hd.conn
  /\ SetLine(EdidClose(Line))
  /\ \/ (CloseMayFail(Line) \/ "stop" \in Faults) /\ UNCHANGED hd
     \/ (Line.ref = 1 => Line.open) /\ hd' = [Unset EXCEPT !.s3d = hd.s3d]
  /\ leaks' = IF EdidClose(Line).ref = 0 THEN 0 ELSE leaks
  /\ UNCHANGED <<sink, saved>>

SetHdmiOutputMode(m) ==
  /\ m # hd.mode
  /\ \E c \in CheckMode(m, Line) :
       /\ hd' = [hd EXCEPT !.mode = NewMode(m, c[1]), !.modeBy = c[2]]
       /\ SetLine(With(Line, c[2]))
  /\ UNCHANGED <<sink, saved, leaks>>

SetHdmiResolution(r, s3d) ==
  /\ <<r, s3d>> # <<hd.res, hd.s3d>>
  /\ \E e \in EdidRead(Line) :
     \E v \in Resolutions(r, s3d, Line, e) :
       /\ hd' = [hd EXCEPT !.res = v[1], !.s3d = v[2], !.resBy = e]
       /\ SetLine(With(Line, e))
       /\ saved' \in SavedAfter(e, Formats3D(s3d))
       /\ v[2] # "2D" => saved' = SaveVic(saved, e)
  /\ UNCHANGED <<sink, leaks>>

EdidInit ==
  /\ sink = NoSink
  /\ ddc = [ref |-> 0, open |-> FALSE]
  /\ edid = NoSink
  /\ saved = [i \in 1 .. NVic |-> 0]
  /\ hd = Unset
  /\ leaks = 0

Request ==
  \/ \E m \in AskedModes : SetHdmiOutputMode(m)
  \/ \E q \in Asked : SetHdmiResolution(q[1], q[2])
=============================================================================
