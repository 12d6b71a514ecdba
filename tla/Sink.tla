-------------------------------- MODULE Sink --------------------------------
(***************************************************************************)
(* ExynosHdmi and the television at the other end: what is known of it     *)
(* from its EDID, and the CEC thread that speaks to it.  Each call holds   *)
(* both locks of ExynosHdmi; the thread and the television take their      *)
(* steps in between.                                                       *)
(***************************************************************************)
EXTENDS Edid, Cec

vars == <<sink, ddc, edid, saved, hd, leaks, cec, said>>

ConnectSink ==
  \E a \in {NotFound} \cup {tv.paddr : tv \in Sinks} :
    /\ Connect(~cec.flag, a)
    /\ IF cec.flag THEN UNCHANGED cecVars
       ELSE \E q \in CecStart(cec, said, a, sink.others) : cec' = q[1] /\ said' = q[2]

DisconnectSink ==
  /\ Disconnect
  /\ cec' = CecRelease(cec)
  /\ said' = Silent

ChangeSink ==
  /\ Plug \/ Unplug
  /\ said' = Silent
  /\ UNCHANGED cec

Listen ==
  /\ \/ Turn
     \/ sink # NoSink /\ \E m \in Frames : Hear(m)
  /\ UNCHANGED edidVars

Init == EdidInit /\ CecInit

Next ==
  \/ ChangeSink
  \/ ConnectSink \/ DisconnectSink
  \/ Request /\ UNCHANGED cecVars
  \/ Listen

Spec == Init /\ [][Next]_vars
-----------------------------------------------------------------------------
(* What it keeps. *)

\* The DDC line is open exactly while it is counted, and the cache is only ever
\* filled over an open line.  The count is one for a connection with an EDID,
\* and one more at most for each connect that gave up and kept the line since it
\* was last closed: reads that fail, closes that fail, retries of a disconnect and
\* setters in any order leave nothing behind (DDCOpen, DDCClose and EDIDClose,
\* called from connect and disconnect).
LineGoesWithConnection ==
  /\ ddc.open <=> ddc.ref > 0
  /\ edid # NoSink => ddc.open
  /\ ~halfway => ddc.ref = IF hd.conn /\ edid # NoSink THEN 1 ELSE 0
  /\ halfway => ddc.ref \in 1 .. leaks + (IF hd.conn THEN 1 ELSE 0)

\* A connect works from the EDID of the television that is plugged in, or from
\* none, unless one before it gave up and left its own (EDIDRead reads only
\* what is not cached).
FreshEdid ==
  [][~hd.conn /\ hd'.conn /\ ~halfway => edid' \in {NoSink, sink}]_vars

\* An HDMI television is sent YCbCr only if it accepts it, as long as the EDID
\* the mode was chosen by is still the cached one (setHdmiOutputMode).
ModeFitsSink ==
  hd.conn /\ edid # NoSink /\ hd.modeBy = edid /\ hd.mode = "YCBCR" /\ HasVendorBlock(edid) =>
    edid.ycc /\ edid.rev = 3

\* What a television declares of a format.
Declares(e, f) ==
  \/ f \in e.dtd \cup e.xdtd
  \/ \E i \in DOMAIN e.vics : e.vics[i] \in {VideoParams[f].vic, VideoParams[f].wide}

\* It is sent a resolution it declares, or the last resort, and 3D only if it
\* declares that structure (setHdmiResolution).
ResolutionFitsSink ==
  hd.conn /\ edid # NoSink /\ hd.resBy = edid /\ <<hd.res, hd.s3d>> # Fallback =>
    \E p \in PresetsOf(hd.res, hd.s3d) :
      /\ Declares(edid, FormatOf(p))
      /\ hd.s3d # "2D" =>
           \/ <<FormatOf(p), hd.s3d>> \in Mandatory3D /\ edid.mandatory
           \/ (IF hd.s3d = "SBS" THEN "SSH" ELSE "TB") \in edid.structs
           \/ edid.detail

\* On the bus of the television whose EDID is cached the device speaks with the
\* physical address that EDID gives it, under a logical address no other device
\* has, unless the thread outlived a disconnect or a connect gave up before.
SpeaksForSink ==
  sink # NoSink /\ edid = sink /\ ~cec.outlived /\ ~halfway /\ said # Silent =>
    /\ "paddr" \in DOMAIN said => said.paddr = sink.paddr
    /\ said.src \in {Unregistered} \cup (Range(PlayerAddresses) \ sink.others)
=============================================================================
