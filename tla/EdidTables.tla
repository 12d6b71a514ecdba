----------------------------- MODULE EdidTables -----------------------------
(***************************************************************************)
(* What a television can show, as libedid reads it out of its EDID, and    *)
(* what ExynosHdmi asks about: the tables of libedid.c and                 *)
(* ExynosHdmiUtils.cpp and the questions answered from them.               *)
(*                                                                         *)
(* An EDID is a record:                                                    *)
(*   exts     the number of extension blocks,                              *)
(*   map      the first of them is a block map,                            *)
(*   rev      the revision of the timing extension,                        *)
(*   hdmi     there is a vendor block (HDMI, not DVI),                     *)
(*   paddr    the physical CEC address in it,                              *)
(*   ycc      YCbCr 4:4:4 is accepted,                                     *)
(*   tmds     the clock limit in the vendor block in 5 MHz, 0 for none,    *)
(*   dtd, xdtd  the formats with a detailed timing, in block 0 and in the  *)
(*            extension,                                                   *)
(*   vics     the video codes of the extension, in order,                  *)
(*   mandatory  the mandatory 3D formats are accepted,                     *)
(*   structs  the 3D structures accepted for the first NVic codes,         *)
(*   detail   there are 3D entries per code besides.                       *)
(***************************************************************************)
EXTENDS Integers, Sequences, SequencesExt

CONSTANTS NVic,        \* NUM_OF_VIC_FOR_3D
          Default2D,   \* DEFAULT_HDMI_RESOLUTION_VALUE
          Default3D    \* DEFAULT_HDMI_RESOLUTION_VALUE_S3D_TB and _SBS

ASSUME NVicAssumption == NVic \in Nat \ {0}

\* Code, code at 16:9, and clock in MHz.
VideoParams ==
  [v640x480p_60Hz   |-> [vic |-> 1,  wide |-> 1,  mhz |-> 25],
   v720x480p_60Hz   |-> [vic |-> 2,  wide |-> 3,  mhz |-> 27],
   v720x576p_50Hz   |-> [vic |-> 17, wide |-> 18, mhz |-> 27],
   v1280x720p_60Hz  |-> [vic |-> 4,  wide |-> 4,  mhz |-> 74],
   v1280x720p_50Hz  |-> [vic |-> 19, wide |-> 19, mhz |-> 74],
   v1920x1080i_60Hz |-> [vic |-> 5,  wide |-> 5,  mhz |-> 74],
   v1920x1080i_50Hz |-> [vic |-> 20, wide |-> 20, mhz |-> 74],
   v1920x1080p_60Hz |-> [vic |-> 16, wide |-> 16, mhz |-> 148],
   v1920x1080p_50Hz |-> [vic |-> 31, wide |-> 31, mhz |-> 148],
   v1920x1080p_24Hz |-> [vic |-> 32, wide |-> 32, mhz |-> 74],
   v1920x1080p_30Hz |-> [vic |-> 34, wide |-> 34, mhz |-> 74]]

Formats == DOMAIN VideoParams

\* The 3D formats a sink that has the mandatory ones accepts, but for frame
\* packing, which nothing here asks for.
Mandatory3D ==
  {<<"v1920x1080i_60Hz", "SSH">>, <<"v1920x1080i_50Hz", "SSH">>,
   <<"v1920x1080p_24Hz", "TB">>, <<"v1280x720p_60Hz", "TB">>, <<"v1280x720p_50Hz", "TB">>}
-----------------------------------------------------------------------------
(* The resolutions of ExynosHdmi. *)

Modes3D == {"2D", "TB", "SBS"}

Preset2D ==
  {<<1080960, "1080P60">>, <<1080950, "1080P50">>, <<1080930, "1080P30">>,
   <<1080924, "1080P24">>, <<1080160, "1080I60">>, <<1080150, "1080I50">>,
   <<720960, "720P60">>, <<720950, "720P50">>, <<5769501, "576P50">>,
   <<5769502, "576P50">>, <<4809601, "480P60">>, <<4809602, "480P60">>}

PresetTB ==
  {<<1080960, "1080P60_TB">>, <<1080924, "1080P24_TB">>,
   <<720960, "720P60_TB">>, <<720950, "720P50_TB">>}

PresetSBS ==
  {<<1080960, "1080P60_SB_HALF">>, <<1080924, "1080P24_SB_HALF">>,
   <<720960, "720P60_SB_HALF">>}

PresetTable(s3d) ==
  CASE s3d = "2D" -> Preset2D [] s3d = "TB" -> PresetTB [] s3d = "SBS" -> PresetSBS

\* hdmi_resolution_2_preset_id: the presets of a resolution, at most one.
PresetsOf(r, s3d) == {p[2] : p \in {q \in PresetTable(s3d) : q[1] = r}}

ListOf(s3d) ==
  CASE s3d = "2D" -> <<1080960, 1080950, 1080930, 1080924, 1080160, 1080150,
                       720960, 720950, 5769501, 5769502, 4809601, 4809602>>
    [] s3d = "TB" -> <<1080960, 1080924, 720960, 720950>>
    [] s3d = "SBS" -> <<1080960, 1080924, 720960>>

\* m_resolutionValueIndex: where a search begins, after the list if nowhere.
StartOf(s3d) ==
  LET list == ListOf(s3d)
      r == IF s3d = "2D" THEN Default2D ELSE Default3D
  IN IF r \in Range(list) THEN SelectInSeq(list, LAMBDA v : v = r) ELSE Len(list) + 1

\* The last resort, 480P in 4:3.
Fallback == <<4809602, "2D">>
-----------------------------------------------------------------------------
(* What hdmi_check_resolution asks about a preset.  It sets the aspect      *)
(* ratio for two presets only and the colour depth for none: the other      *)
(* values are whatever the stack holds.                                     *)

Ratios == {"16_9", "4_3"}
Depths == {24, 30, 36}

FormatOf(p) ==
  CASE p \in {"480P60", "480P59_94"} -> "v720x480p_60Hz"
    [] p = "576P50" -> "v720x576p_50Hz"
    [] p \in {"720P60", "720P59_94", "720P60_TB", "720P60_SB_HALF"} -> "v1280x720p_60Hz"
    [] p \in {"720P50", "720P50_TB"} -> "v1280x720p_50Hz"
    [] p \in {"1080P60", "1080P59_94", "1080P60_TB", "1080P60_SB_HALF"} -> "v1920x1080p_60Hz"
    [] p = "1080P50" -> "v1920x1080p_50Hz"
    [] p \in {"1080P24", "1080P24_TB", "1080P24_SB_HALF"} -> "v1920x1080p_24Hz"
    [] p = "1080P30" -> "v1920x1080p_30Hz"
    [] p \in {"1080I60", "1080I59_94"} -> "v1920x1080i_60Hz"
    [] p = "1080I50" -> "v1920x1080i_50Hz"

\* Slip: side by side is asked about like a flat picture.
StructureForgotten(p) ==
  IF p \in {"720P60_TB", "720P50_TB", "1080P24_TB", "1080P60_TB"} THEN "TB" ELSE "2D"

StructureOf(p) ==
  CASE p \in {"720P60_TB", "720P50_TB", "1080P24_TB", "1080P60_TB"} -> "TB"
    [] p \in {"720P60_SB_HALF", "1080P24_SB_HALF", "1080P60_SB_HALF"} -> "SSH"
    [] OTHER -> "2D"

RatiosOf(p) == IF p \in {"480P60", "576P50"} THEN {"16_9"} ELSE Ratios
-----------------------------------------------------------------------------
(* libedid's answers from an EDID e. *)

\* The second block of several has to be a block map.
Readable(e) == e.exts > 1 => e.map

HasVendorBlock(e) == e.exts > 0 /\ e.hdmi

\* Only this revision counts, and for a DVI sink all but one.
IsTimingExtension(e) ==
  e.exts > 0 /\ (e.rev = 3 \/ (~HasVendorBlock(e) /\ e.rev # 2))

VicOf(f, ratio) ==
  IF ratio = "16_9" THEN VideoParams[f].wide ELSE VideoParams[f].vic

\* Block 0 holds detailed timings, an extension those and video codes.
IsContainVideoDTD(e, extension, f) == f \in IF extension = 0 THEN e.dtd ELSE e.xdtd
IsContainVIC(e, vic) == vic \in Range(e.vics)

CheckResolution(e, f, ratio) ==
  \/ IsContainVideoDTD(e, 0, f)
  \/ IsTimingExtension(e) /\ (IsContainVideoDTD(e, 1, f) \/ IsContainVIC(e, VicOf(f, ratio)))

CheckColorSpace(e, space) ==
  space = "RGB" \/ (space = "YCBCR444" /\ IsTimingExtension(e) /\ e.ycc)

MaxTmds(e) == IF IsTimingExtension(e) /\ HasVendorBlock(e) THEN e.tmds * 5 ELSE 0

\* Deep colour raises the clock by half or a quarter.
Clock(f, depth) ==
  LET mhz == VideoParams[f].mhz
  IN CASE depth = 36 -> (mhz * 3) \div 2 [] depth = 30 -> (mhz * 5) \div 4 [] depth = 24 -> mhz

ClockFits(e, f, depth) == MaxTmds(e) = 0 \/ Clock(f, depth) <= MaxTmds(e)

\* SaveVIC overwrites as many of the saved codes as the EDID has.
SaveVic(saved, e) ==
  [i \in 1 .. NVic |-> IF i <= Len(e.vics) THEN e.vics[i] ELSE saved[i]]

\* The mask of the structures is or-ed into ones: it never takes a code away.
InStructures(e, saved, f, structure, ratio) ==
  structure \in e.structs /\ VicOf(f, ratio) \in Range(SaveVic(saved, e))

InMandatory(e, f, structure, ratio) ==
  e.mandatory /\ CheckResolution(e, f, ratio) /\ <<f, structure>> \in Mandatory3D

\* EDID3DFormatSupport.  The entries per code are looked for at a wrong place
\* and with a wrong index: any answer.
Supports3D(e, saved, f, structure, ratio) ==
  IF structure = "2D" THEN {TRUE}
  ELSE IF ~(IsTimingExtension(e) /\ HasVendorBlock(e)) THEN {FALSE}
  ELSE IF InMandatory(e, f, structure, ratio) \/ InStructures(e, saved, f, structure, ratio) THEN {TRUE}
  ELSE IF e.detail THEN BOOLEAN ELSE {FALSE}

\* EDIDVideoResolutionSupport.
Supports(e, saved, f, structure, ratio, depth) ==
  IF ClockFits(e, f, depth) /\ CheckResolution(e, f, ratio)
  THEN Supports3D(e, saved, f, structure, ratio)
  ELSE {FALSE}

\* The answers hdmi_check_resolution may give.
Answers(e, saved, p) ==
  UNION {Supports(e, saved, FormatOf(p), StructureOf(p), ratio, depth) :
           ratio \in RatiosOf(p), depth \in Depths}

\* A question about a 3D format gets as far as saving the codes, or not.
Saves(e, f) ==
  {ClockFits(e, f, depth) /\ CheckResolution(e, f, ratio) : depth \in Depths, ratio \in Ratios}
=============================================================================
