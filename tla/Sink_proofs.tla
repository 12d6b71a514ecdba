----------------------------- MODULE Sink_proofs -----------------------------
(***************************************************************************)
(* Proofs about Sink for every set of televisions, every default and asked *)
(* resolution and mode, and every choice of what may fail.                 *)
(***************************************************************************)
EXTENDS Sink, TLAPS

USE SinksAssumption, DefaultModeAssumption, AskedAssumption, MaxRefAssumption

Edids == Sinks \cup {NoSink}

\* The variables have the values their fields may take; the resolution and the
\* addresses, taken from the televisions and the requests, are left open.
HdTyped ==
  /\ hd = [conn |-> hd.conn, mode |-> hd.mode, modeBy |-> hd.modeBy,
           res |-> hd.res, s3d |-> hd.s3d, resBy |-> hd.resBy]
  /\ hd.conn \in BOOLEAN /\ hd.mode \in Modes /\ hd.s3d \in Modes3D

CecTyped(c) ==
  /\ c = [fd |-> c.fd, thread |-> c.thread, flag |-> c.flag,
          paddr |-> c.paddr, laddr |-> c.laddr, outlived |-> c.outlived]
  /\ c.outlived \in BOOLEAN

TypeOK ==
  /\ sink \in Edids
  /\ ddc \in [ref : Nat, open : BOOLEAN]
  /\ edid \in Edids
  /\ HdTyped
  /\ leaks \in Nat
  /\ CecTyped(cec)

\* The line is open exactly while it is counted, the cache is filled over an open line,
\* and only a connect that gave up leaves more than the connection needs.
LineCounted ==
  /\ ddc.open <=> ddc.ref > 0
  /\ edid # NoSink => ddc.open
  /\ halfway => ddc.ref > 0
  /\ ~halfway => ddc.ref = IF hd.conn /\ edid # NoSink THEN 1 ELSE 0
  /\ ddc.ref <= leaks + (IF hd.conn THEN 1 ELSE 0)

\* A mode, a resolution with its 3D mode, that the EDID e they were chosen by declares.
ModeFits(e, mode) ==
  e # NoSink /\ mode = "YCBCR" /\ HasVendorBlock(e) => e.ycc /\ e.rev = 3

ResolutionFits(e, r, s3d) ==
  e # NoSink /\ <<r, s3d>> # Fallback =>
    \E p \in PresetsOf(r, s3d) :
      /\ Declares(e, FormatOf(p))
      /\ s3d # "2D" =>
           \/ <<FormatOf(p), s3d>> \in Mandatory3D /\ e.mandatory
           \/ (IF s3d = "SBS" THEN "SSH" ELSE "TB") \in e.structs
           \/ e.detail

Chosen == ModeFits(hd.modeBy, hd.mode) /\ ResolutionFits(hd.resBy, hd.res, hd.s3d)

AddressesFor(e) == {Unregistered} \cup (Range(PlayerAddresses) \ e.others)

\* A thread that no disconnect forgot belongs to the connection, and has the addresses
\* of the television whose EDID is cached.
ThreadKnowsSink ==
  cec.thread # "none" /\ ~cec.outlived /\ ~halfway =>
    /\ hd.conn /\ edid # NoSink
    /\ cec.paddr = edid.paddr /\ cec.laddr \in AddressesFor(edid)

\* Only a live thread has said anything since the connection changed.
SpeakerLives == said # Silent => cec.thread # "none"

\* The inductive invariant.
IInv ==
  TypeOK /\ LineCounted /\ Chosen /\ ThreadKnowsSink /\ SpeakerLives /\ SpeaksForSink
-----------------------------------------------------------------------------
(* The line and the cache. *)

Lines == [ref : Nat, open : BOOLEAN, edid : Edids]

Sound(l) ==
  /\ l \in Lines
  /\ l.open <=> l.ref > 0
  /\ l.edid # NoSink => l.open

LEMMA LineSound == IInv => Sound(Line) /\ Line.ref = ddc.ref /\ Line.edid = edid
BY DEF IInv, TypeOK, LineCounted, Sound, Lines, Line

\* What reading gives: the cached EDID, else that of the television or none, and none
\* over a closed line.
LEMMA ReadGives ==
  ASSUME sink \in Edids, NEW l \in Lines, NEW e \in EdidRead(l)
  PROVE  /\ e \in Edids
         /\ l.edid # NoSink => e = l.edid
         /\ l.edid = NoSink => e \in {NoSink, sink}
         /\ e # NoSink => l.open \/ l.edid # NoSink
<1>1. CASE l.edid # NoSink
  BY <1>1 DEF EdidRead, Lines
<1>2. CASE l.edid = NoSink
  <2>1. e \in {NoSink, sink} /\ IF e = NoSink THEN BlockMayFail(l) \/ ~Readable(sink)
                                ELSE l.open /\ Readable(e)
    BY <1>2 DEF EdidRead
  <2> QED BY <1>2, <2>1 DEF Edids
<1> QED BY <1>1, <1>2

LEMMA WithValue ==
  ASSUME NEW l \in Lines, NEW e \in Edids
  PROVE  /\ With(l, e) \in Lines
         /\ With(l, e).ref = l.ref /\ With(l, e).open = l.open /\ With(l, e).edid = e
BY DEF With, Lines

LEMMA ReadSound ==
  ASSUME sink \in Edids, NEW l, Sound(l), NEW e \in EdidRead(l)
  PROVE  /\ e \in Edids /\ Sound(With(l, e))
         /\ With(l, e).ref = l.ref /\ With(l, e).edid = e
         /\ l.edid # NoSink => e = l.edid
         /\ l.edid = NoSink => e \in {NoSink, sink}
         /\ l.ref = 0 => e = NoSink
<1>1. l \in Lines /\ l.ref \in Nat /\ (l.open <=> l.ref > 0) /\ (l.edid # NoSink => l.open)
  BY DEF Sound, Lines
<1>2. /\ e \in Edids
      /\ l.edid # NoSink => e = l.edid
      /\ l.edid = NoSink => e \in {NoSink, sink}
      /\ e # NoSink => l.open \/ l.edid # NoSink
  BY <1>1, ReadGives
<1>3. /\ With(l, e) \in Lines
      /\ With(l, e).ref = l.ref /\ With(l, e).open = l.open /\ With(l, e).edid = e
  BY <1>1, <1>2, WithValue
<1>4. l.ref = 0 => ~l.open
  BY <1>1
<1> QED BY <1>1, <1>2, <1>3, <1>4 DEF Sound

\* EDIDClose takes one off the count, and the last one closes the line.
LEMMA CloseSound ==
  ASSUME NEW l \in Lines, l.ref = 0 => ~l.open, l.ref > 1 => l.open
  PROVE  /\ Sound(EdidClose(l)) /\ EdidClose(l).edid = NoSink
         /\ EdidClose(l).ref = IF l.ref = 0 THEN 0 ELSE l.ref - 1
<1> DEFINE k == [l EXCEPT !.edid = NoSink]
<1>1. l.ref \in Nat /\ l.open \in BOOLEAN
  BY DEF Lines
<1>2. k \in Lines /\ k.ref = l.ref /\ k.open = l.open /\ k.edid = NoSink
  BY DEF Lines, Edids
<1> HIDE DEF k
<1>4. CASE l.ref > 1
  <2>1. DdcClose(k) = [k EXCEPT !.ref = k.ref - 1]
    BY <1>1, <1>2, <1>4 DEF DdcClose
  <2>2. l.ref - 1 \in Nat /\ l.ref - 1 > 0
    BY <1>1, <1>4
  <2>3. /\ DdcClose(k) \in Lines /\ DdcClose(k).ref = l.ref - 1
        /\ DdcClose(k).open = l.open /\ DdcClose(k).edid = NoSink
    BY <1>2, <2>1, <2>2 DEF Lines
  <2> QED BY <1>1, <1>4, <2>2, <2>3 DEF EdidClose, Sound, k
<1>5. CASE l.ref = 1
  <2>1. DdcClose(k) = [k EXCEPT !.ref = 0, !.open = FALSE]
    BY <1>2, <1>5 DEF DdcClose
  <2>2. DdcClose(k) = [ref |-> 0, open |-> FALSE, edid |-> NoSink]
    BY <1>2, <2>1 DEF Lines
  <2>3. /\ DdcClose(k) \in Lines /\ DdcClose(k).ref = 0
        /\ DdcClose(k).open = FALSE /\ DdcClose(k).edid = NoSink
    BY <2>2 DEF Lines, Edids
  <2> QED BY <1>5, <2>3 DEF EdidClose, Sound, k
<1>3. l.ref = 0 => Sound(EdidClose(l)) /\ EdidClose(l).edid = NoSink /\ EdidClose(l).ref = 0
  BY <1>2 DEF EdidClose, DdcClose, Sound, k
<1> QED BY <1>1, <1>3, <1>4, <1>5

\* DDCOpen counts, also when the device cannot be opened.
LEMMA OpenValue ==
  ASSUME NEW l, Sound(l), NEW o \in DdcOpen(l)
  PROVE  /\ o \in Lines /\ o.ref = l.ref + 1 /\ o.edid = l.edid
         /\ l.ref > 0 => o.open
<1>1. l \in Lines /\ l.ref \in Nat /\ l.open \in BOOLEAN /\ (l.open <=> l.ref > 0)
  BY DEF Sound, Lines
<1>2. CASE l.ref > 0
  <2>1. o = [l EXCEPT !.ref = l.ref + 1]
    BY <1>2 DEF DdcOpen
  <2>2. l.ref + 1 \in Nat
    BY <1>1
  <2> QED BY <1>1, <1>2, <2>1, <2>2 DEF Lines
<1>3. CASE ~(l.ref > 0)
  <2>1. PICK ok \in BOOLEAN : o = [l EXCEPT !.ref = 1, !.open = ok]
    BY <1>3 DEF DdcOpen
  <2>2. l.ref = 0 /\ l.ref + 1 = 1
    BY <1>1, <1>3
  <2>3. o = [ref |-> 1, open |-> ok, edid |-> l.edid] /\ l.edid \in Edids
    BY <1>1, <2>1 DEF Lines
  <2>4. o \in Lines /\ o.ref = 1 /\ o.edid = l.edid
    BY <2>3 DEF Lines
  <2> QED BY <1>3, <2>2, <2>4
<1> QED BY <1>2, <1>3

\* The line after connect opened it and tried to read: with an EDID it is counted once
\* more, without one as before.
LEMMA OpenedValue ==
  ASSUME sink \in Edids, Sound(Line), NEW l \in Opened
  PROVE  /\ Sound(l)
         /\ l.ref = IF l.edid # NoSink THEN Line.ref + 1 ELSE Line.ref
         /\ Line.edid = NoSink => l.edid \in {NoSink, sink}
<1>1. PICK q \in UNION {{<<o, e>> : e \in EdidRead(o)} : o \in DdcOpen(Line)} :
        l = IF q[2] = NoSink THEN EdidClose(q[1]) ELSE With(q[1], q[2])
  BY DEF Opened
<1>2. PICK o \in DdcOpen(Line) : q \in {<<o, e>> : e \in EdidRead(o)}
  OBVIOUS
<1> PICK e \in EdidRead(o) : q = <<o, e>>
  BY <1>2
<1>3. l = IF e = NoSink THEN EdidClose(o) ELSE With(o, e)
  BY <1>1
<1>4. Line.ref \in Nat /\ (Line.open <=> Line.ref > 0) /\ (Line.edid # NoSink => Line.open)
  BY DEF Sound, Lines
<1>5. /\ o \in Lines /\ o.ref = Line.ref + 1 /\ o.edid = Line.edid
      /\ Line.ref > 0 => o.open
  BY OpenValue
<1>6. /\ e \in Edids
      /\ o.edid = NoSink => e \in {NoSink, sink}
      /\ e # NoSink => o.open \/ o.edid # NoSink
  BY <1>5, ReadGives
<1>7. CASE e = NoSink
  <2>1. o.ref # 0 /\ (o.ref > 1 => o.open)
    BY <1>4, <1>5
  <2>2. /\ Sound(EdidClose(o)) /\ EdidClose(o).edid = NoSink
        /\ EdidClose(o).ref = IF o.ref = 0 THEN 0 ELSE o.ref - 1
    BY <1>5, <2>1, CloseSound
  <2>3. EdidClose(o).ref = Line.ref
    BY <1>4, <1>5, <2>1, <2>2
  <2> QED BY <1>3, <1>7, <2>2, <2>3
<1>8. CASE e # NoSink
  <2>1. /\ l \in Lines /\ l.ref = Line.ref + 1 /\ l.open = o.open /\ l.edid = e
    BY <1>3, <1>5, <1>6, <1>8, WithValue
  <2>2. o.open
    BY <1>4, <1>5, <1>6, <1>8
  <2>3. Line.ref + 1 > 0
    BY <1>4
  <2> QED BY <1>5, <1>6, <1>8, <2>1, <2>2, <2>3 DEF Sound
<1> QED BY <1>7, <1>8

\* Reading once more, when an earlier reading gave d.
LEMMA ReadAgain ==
  ASSUME sink \in Edids, NEW l, Sound(l), NEW d \in Edids, Sound(With(l, d)),
         NEW e \in EdidRead(With(l, d))
  PROVE  /\ e \in Edids /\ Sound(With(l, e))
         /\ d # NoSink => e = d
         /\ d = NoSink => e \in {NoSink, sink}
         /\ l.ref = 0 => e = NoSink
<1>1. l \in Lines /\ (l.open <=> l.ref > 0) /\ l.ref \in Nat
  BY DEF Sound, Lines
<1>2. With(l, d).ref = l.ref /\ With(l, d).open = l.open /\ With(l, d).edid = d
  BY <1>1, WithValue
<1>3. /\ e \in Edids
      /\ d # NoSink => e = d
      /\ d = NoSink => e \in {NoSink, sink}
      /\ l.ref = 0 => e = NoSink
  BY <1>2, ReadSound
<1>4. /\ With(l, e) \in Lines
      /\ With(l, e).ref = l.ref /\ With(l, e).open = l.open /\ With(l, e).edid = e
  BY <1>1, <1>3, WithValue
<1>5. e # NoSink => l.open
  BY <1>1, <1>3
<1> QED BY <1>1, <1>3, <1>4, <1>5 DEF Sound

-----------------------------------------------------------------------------
(* The output mode. *)

\* A check answers with the EDID it read, and YCbCr to an HDMI television only if it is
\* accepted.
LEMMA CheckModeValue ==
  ASSUME sink \in Edids, NEW l, Sound(l), NEW mode \in Modes, NEW m \in CheckMode(mode, l)
  PROVE  /\ m[2] \in EdidRead(l)
         /\ NewMode(mode, m[1]) \in Modes
         /\ ModeFits(m[2], NewMode(mode, m[1]))
<1>1. PICK e \in EdidRead(l) : m \in IF e = NoSink THEN ModeUnread(mode, l) ELSE {<<ModeFor(mode, e), e>>}
  BY DEF CheckMode
<1>2. CASE e = NoSink /\ mode # "DVI"
  <2>1. m = <<"DVI", NoSink>>
    BY <1>1, <1>2 DEF ModeUnread
  <2> QED BY <1>1, <1>2, <2>1 DEF NewMode, Modes, ModeFits
<1>3. CASE e = NoSink /\ mode = "DVI"
  <2>1. PICK f \in EdidRead(l) :
          m = <<IF f # NoSink /\ CheckColorSpace(f, "YCBCR444") THEN "YCBCR" ELSE "RGB", f>>
    BY <1>1, <1>3 DEF ModeUnread
  <2>2. m[2] = f /\ NewMode(mode, m[1]) = m[1] /\ m[1] \in {"YCBCR", "RGB"}
        /\ (m[1] = "YCBCR" => CheckColorSpace(f, "YCBCR444"))
    BY <2>1 DEF NewMode
  <2>3. CheckColorSpace(f, "YCBCR444") /\ HasVendorBlock(f) => f.ycc /\ f.rev = 3
    BY DEF CheckColorSpace, IsTimingExtension
  <2> QED BY <2>2, <2>3 DEF Modes, ModeFits
<1>4. CASE e # NoSink
  <2>1. m[1] = ModeFor(mode, e) /\ m[2] = e
    BY <1>1, <1>4
  <2>2. NewMode(mode, m[1]) \in Modes
    BY <2>1 DEF NewMode, ModeFor, Modes
  <2>3. ASSUME NewMode(mode, m[1]) = "YCBCR", HasVendorBlock(e) PROVE e.ycc /\ e.rev = 3
    <3>1. HasHdmi(e)
      BY <1>4, <2>3 DEF HasHdmi
    <3>2. CheckColorSpace(e, "YCBCR444")
      BY <2>1, <2>3, <3>1 DEF NewMode, ModeFor
    <3> QED BY <2>3, <3>2 DEF CheckColorSpace, IsTimingExtension
  <2> QED BY <1>1, <2>1, <2>2, <2>3 DEF ModeFits
<1> QED BY <1>2, <1>3, <1>4
-----------------------------------------------------------------------------
(* The resolution. *)

\* What a preset asks about depends on the 3D mode it belongs to.
LEMMA PresetStructure ==
  ASSUME NEW r, NEW s3d \in Modes3D, NEW p \in PresetsOf(r, s3d)
  PROVE  /\ s3d = "TB" => StructureOf(p) = "TB"
         /\ s3d = "SBS" => StructureOf(p) = "SSH" /\ <<FormatOf(p), "SSH">> \notin Mandatory3D
<1>1. CASE s3d = "TB"
  <2>1. p \in {"1080P60_TB", "1080P24_TB", "720P60_TB", "720P50_TB"}
    BY <1>1 DEF PresetsOf, PresetTable, PresetTB
  <2> QED BY <1>1, <2>1 DEF StructureOf
<1>2. CASE s3d = "SBS"
  <2>1. p \in {"1080P60_SB_HALF", "1080P24_SB_HALF", "720P60_SB_HALF"}
    BY <1>2 DEF PresetsOf, PresetTable, PresetSBS
  <2>2. StructureOf(p) = "SSH"
    BY <2>1 DEF StructureOf
  <2>3. FormatOf(p) \in {"v1920x1080p_60Hz", "v1920x1080p_24Hz", "v1280x720p_60Hz"}
    BY <2>1 DEF FormatOf
  <2>4. <<FormatOf(p), "SSH">> \notin Mandatory3D
    BY <2>3 DEF Mandatory3D
  <2> QED BY <1>2, <2>2, <2>4
<1> QED BY <1>1, <1>2 DEF Modes3D

\* A resolution libedid says yes to is declared.
LEMMA CheckedDeclares ==
  ASSUME NEW e, NEW f, NEW ratio, CheckResolution(e, f, ratio)
  PROVE  Declares(e, f)
<1>1. CASE IsContainVideoDTD(e, 0, f)
  BY <1>1 DEF IsContainVideoDTD, Declares
<1>2. CASE IsContainVideoDTD(e, 1, f)
  BY <1>2 DEF IsContainVideoDTD, Declares
<1>3. CASE IsContainVIC(e, VicOf(f, ratio))
  <2>1. VicOf(f, ratio) \in {VideoParams[f].vic, VideoParams[f].wide}
    BY DEF VicOf
  <2>2. \E i \in DOMAIN e.vics : e.vics[i] = VicOf(f, ratio)
    BY <1>3 DEF IsContainVIC, Range
  <2> QED BY <2>1, <2>2 DEF Declares
<1> QED BY <1>1, <1>2, <1>3 DEF CheckResolution

LEMMA AskedFits ==
  ASSUME NEW e, NEW r, NEW s3d \in Modes3D, TRUE \in Asks(e, r, s3d)
  PROVE  ResolutionFits(e, r, s3d)
<1>1. SUFFICES ASSUME e # NoSink PROVE ResolutionFits(e, r, s3d)
  BY DEF ResolutionFits
<1>2. PICK p \in PresetsOf(r, s3d) : TRUE \in Answers(e, saved, p)
  BY <1>1 DEF Asks
<1> DEFINE f == FormatOf(p)
           structure == StructureOf(p)
<1>3. PICK ratio \in RatiosOf(p), depth \in Depths :
        TRUE \in Supports(e, saved, f, structure, ratio, depth)
  <2>1. \A yes \in Answers(e, saved, p) : \E ratio \in RatiosOf(p), depth \in Depths :
          yes \in Supports(e, saved, f, structure, ratio, depth)
    BY SMT DEF Answers
  <2> QED BY <1>2, <2>1, Zenon
<1>4. CheckResolution(e, f, ratio) /\ TRUE \in Supports3D(e, saved, f, structure, ratio)
  BY <1>3 DEF Supports
<1>5. Declares(e, f)
  BY <1>4, CheckedDeclares
<1>6. ASSUME s3d # "2D"
      PROVE  \/ <<f, s3d>> \in Mandatory3D /\ e.mandatory
             \/ (IF s3d = "SBS" THEN "SSH" ELSE "TB") \in e.structs
             \/ e.detail
  <2>1. structure = IF s3d = "SBS" THEN "SSH" ELSE "TB"
    BY <1>6, PresetStructure DEF Modes3D
  <2>2. \/ <<f, structure>> \in Mandatory3D /\ e.mandatory
        \/ structure \in e.structs
        \/ e.detail
    BY <1>4, <2>1 DEF Supports3D, InMandatory, InStructures
  <2>3. s3d = "SBS" => <<f, structure>> \notin Mandatory3D
    BY <2>1, PresetStructure
  <2>4. s3d = "TB" => structure = s3d
    BY <2>1
  <2> QED BY <1>6, <2>1, <2>2, <2>3, <2>4 DEF Modes3D
<1> QED BY <1>5, <1>6 DEF ResolutionFits

\* A search ends with a resolution the EDID has, or with none.
LEMMA SearchedFits ==
  ASSUME NEW s3d \in Modes3D, NEW l, NEW e, NEW v \in Searched(s3d, l, e), v # None
  PROVE  v[2] = s3d /\ ResolutionFits(e, v[1], v[2])
<1> DEFINE list == ListOf(s3d)
           asked == StartOf(s3d) .. Len(list)
<1>1. PICK k \in asked : v = <<list[k], s3d>> /\ TRUE \in Asks(e, list[k], s3d)
  BY DEF Searched
<1> QED BY <1>1, AskedFits

\* setHdmiResolution ends with a resolution the EDID has, or with the last resort.
LEMMA ResolutionsFit ==
  ASSUME NEW r, NEW s3d \in Modes3D, NEW l, NEW e, NEW v \in Resolutions(r, s3d, l, e)
  PROVE  v[2] \in Modes3D /\ ResolutionFits(e, v[1], v[2])
<1>1. \/ v = <<r, s3d>> /\ TRUE \in Asks(e, r, s3d)
      \/ v # None /\ v \in Searched(s3d, l, e)
      \/ v # None /\ v \in Searched("2D", l, e)
      \/ v = Fallback
  BY DEF Resolutions
<1>2. CASE v = <<r, s3d>> /\ TRUE \in Asks(e, r, s3d)
  BY <1>2, AskedFits
<1>3. CASE v # None /\ v \in Searched(s3d, l, e)
  BY <1>3, SearchedFits
<1>4. CASE v # None /\ v \in Searched("2D", l, e)
  BY <1>4, SearchedFits DEF Modes3D
<1>5. CASE v = Fallback
  BY <1>5 DEF Fallback, ResolutionFits, Modes3D
<1> QED BY <1>1, <1>2, <1>3, <1>4, <1>5
-----------------------------------------------------------------------------
(* Connecting. *)

\* The line that connect works over: with an EDID it is counted once more than before,
\* and whatever is read later is what was found first, or nothing.
LEMMA ConnectLine ==
  ASSUME IInv, NEW asks, NEW l1 \in Opened, NEW l2 \in Addressed(asks, l1)
  PROVE  /\ Sound(l2)
         /\ ~halfway /\ ~hd.conn => /\ l2.ref = IF l2.edid # NoSink THEN 1 ELSE 0
                                    /\ l2.edid \in {NoSink, sink}
         /\ halfway => l2.ref > 0
         /\ l2.ref \in {ddc.ref, ddc.ref + 1}
<1>1. sink \in Edids /\ Sound(Line) /\ Line.ref = ddc.ref /\ Line.edid = edid
      /\ ddc.ref \in Nat
  BY LineSound DEF IInv, TypeOK
<1>2. /\ Sound(l1)
      /\ l1.ref = IF l1.edid # NoSink THEN ddc.ref + 1 ELSE ddc.ref
      /\ edid = NoSink => l1.edid \in {NoSink, sink}
  BY <1>1, OpenedValue
<1>3. /\ ~halfway /\ ~hd.conn => ddc.ref = 0 /\ edid = NoSink
      /\ halfway => ddc.ref > 0
  BY <1>1 DEF IInv, LineCounted
<1>4. CASE l2 = l1
  BY <1>1, <1>2, <1>3, <1>4
<1>5. CASE \E e \in EdidRead(l1) : l2 = With(l1, e)
  <2>1. PICK e \in EdidRead(l1) : l2 = With(l1, e)
    BY <1>5
  <2>2. /\ e \in Edids /\ Sound(l2) /\ l2.ref = l1.ref /\ l2.edid = e
        /\ l1.edid # NoSink => e = l1.edid
        /\ l1.edid = NoSink => e \in {NoSink, sink}
        /\ l1.ref = 0 => e = NoSink
    BY <1>1, <1>2, <2>1, ReadSound
  <2>3. l1.edid # NoSink \/ l1.edid = NoSink
    OBVIOUS
  <2> QED BY <1>1, <1>2, <1>3, <2>2, <2>3
<1> QED BY <1>4, <1>5 DEF Addressed

\* The last step of connect, failed or not.
Ends(l2, m, e, v) ==
  LET set == [hd EXCEPT !.mode = NewMode(hd.mode, m[1]), !.modeBy = m[2],
                        !.res = v[1], !.s3d = v[2], !.resBy = e]
  IN \/ /\ "external" \in Faults /\ leaks < MaxRef
        /\ hd' = set
        /\ SetLine(With(l2, e))
        /\ saved' \in SavedAfter(e, Formats3D(hd.s3d))
        /\ leaks' = leaks + l2.ref - ddc.ref
     \/ /\ hd' = [set EXCEPT !.conn = TRUE]
        /\ \E e2 \in EdidRead(With(l2, e)) :
             /\ SetLine(With(l2, e2))
             /\ saved' \in SavedAfter(e2, MenuFormats)
        /\ UNCHANGED leaks

LEMMA ConnectValue ==
  ASSUME IInv, NEW asks, NEW a, Connect(asks, a)
  PROVE  /\ sink' = sink /\ sink # NoSink /\ ~hd.conn
         /\ ddc' \in [ref : Nat, open : BOOLEAN] /\ edid' \in Edids
         /\ ddc'.open <=> ddc'.ref > 0
         /\ edid' # NoSink => ddc'.open
         /\ ~halfway => /\ edid' \in {NoSink, sink}
                        /\ ddc'.ref = IF edid' # NoSink THEN 1 ELSE 0
         /\ leaks' \in Nat
         /\ halfway => halfway'
         /\ halfway' => ddc'.ref > 0
         /\ ~hd'.conn /\ ~halfway' => ddc'.ref = 0
         /\ ddc'.ref <= leaks' + (IF hd'.conn THEN 1 ELSE 0)
         /\ a # NotFound => edid' # NoSink /\ a = edid'.paddr
         /\ HdTyped' /\ Chosen'
<1>1. sink \in Edids /\ sink' = sink /\ sink # NoSink /\ ~hd.conn /\ leaks \in Nat
      /\ HdTyped
  BY DEF Connect, IInv, TypeOK, HdTyped
<1>2. PICK l1 \in Opened :
        \E l2 \in {l \in Addressed(asks, l1) : a = AddressOf(l)} :
        \E m \in CheckMode(hd.mode, l2) :
        \E e \in EdidRead(With(l2, m[2])) :
        \E v \in Resolutions(hd.res, hd.s3d, With(l2, m[2]), e) : Ends(l2, m, e, v)
  BY DEF Connect, Ends
<1>3. PICK l2 \in {l \in Addressed(asks, l1) : a = AddressOf(l)} :
        \E m \in CheckMode(hd.mode, l2) :
        \E e \in EdidRead(With(l2, m[2])) :
        \E v \in Resolutions(hd.res, hd.s3d, With(l2, m[2]), e) : Ends(l2, m, e, v)
  BY <1>2
<1>4. PICK m \in CheckMode(hd.mode, l2) :
        \E e \in EdidRead(With(l2, m[2])) :
        \E v \in Resolutions(hd.res, hd.s3d, With(l2, m[2]), e) : Ends(l2, m, e, v)
  BY <1>3
<1>5. PICK e \in EdidRead(With(l2, m[2])) :
        \E v \in Resolutions(hd.res, hd.s3d, With(l2, m[2]), e) : Ends(l2, m, e, v)
  BY <1>4
<1>6. PICK v \in Resolutions(hd.res, hd.s3d, With(l2, m[2]), e) : Ends(l2, m, e, v)
  BY <1>5
<1>24. l2 \in Addressed(asks, l1) /\ a = AddressOf(l2)
  OBVIOUS
<1>7. /\ Sound(l2)
      /\ ~halfway => /\ l2.ref = IF l2.edid # NoSink THEN 1 ELSE 0
                     /\ l2.edid \in {NoSink, sink}
      /\ halfway => l2.ref > 0
      /\ l2.ref \in {ddc.ref, ddc.ref + 1}
  BY <1>1, <1>24, ConnectLine
<1>8. /\ m[2] \in EdidRead(l2) /\ NewMode(hd.mode, m[1]) \in Modes
      /\ ModeFits(m[2], NewMode(hd.mode, m[1]))
  BY <1>1, <1>7, CheckModeValue DEF HdTyped
<1>9. v[2] \in Modes3D /\ ResolutionFits(e, v[1], v[2])
  BY <1>1, ResolutionsFit DEF HdTyped
<1>10. /\ m[2] \in Edids /\ Sound(With(l2, m[2]))
       /\ l2.edid # NoSink => m[2] = l2.edid
       /\ l2.edid = NoSink => m[2] \in {NoSink, sink}
       /\ l2.ref = 0 => m[2] = NoSink
  BY <1>1, <1>7, <1>8, ReadSound
<1>11. /\ e \in Edids /\ Sound(With(l2, e))
       /\ m[2] # NoSink => e = m[2]
       /\ m[2] = NoSink => e \in {NoSink, sink}
       /\ l2.ref = 0 => e = NoSink
  BY <1>1, <1>7, <1>10, ReadAgain
<1>12. PICK x \in Edids : /\ SetLine(With(l2, x)) /\ Sound(With(l2, x))
                          /\ l2.edid # NoSink => x = l2.edid
                          /\ l2.ref = 0 => x = NoSink
  <2>1. l2.edid # NoSink => e = l2.edid
    BY <1>10, <1>11
  <2>2. CASE SetLine(With(l2, e))
    BY <1>11, <2>1, <2>2
  <2>3. CASE \E e2 \in EdidRead(With(l2, e)) : SetLine(With(l2, e2))
    <3>1. PICK e2 \in EdidRead(With(l2, e)) : SetLine(With(l2, e2))
      BY <2>3
    <3>2. /\ e2 \in Edids /\ Sound(With(l2, e2))
          /\ e # NoSink => e2 = e
          /\ l2.ref = 0 => e2 = NoSink
      BY <1>1, <1>7, <1>11, ReadAgain
    <3> QED BY <2>1, <3>1, <3>2
  <2> QED BY <1>6, <2>2, <2>3 DEF Ends
<1>13. l2 \in Lines /\ l2.ref \in Nat /\ l2.open \in BOOLEAN /\ (l2.open <=> l2.ref > 0)
       /\ (l2.edid # NoSink => l2.open)
  BY <1>7 DEF Sound, Lines
<1>14. ddc' = [ref |-> l2.ref, open |-> l2.open] /\ edid' = x
  BY <1>12, <1>13, WithValue DEF SetLine
<1>15. ddc' \in [ref : Nat, open : BOOLEAN] /\ ddc'.ref = l2.ref /\ ddc'.open = l2.open
  BY <1>13, <1>14
<1>16. edid' # NoSink => ddc'.open
  BY <1>12, <1>13, <1>14, <1>15
<1>17. ~halfway => edid' = l2.edid
  <2>1. ~halfway /\ l2.edid = NoSink => l2.ref = 0
    BY <1>7
  <2> QED BY <1>12, <1>14, <2>1
<1>18. a # NotFound => l2.edid # NoSink /\ a = l2.edid.paddr
  BY <1>24 DEF AddressOf
<1>19. a # NotFound => edid' # NoSink /\ a = edid'.paddr
  BY <1>12, <1>14, <1>18
<1>20. /\ hd' = [conn |-> hd'.conn, mode |-> NewMode(hd.mode, m[1]), modeBy |-> m[2],
                 res |-> v[1], s3d |-> v[2], resBy |-> e]
       /\ \/ hd'.conn = hd.conn /\ leaks' = leaks + l2.ref - ddc.ref
          \/ hd'.conn = TRUE /\ leaks' = leaks
  BY <1>1, <1>6 DEF HdTyped, Ends
<1>21. HdTyped' /\ Chosen'
  <2>1. /\ hd'.mode = NewMode(hd.mode, m[1]) /\ hd'.modeBy = m[2]
        /\ hd'.res = v[1] /\ hd'.s3d = v[2] /\ hd'.resBy = e
    BY <1>20
  <2>2. hd'.conn \in BOOLEAN
    BY <1>1, <1>20 DEF HdTyped
  <2>3. hd' = [conn |-> hd'.conn, mode |-> hd'.mode, modeBy |-> hd'.modeBy,
               res |-> hd'.res, s3d |-> hd'.s3d, resBy |-> hd'.resBy]
    BY <1>20, <2>1
  <2>4. HdTyped'
    BY <1>8, <1>9, <2>1, <2>2, <2>3 DEF HdTyped
  <2>5. Chosen'
    BY <1>8, <1>9, <2>1 DEF Chosen
  <2> QED BY <2>4, <2>5
<1>22. /\ leaks' \in Nat
       /\ halfway => halfway'
       /\ halfway' => ddc'.ref > 0
       /\ ~hd'.conn /\ ~halfway' => ddc'.ref = 0
       /\ ddc'.ref <= leaks' + (IF hd'.conn THEN 1 ELSE 0)
  <2>1. hd.conn = FALSE
    BY <1>1 DEF HdTyped
  <2>2. /\ ddc.ref \in Nat /\ ddc.ref <= leaks
        /\ leaks = 0 => ddc.ref = 0
        /\ leaks > 0 => ddc.ref > 0
    BY <2>1 DEF IInv, TypeOK, LineCounted, halfway
  <2>3. l2.ref \in {ddc.ref, ddc.ref + 1} /\ ddc'.ref = l2.ref
    BY <1>7, <1>15
  <2>4. CASE hd'.conn = hd.conn /\ leaks' = leaks + l2.ref - ddc.ref
    BY <1>1, <2>1, <2>2, <2>3, <2>4 DEF halfway
  <2>5. CASE hd'.conn = TRUE /\ leaks' = leaks
    BY <1>1, <2>2, <2>3, <2>5 DEF halfway
  <2> QED BY <1>20, <2>4, <2>5
<1> QED
  BY <1>1, <1>7, <1>12, <1>13, <1>14, <1>15, <1>16, <1>17, <1>19, <1>21, <1>22
-----------------------------------------------------------------------------
(* Disconnecting, and asking for a mode or a resolution. *)

\* Disconnecting empties the cache and takes one off the count.
LEMMA DisconnectValue ==
  ASSUME IInv, Disconnect
  PROVE  /\ sink' = sink /\ hd.conn
         /\ ddc' \in [ref : Nat, open : BOOLEAN] /\ edid' = NoSink
         /\ ddc'.open <=> ddc'.ref > 0
         /\ leaks' \in Nat /\ (halfway' <=> halfway /\ ddc'.ref > 0)
         /\ ddc'.ref <= leaks'
         /\ ~halfway => ddc'.ref = 0
         /\ HdTyped' /\ Chosen'
<1>1. Sound(Line) /\ Line.ref = ddc.ref /\ Line.edid = edid
  BY LineSound
<1>2. Line \in Lines /\ Line.ref \in Nat /\ (Line.open <=> Line.ref > 0)
  BY <1>1 DEF Sound, Lines
<1>3. /\ Sound(EdidClose(Line)) /\ EdidClose(Line).edid = NoSink
      /\ EdidClose(Line).ref = IF Line.ref = 0 THEN 0 ELSE Line.ref - 1
  BY <1>2, CloseSound
<1>4. ddc' = [ref |-> EdidClose(Line).ref, open |-> EdidClose(Line).open] /\ edid' = NoSink
  BY <1>3 DEF Disconnect, SetLine
<1>5. EdidClose(Line).ref \in Nat /\ EdidClose(Line).open \in BOOLEAN
      /\ (EdidClose(Line).open <=> EdidClose(Line).ref > 0)
  BY <1>3 DEF Sound, Lines
<1>6. ddc' \in [ref : Nat, open : BOOLEAN] /\ ddc'.ref = EdidClose(Line).ref
      /\ ddc'.open = EdidClose(Line).open
  BY <1>4, <1>5
<1>7. ~halfway => ddc.ref \in {0, 1}
  BY DEF IInv, LineCounted
<1>8. ~halfway => ddc'.ref = 0
  BY <1>1, <1>3, <1>6, <1>7
<1>9. HdTyped /\ Chosen
  BY DEF IInv, TypeOK, HdTyped
<1>10. HdTyped' /\ Chosen'
  <2>1. CASE hd' = hd
    BY <1>9, <2>1 DEF HdTyped, Chosen
  <2>2. CASE hd' = [Unset EXCEPT !.s3d = hd.s3d]
    <3>1. hd' = [conn |-> FALSE, mode |-> DefaultMode, modeBy |-> NoSink,
                 res |-> Default2D, s3d |-> hd.s3d, resBy |-> NoSink]
      BY <2>2 DEF Unset
    <3>2. /\ hd'.conn = FALSE /\ hd'.mode = DefaultMode /\ hd'.modeBy = NoSink
          /\ hd'.res = Default2D /\ hd'.s3d = hd.s3d /\ hd'.resBy = NoSink
      BY <3>1
    <3>3. HdTyped'
      BY <1>9, <3>1, <3>2 DEF HdTyped
    <3>4. Chosen'
      BY <3>2 DEF Chosen, ModeFits, ResolutionFits
    <3> QED BY <3>3, <3>4
  <2> QED BY <2>1, <2>2 DEF Disconnect
<1>11. sink' = sink /\ hd.conn /\ leaks' = IF EdidClose(Line).ref = 0 THEN 0 ELSE leaks
  BY DEF Disconnect
<1>12. leaks \in Nat /\ ddc.ref \in Nat /\ ddc.ref <= leaks + 1
  BY <1>11 DEF IInv, TypeOK, LineCounted
<1>13. /\ leaks' \in Nat /\ (halfway' <=> halfway /\ ddc'.ref > 0)
       /\ ddc'.ref <= leaks'
  BY <1>1, <1>3, <1>5, <1>6, <1>11, <1>12 DEF halfway
<1> QED BY <1>4, <1>5, <1>6, <1>8, <1>10, <1>11, <1>13

\* A request works over the line as it is: it reads at most what was not read.
LEMMA RequestValue ==
  ASSUME IInv, Request
  PROVE  /\ UNCHANGED <<sink, leaks, ddc>> /\ hd'.conn = hd.conn
         /\ edid' \in Edids
         /\ edid # NoSink => edid' = edid
         /\ ddc.ref = 0 => edid' = NoSink
         /\ HdTyped' /\ Chosen'
<1>1. sink \in Edids /\ Sound(Line) /\ Line.ref = ddc.ref /\ Line.edid = edid
      /\ ddc \in [ref : Nat, open : BOOLEAN] /\ Line.open = ddc.open
  BY LineSound DEF IInv, TypeOK, Line
<1>2. HdTyped /\ Chosen
  BY DEF IInv, TypeOK, HdTyped
<1>3. ASSUME NEW e \in EdidRead(Line), SetLine(With(Line, e))
      PROVE  /\ ddc' = ddc /\ edid' = e /\ edid' \in Edids
             /\ edid # NoSink => edid' = edid
             /\ ddc.ref = 0 => edid' = NoSink
  <2>1. /\ e \in Edids
        /\ edid # NoSink => e = edid
        /\ ddc.ref = 0 => e = NoSink
    BY <1>1, ReadSound
  <2>2. Line \in Lines
    BY <1>1 DEF Sound
  <2>3. ddc' = [ref |-> ddc.ref, open |-> ddc.open] /\ edid' = e
    BY <1>1, <1>3, <2>1, <2>2, WithValue DEF SetLine
  <2> QED BY <1>1, <2>1, <2>3
<1>4. CASE \E m \in AskedModes : SetHdmiOutputMode(m)
  <2>1. PICK m \in AskedModes : SetHdmiOutputMode(m)
    BY <1>4
  <2>2. PICK c \in CheckMode(m, Line) :
          /\ hd' = [hd EXCEPT !.mode = NewMode(m, c[1]), !.modeBy = c[2]]
          /\ SetLine(With(Line, c[2]))
    BY <2>1 DEF SetHdmiOutputMode
  <2>3. /\ c[2] \in EdidRead(Line) /\ NewMode(m, c[1]) \in Modes
        /\ ModeFits(c[2], NewMode(m, c[1]))
    BY <1>1, CheckModeValue, DefaultModeAssumption
  <2>4. hd' = [conn |-> hd.conn, mode |-> NewMode(m, c[1]), modeBy |-> c[2],
               res |-> hd.res, s3d |-> hd.s3d, resBy |-> hd.resBy]
    BY <1>2, <2>2 DEF HdTyped
  <2>5. /\ hd'.conn = hd.conn /\ hd'.mode = NewMode(m, c[1]) /\ hd'.modeBy = c[2]
        /\ hd'.res = hd.res /\ hd'.s3d = hd.s3d /\ hd'.resBy = hd.resBy
    BY <2>4
  <2>6. HdTyped'
    BY <1>2, <2>3, <2>4, <2>5 DEF HdTyped
  <2>7. Chosen'
    BY <1>2, <2>3, <2>5 DEF Chosen
  <2> QED BY <1>3, <2>1, <2>2, <2>3, <2>5, <2>6, <2>7 DEF SetHdmiOutputMode
<1>5. CASE \E x \in Asked : SetHdmiResolution(x[1], x[2])
  <2>1. PICK x \in Asked : SetHdmiResolution(x[1], x[2])
    BY <1>5
  <2>2. PICK e \in EdidRead(Line) :
        \E v \in Resolutions(x[1], x[2], Line, e) :
          /\ hd' = [hd EXCEPT !.res = v[1], !.s3d = v[2], !.resBy = e]
          /\ SetLine(With(Line, e))
    BY <2>1 DEF SetHdmiResolution
  <2>3. PICK v \in Resolutions(x[1], x[2], Line, e) :
          /\ hd' = [hd EXCEPT !.res = v[1], !.s3d = v[2], !.resBy = e]
          /\ SetLine(With(Line, e))
    BY <2>2
  <2>4. v[2] \in Modes3D /\ ResolutionFits(e, v[1], v[2])
    BY ResolutionsFit, AskedAssumption
  <2>5. hd' = [conn |-> hd.conn, mode |-> hd.mode, modeBy |-> hd.modeBy,
               res |-> v[1], s3d |-> v[2], resBy |-> e]
    BY <1>2, <2>3 DEF HdTyped
  <2>6. /\ hd'.conn = hd.conn /\ hd'.mode = hd.mode /\ hd'.modeBy = hd.modeBy
        /\ hd'.res = v[1] /\ hd'.s3d = v[2] /\ hd'.resBy = e
    BY <2>5
  <2>7. HdTyped'
    BY <1>2, <2>4, <2>5, <2>6 DEF HdTyped
  <2>8. Chosen'
    BY <1>2, <2>4, <2>6 DEF Chosen
  <2> QED BY <1>3, <2>1, <2>3, <2>6, <2>7, <2>8 DEF SetHdmiResolution
<1> QED BY <1>4, <1>5 DEF Request
-----------------------------------------------------------------------------
(* The CEC thread. *)

\* A logical address of a playback device that nobody has, or none.
LEMMA AllocatedFree ==
  ASSUME NEW a, NEW others
  PROVE  Allocated(a, others) \in {Unregistered} \cup (Range(PlayerAddresses) \ others)
<1> DEFINE free == {i \in DOMAIN PlayerAddresses : PlayerAddresses[i] \notin others}
<1>1. DOMAIN PlayerAddresses = 1 .. 3
  BY DEF PlayerAddresses
<1>2. CASE a = Invalid \/ free = {}
  BY <1>2 DEF Allocated
<1>3. CASE ~(a = Invalid \/ free = {})
  <2>1. \E i \in free : \A j \in free : i <= j
    <3>1. free \subseteq 1 .. 3 /\ free # {}
      BY <1>1, <1>3
    <3> HIDE DEF free
    <3>2. CASE 1 \in free
      <4>1. \A j \in free : 1 <= j
        BY <3>1
      <4> QED BY <3>2, <4>1
    <3>3. CASE 1 \notin free /\ 2 \in free
      <4>1. \A j \in free : 2 <= j
        BY <3>1, <3>3
      <4> QED BY <3>3, <4>1
    <3>4. CASE 1 \notin free /\ 2 \notin free
      <4>1. \A j \in free : j = 3
        BY <3>1, <3>4
      <4>2. 3 \in free
        BY <3>1, <4>1
      <4> QED BY <4>1, <4>2
    <3> QED BY <3>2, <3>3, <3>4
  <2> DEFINE k == CHOOSE i \in free : \A j \in free : i <= j
  <2>2. k \in free
    BY <2>1
  <2>3. PlayerAddresses[k] \in Range(PlayerAddresses) \ others
    BY <2>2 DEF Range
  <2>4. Allocated(a, others) = PlayerAddresses[k]
    BY <1>3 DEF Allocated
  <2> QED BY <2>3, <2>4
<1> QED BY <1>2, <1>3

\* Starting it: a live thread stays what it is; a new one has the addresses it was
\* started with, and says first under which.
LEMMA StartValue ==
  ASSUME NEW c, CecTyped(c), NEW s, NEW a, NEW others, NEW y \in CecStart(c, s, a, others)
  PROVE  /\ CecTyped(y[1])
         /\ c.thread # "none" => y[1].thread = c.thread /\ y[1].outlived = c.outlived
         /\ c.thread = "none" /\ y[1].thread # "none" =>
              a # -1 /\ y[1].paddr = a /\ y[1].laddr = Allocated(a, others)
         /\ \/ y[2] = s
            \/ /\ y[1].thread # "none" /\ y[2] = PowerRequest(y[1])
               /\ y[1].laddr = Allocated(a, others)
<1>1. CASE a = -1
  <2>1. y = <<[c EXCEPT !.paddr = Invalid], s>>
    BY <1>1 DEF CecStart
  <2>2. y[1] = [fd |-> c.fd, thread |-> c.thread, flag |-> c.flag,
                paddr |-> Invalid, laddr |-> c.laddr, outlived |-> c.outlived] /\ y[2] = s
    BY <2>1 DEF CecTyped
  <2> QED BY <2>2 DEF CecTyped
<1>2. CASE a # -1
  <2>1. PICK o \in CecOpen([c EXCEPT !.paddr = a]) :
          LET placed == [o EXCEPT !.laddr = Allocated(a, others)]
          IN \/ y = <<o, s>>
             \/ y = <<RunThread(placed), PowerRequest(placed)>>
             \/ y = <<CecClose([placed EXCEPT !.laddr = 0]), s>>
    BY <1>2 DEF CecStart
  <2>2. PICK ok \in BOOLEAN : o = [[c EXCEPT !.paddr = a] EXCEPT !.fd = ok]
    BY DEF CecOpen
  <2>3. o = [fd |-> ok, thread |-> c.thread, flag |-> c.flag,
             paddr |-> a, laddr |-> c.laddr, outlived |-> c.outlived]
    BY <2>2 DEF CecTyped
  <2> DEFINE placed == [fd |-> ok, thread |-> c.thread, flag |-> c.flag, paddr |-> a,
                        laddr |-> Allocated(a, others), outlived |-> c.outlived]
  <2>4. \/ y = <<o, s>>
        \/ y = <<RunThread(placed), PowerRequest(placed)>>
        \/ y = <<CecClose([placed EXCEPT !.laddr = 0]), s>>
    <3>1. [o EXCEPT !.laddr = Allocated(a, others)] = placed
      BY <2>3
    <3> HIDE DEF placed
    <3> QED BY <2>1, <3>1
  <2>5. CASE y = <<o, s>>
    BY <2>3, <2>5 DEF CecTyped
  <2>6. CASE y = <<RunThread(placed), PowerRequest(placed)>>
    <3>1. CASE c.thread = "none"
      <4>1. y[1] = [fd |-> ok, thread |-> "starting", flag |-> c.flag, paddr |-> a,
                    laddr |-> Allocated(a, others), outlived |-> FALSE]
            /\ y[2] = PowerRequest(placed)
        BY <2>6, <3>1 DEF RunThread
      <4>2. PowerRequest(placed) = PowerRequest(y[1])
        BY <4>1 DEF PowerRequest
      <4> QED BY <1>2, <3>1, <4>1, <4>2 DEF CecTyped
    <3>2. CASE c.thread # "none"
      BY <1>2, <2>6, <3>2 DEF RunThread, CecTyped
    <3> QED BY <3>1, <3>2
  <2>7. CASE y = <<CecClose([placed EXCEPT !.laddr = 0]), s>>
    <3>1. y[1] = [fd |-> FALSE, thread |-> c.thread, flag |-> c.flag, paddr |-> a,
                  laddr |-> 0, outlived |-> c.outlived] /\ y[2] = s
      BY <2>7 DEF CecClose
    <3> QED BY <3>1 DEF CecTyped
  <2> QED BY <2>4, <2>5, <2>6, <2>7
<1> QED BY <1>1, <1>2

\* disconnect leaves no thread, or one that is known to have outlived it.
LEMMA ReleaseValue ==
  ASSUME NEW c, CecTyped(c)
  PROVE  /\ CecTyped(CecRelease(c))
         /\ CecRelease(c).thread = "none" \/ CecRelease(c).outlived
<1>1. CASE c.flag
  <2>1. CecRelease(c) = [[c EXCEPT !.thread = "none", !.flag = FALSE] EXCEPT !.fd = FALSE]
    BY <1>1 DEF CecRelease, CecStop, CecClose
  <2>2. CecRelease(c) = [fd |-> FALSE, thread |-> "none", flag |-> FALSE, paddr |-> c.paddr,
                         laddr |-> c.laddr, outlived |-> c.outlived]
    BY <2>1 DEF CecTyped
  <2> QED BY <2>2 DEF CecTyped
<1>2. CASE ~c.flag
  <2>1. CecRelease(c) = [fd |-> c.fd, thread |-> c.thread, flag |-> c.flag, paddr |-> c.paddr,
                         laddr |-> c.laddr, outlived |-> (c.thread # "none")]
    BY <1>2 DEF CecRelease, CecTyped
  <2>2. (c.thread # "none") \in BOOLEAN
    OBVIOUS
  <2>3. CecRelease(c).thread = c.thread /\ CecRelease(c).outlived = (c.thread # "none")
    BY <2>1
  <2>4. CecRelease(c).thread = "none" \/ CecRelease(c).outlived
    BY <2>3
  <2> QED BY <2>1, <2>2, <2>4 DEF CecTyped
<1> QED BY <1>1, <1>2

\* Every frame goes out under the logical address, and tells no other physical address.
LEMMA ReplyValue ==
  ASSUME NEW c, NEW f
  PROVE  Reply(c, f).src = c.laddr /\ ("paddr" \in DOMAIN Reply(c, f) => Reply(c, f).paddr = c.paddr)
<1>1. Report(c).src = c.laddr /\ Report(c).paddr = c.paddr
  BY DEF Report
<1>2. [Report(c) EXCEPT !.op = "ACTIVE_SOURCE"].src = c.laddr
      /\ [Report(c) EXCEPT !.op = "ACTIVE_SOURCE"].paddr = c.paddr
  BY DEF Report
<1>3. \A op : LET b == [op |-> op, src |-> c.laddr, dst |-> f.src]
              IN b.src = c.laddr /\ "paddr" \notin DOMAIN b
  OBVIOUS
<1> QED BY <1>1, <1>2, <1>3 DEF Reply
-----------------------------------------------------------------------------
(* The steps. *)

LEMMA InitInv == Init => IInv
<1> SUFFICES ASSUME Init PROVE IInv
  OBVIOUS
<1>1. /\ sink = NoSink /\ ddc = [ref |-> 0, open |-> FALSE] /\ edid = NoSink /\ hd = Unset
      /\ leaks = 0 /\ said = Silent
      /\ cec = [fd |-> FALSE, thread |-> "none", flag |-> FALSE, paddr |-> 0, laddr |-> 0,
                outlived |-> FALSE]
  BY DEF Init, EdidInit, CecInit
<1>2. HdTyped
  BY <1>1 DEF HdTyped, Unset, Modes3D
<1>3. CecTyped(cec)
  BY <1>1 DEF CecTyped
<1>4. ddc \in [ref : Nat, open : BOOLEAN] /\ ddc.ref = 0 /\ ddc.open = FALSE
  BY <1>1
<1>5. TypeOK
  BY <1>1, <1>2, <1>3, <1>4 DEF TypeOK, Edids
<1>6. LineCounted
  BY <1>1, <1>4 DEF LineCounted, halfway
<1>7. Chosen
  BY <1>1 DEF Chosen, ModeFits, ResolutionFits, Unset
<1> QED
  BY <1>1, <1>5, <1>6, <1>7 DEF IInv, ThreadKnowsSink, SpeakerLives, SpeaksForSink

LEMMA ConnectInv == ASSUME IInv, ConnectSink PROVE IInv'
<1>1. PICK a \in {NotFound} \cup {tv.paddr : tv \in Sinks} :
        /\ Connect(~cec.flag, a)
        /\ \/ UNCHANGED cecVars
           \/ \E y \in CecStart(cec, said, a, sink.others) : cec' = y[1] /\ said' = y[2]
  BY DEF ConnectSink
<1>2. /\ sink' = sink /\ sink # NoSink /\ ~hd.conn
      /\ ddc' \in [ref : Nat, open : BOOLEAN] /\ edid' \in Edids
      /\ ddc'.open <=> ddc'.ref > 0
      /\ edid' # NoSink => ddc'.open
      /\ ~halfway => /\ edid' \in {NoSink, sink}
                     /\ ddc'.ref = IF edid' # NoSink THEN 1 ELSE 0
      /\ leaks' \in Nat
      /\ halfway => halfway'
      /\ halfway' => ddc'.ref > 0
      /\ ~hd'.conn /\ ~halfway' => ddc'.ref = 0
      /\ ddc'.ref <= leaks' + (IF hd'.conn THEN 1 ELSE 0)
      /\ a # NotFound => edid' # NoSink /\ a = edid'.paddr
      /\ HdTyped' /\ Chosen'
  BY <1>1, ConnectValue
<1>3. CecTyped(cec) /\ sink \in Edids
  BY DEF IInv, TypeOK
\* A thread that is alive while nothing is connected outlived a disconnect.
<1>4. cec.thread # "none" /\ ~halfway => cec.outlived
  BY <1>2 DEF IInv, ThreadKnowsSink
<1>5. /\ CecTyped(cec')
      /\ cec.thread # "none" => cec'.thread = cec.thread /\ cec'.outlived = cec.outlived
      /\ cec.thread = "none" /\ cec'.thread # "none" =>
           a # NotFound /\ cec'.paddr = a /\ cec'.laddr = Allocated(a, sink.others)
      /\ \/ said' = said
         \/ /\ cec'.thread # "none" /\ said' = PowerRequest(cec')
            /\ cec'.laddr = Allocated(a, sink.others)
  <2>1. CASE UNCHANGED cecVars
    BY <1>3, <2>1 DEF cecVars
  <2>2. CASE \E y \in CecStart(cec, said, a, sink.others) : cec' = y[1] /\ said' = y[2]
    <3>1. PICK y \in CecStart(cec, said, a, sink.others) : cec' = y[1] /\ said' = y[2]
      BY <2>2
    <3>2. /\ CecTyped(y[1])
          /\ cec.thread # "none" => y[1].thread = cec.thread /\ y[1].outlived = cec.outlived
          /\ cec.thread = "none" /\ y[1].thread # "none" =>
               a # -1 /\ y[1].paddr = a /\ y[1].laddr = Allocated(a, sink.others)
          /\ \/ y[2] = said
             \/ /\ y[1].thread # "none" /\ y[2] = PowerRequest(y[1])
                /\ y[1].laddr = Allocated(a, sink.others)
      BY <1>3, StartValue
    <3> QED BY <3>1, <3>2 DEF NotFound
  <2> QED BY <1>1, <2>1, <2>2
<1>6. Allocated(a, sink.others) \in AddressesFor(sink)
  BY AllocatedFree DEF AddressesFor
<1>7. TypeOK'
  BY <1>2, <1>3, <1>5 DEF TypeOK
<1>8. LineCounted'
  <2>1. ASSUME ~halfway' PROVE ddc'.ref = IF hd'.conn /\ edid' # NoSink THEN 1 ELSE 0
    BY <1>2, <2>1
  <2> QED BY <1>2, <2>1 DEF LineCounted
<1>9. ThreadKnowsSink'
  <2> SUFFICES ASSUME cec'.thread # "none", ~cec'.outlived, ~halfway'
               PROVE  /\ hd'.conn /\ edid' # NoSink
                      /\ cec'.paddr = edid'.paddr /\ cec'.laddr \in AddressesFor(edid')
    BY DEF ThreadKnowsSink, AddressesFor
  <2>1. ~halfway /\ cec.thread = "none"
    BY <1>2, <1>4, <1>5
  <2>2. a # NotFound /\ cec'.paddr = a /\ cec'.laddr = Allocated(a, sink.others)
    BY <1>5, <2>1
  <2>3. edid' = sink /\ edid' # NoSink /\ a = edid'.paddr /\ ddc'.ref = 1
    BY <1>2, <2>1, <2>2
  <2>4. hd'.conn
    BY <1>2, <2>3
  <2> QED BY <1>6, <2>2, <2>3, <2>4
<1>10. SpeakerLives'
  BY <1>5 DEF IInv, SpeakerLives
<1>11. SpeaksForSink'
  <2> SUFFICES ASSUME edid' = sink, ~cec'.outlived, ~halfway', said' # Silent
               PROVE  /\ "paddr" \in DOMAIN said' => said'.paddr = sink.paddr
                      /\ said'.src \in AddressesFor(sink)
    BY <1>2 DEF SpeaksForSink, AddressesFor
  <2>1. said' = PowerRequest(cec') /\ cec'.laddr = Allocated(a, sink.others)
    BY <1>2, <1>4, <1>5 DEF IInv, SpeakerLives
  <2>2. said' = [op |-> "GIVE_DEVICE_POWER_STATUS", src |-> cec'.laddr, dst |-> 0]
    BY <2>1 DEF PowerRequest
  <2>3. "paddr" \notin DOMAIN said' /\ said'.src = cec'.laddr
    BY <2>2
  <2> QED BY <1>6, <2>1, <2>3
<1> QED BY <1>2, <1>7, <1>8, <1>9, <1>10, <1>11 DEF IInv

LEMMA DisconnectInv == ASSUME IInv, DisconnectSink PROVE IInv'
<1>1. Disconnect /\ cec' = CecRelease(cec) /\ said' = Silent
  BY DEF DisconnectSink
<1>2. /\ sink' = sink /\ hd.conn
      /\ ddc' \in [ref : Nat, open : BOOLEAN] /\ edid' = NoSink
      /\ ddc'.open <=> ddc'.ref > 0
      /\ leaks' \in Nat /\ (halfway' <=> halfway /\ ddc'.ref > 0)
      /\ ddc'.ref <= leaks'
      /\ ~halfway => ddc'.ref = 0
      /\ HdTyped' /\ Chosen'
  BY <1>1, DisconnectValue
<1>3. sink \in Edids /\ CecTyped(cec)
  BY DEF IInv, TypeOK
<1>4. CecTyped(cec') /\ (cec'.thread = "none" \/ cec'.outlived)
  BY <1>1, <1>3, ReleaseValue
<1>5. TypeOK'
  BY <1>2, <1>3, <1>4 DEF TypeOK, Edids
<1>6. LineCounted'
  <2>1. ASSUME ~halfway' PROVE ddc'.ref = 0
    <3>1. ddc'.ref \in Nat
      BY <1>2
    <3> QED BY <1>2, <2>1, <3>1
  <2>2. ddc'.ref <= leaks' + (IF hd'.conn THEN 1 ELSE 0)
    <3>1. ddc'.ref \in Nat
      BY <1>2
    <3> QED BY <1>2, <3>1
  <2> QED BY <1>2, <2>1, <2>2 DEF LineCounted
<1> QED
  BY <1>1, <1>2, <1>4, <1>5, <1>6 DEF IInv, ThreadKnowsSink, SpeakerLives, SpeaksForSink

LEMMA RequestInv == ASSUME IInv, Request, UNCHANGED cecVars PROVE IInv'
<1>1. /\ UNCHANGED <<sink, leaks, ddc>> /\ hd'.conn = hd.conn
      /\ edid' \in Edids
      /\ edid # NoSink => edid' = edid
      /\ ddc.ref = 0 => edid' = NoSink
      /\ HdTyped' /\ Chosen'
  BY RequestValue
<1>2. cec' = cec /\ said' = said
  BY DEF cecVars
<1>3. TypeOK'
  BY <1>1, <1>2 DEF IInv, TypeOK
<1>4. LineCounted /\ ddc.ref \in Nat
  BY DEF IInv, TypeOK
<1>5. ~halfway => edid' = edid
  BY <1>1, <1>4 DEF LineCounted
<1>6. LineCounted'
  <2>1. edid' # NoSink => ddc.open
    BY <1>1, <1>4 DEF LineCounted
  <2> QED BY <1>1, <1>4, <1>5, <2>1 DEF LineCounted, halfway
<1>7. ThreadKnowsSink'
  BY <1>1, <1>2, <1>5 DEF IInv, ThreadKnowsSink, AddressesFor, halfway
<1> QED
  BY <1>1, <1>2, <1>3, <1>5, <1>6, <1>7 DEF IInv, SpeakerLives, SpeaksForSink, halfway

LEMMA ChangeInv == ASSUME IInv, ChangeSink PROVE IInv'
<1>1. UNCHANGED <<ddc, edid, hd, leaks, cec>> /\ said' = Silent /\ sink' \in Edids
  BY DEF ChangeSink, Plug, Unplug, Edids
<1> QED
  BY <1>1 DEF IInv, TypeOK, HdTyped, LineCounted, Chosen, ThreadKnowsSink, AddressesFor,
              SpeakerLives, SpeaksForSink, halfway

\* The thread answers with the addresses it has.
LEMMA ListenInv == ASSUME IInv, Listen PROVE IInv'
<1>1. UNCHANGED <<sink, ddc, edid, saved, hd, leaks>>
  BY DEF Listen, edidVars
<1>2. /\ cec.thread # "none"
      /\ cec' = [cec EXCEPT !.thread = "loop", !.flag = TRUE]
      /\ said' = said \/ \E f \in Frames : said' = Reply(cec, f)
  BY DEF Listen, Turn, Hear, Receives
<1>3. CecTyped(cec)
  BY DEF IInv, TypeOK
<1>4. cec' = [fd |-> cec.fd, thread |-> "loop", flag |-> TRUE, paddr |-> cec.paddr,
              laddr |-> cec.laddr, outlived |-> cec.outlived]
  BY <1>2, <1>3 DEF CecTyped
<1>5. cec'.thread = "loop" /\ cec'.paddr = cec.paddr /\ cec'.laddr = cec.laddr
      /\ cec'.outlived = cec.outlived
  BY <1>4
<1>6. CecTyped(cec')
  BY <1>3, <1>4, <1>5 DEF CecTyped
<1>7. TypeOK' /\ LineCounted' /\ Chosen'
  BY <1>1, <1>6 DEF IInv, TypeOK, HdTyped, LineCounted, Chosen, halfway
<1>8. ThreadKnowsSink'
  BY <1>1, <1>2, <1>5 DEF IInv, ThreadKnowsSink, AddressesFor, halfway
<1>9. SpeakerLives'
  BY <1>5 DEF SpeakerLives
<1>10. SpeaksForSink'
  <2>1. CASE said' = said
    BY <1>1, <1>5, <2>1 DEF IInv, SpeaksForSink, halfway
  <2>2. CASE \E f \in Frames : said' = Reply(cec, f)
    <3>1. PICK f \in Frames : said' = Reply(cec, f)
      BY <2>2
    <3>2. said'.src = cec.laddr /\ ("paddr" \in DOMAIN said' => said'.paddr = cec.paddr)
      BY <3>1, ReplyValue
    <3>3. ~cec.outlived /\ ~halfway => cec.paddr = edid.paddr /\ cec.laddr \in AddressesFor(edid)
      BY <1>2 DEF IInv, ThreadKnowsSink
    <3> QED BY <1>1, <1>5, <3>2, <3>3 DEF SpeaksForSink, AddressesFor, halfway
  <2> QED BY <1>2, <2>1, <2>2
<1> QED BY <1>7, <1>8, <1>9, <1>10 DEF IInv

LEMMA NextInv == IInv /\ [Next]_vars => IInv'
<1> SUFFICES ASSUME IInv, [Next]_vars PROVE IInv'
  OBVIOUS
<1>1. CASE UNCHANGED vars
  <2>1. UNCHANGED <<sink, ddc, edid, hd, leaks, cec, said>>
    BY <1>1 DEF vars
  <2> QED
    BY <2>1 DEF IInv, TypeOK, HdTyped, LineCounted, Chosen, ThreadKnowsSink, AddressesFor,
                SpeakerLives, SpeaksForSink, halfway
<1> QED
  BY <1>1, ConnectInv, DisconnectInv, RequestInv, ChangeInv, ListenInv DEF Next

LEMMA Invariance == Spec => []IInv
BY InitInv, NextInv, PTL DEF Spec
-----------------------------------------------------------------------------
(* The theorems. *)

\* Over every sequence of connects, disconnects and settings the DDC line is open
\* exactly while it is counted, and counted once for a connection with an EDID; a connect
\* that gives up behind DDCOpen may add one to the count, and nothing else does.
THEOREM LineBalances == Spec => []LineGoesWithConnection
<1>1. IInv => LineGoesWithConnection
  <2> SUFFICES ASSUME IInv PROVE LineGoesWithConnection
    OBVIOUS
  <2>1. ddc.ref \in Nat /\ leaks \in Nat
    BY DEF IInv, TypeOK
  <2>2. halfway => ddc.ref \in 1 .. leaks + (IF hd.conn THEN 1 ELSE 0)
    BY <2>1 DEF IInv, LineCounted
  <2> QED BY <2>2 DEF IInv, LineCounted, LineGoesWithConnection
<1> QED BY <1>1, Invariance, PTL

\* Neither connect nor setHdmiOutputMode leaves an HDMI television with a colour space
\* it does not accept.
THEOREM ModeAlwaysFits == Spec => []ModeFitsSink
<1>1. IInv => ModeFitsSink
  BY DEF IInv, Chosen, ModeFits, ModeFitsSink
<1> QED BY <1>1, Invariance, PTL

\* The searches of setHdmiResolution end with something the EDID declares, in 3D only
\* with a structure it declares, or with the last resort; for every default and every
\* resolution asked for.
THEOREM ResolutionAlwaysFits == Spec => []ResolutionFitsSink
<1>1. IInv => ResolutionFitsSink
  BY DEF IInv, Chosen, ResolutionFits, ResolutionFitsSink
<1> QED BY <1>1, Invariance, PTL

\* The CEC thread speaks with the addresses of the connection it was started for.
THEOREM ThreadSpeaksForSink == Spec => []SpeaksForSink
<1>1. IInv => SpeaksForSink
  BY DEF IInv
<1> QED BY <1>1, Invariance, PTL

\* A connect never works from the EDID of an earlier television, unless one before it
\* gave up half way.
THEOREM EdidIsFresh == Spec => FreshEdid
<1>1. IInv /\ [Next]_vars => [~hd.conn /\ hd'.conn /\ ~halfway => edid' \in {NoSink, sink}]_vars
  <2> SUFFICES ASSUME IInv, Next, ~hd.conn, hd'.conn, ~halfway
               PROVE  edid' \in {NoSink, sink}
    OBVIOUS
  <2>1. CASE ConnectSink
    <3>1. PICK a \in {NotFound} \cup {tv.paddr : tv \in Sinks} : Connect(~cec.flag, a)
      BY <2>1 DEF ConnectSink
    <3> QED BY <3>1, ConnectValue
  <2>2. CASE DisconnectSink
    BY <2>2 DEF DisconnectSink, Disconnect
  <2>3. CASE Request
    BY <2>3, RequestValue
  <2>4. CASE ChangeSink \/ Listen
    BY <2>4 DEF ChangeSink, Plug, Unplug, Listen, edidVars
  <2> QED BY <2>1, <2>2, <2>3, <2>4 DEF Next
<1> QED BY <1>1, Invariance, PTL DEF Spec, FreshEdid
=============================================================================
