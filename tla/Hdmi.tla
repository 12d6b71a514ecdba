-------------------------------- MODULE Hdmi --------------------------------
(* ExynosHdmi (libhdmi/ExynosHdmi/ExynosHdmi.cpp) after create(): connection,  *)
(* path, resolution and output mode, the scaler handle of the current path,    *)
(* the two mixer layers, and the memo that says when a flush must reset them.  *)
(* A method is one action here: all but flush hold mLock_UI and mLock_VIDEO,   *)
(* which keep every flush out (TVOut!MethodsExcludeFlushes).  A flush holds the *)
(* lock of its own layer only; that the flushes of the two layers overlap, and *)
(* share mDstRect, is not modelled.  What a method does is a chain of steps of *)
(* which any may fail and end it, with what was done so far left in place.     *)
(*                                                                             *)
(* Abstracted: of a resolution all but the size and the preset; 3D modes; what *)
(* rotation does to the layer rectangle; the FIMG blitter and the rotator      *)
(* (both compiled out or optional).                                            *)
EXTENDS Naturals

CONSTANTS Srcs,       \* frames: width w, height h and format
          Spots,      \* where a caller asks for an unscaled frame: dstX, dstY
          Res,        \* resolutions; each is its own preset
          SizeOf,     \* [Res -> sizes]: interlaced and progressive share theirs
          DefaultRes, \* DEFAULT_HDMI_RESOLUTION_VALUE
          Supported,  \* the resolutions of the television's EDID
          Fallback,   \* 480P: used when the EDID offers nothing
          HdmiFaults, \* the calls that may fail in this instance
          Stale       \* TRUE: a frame may be flushed after the path it was
                      \* accepted for has changed

ASSUME HdmiAssumption ==
  /\ \A s \in Srcs : s.w \in Nat \ {0} /\ s.h \in Nat \ {0}
  /\ {DefaultRes, Fallback} \subseteq Res /\ Supported \subseteq Res
  /\ "none" \notin Res
  /\ DOMAIN SizeOf = Res
  /\ HdmiFaults \subseteq {"stop", "create", "config", "run", "mixer", "tvout", "hpd"}
  /\ Stale \in BOOLEAN

Graphics == {"graphic0", "graphic1"}
Layers   == Graphics \cup {"video"}
Paths    == {"overlay", "writeback"}
OutModes == {"ycbcr", "dvi"}
None     == "none"

VARIABLE h     \* the object, and the devices behind it

Origin == [x |-> 0, y |-> 0]
NoSize == [w |-> 0, h |-> 0]
NoSrc  == [w |-> 0, h |-> 0, format |-> None]
Blank  == [src |-> NoSrc, size |-> NoSize]        \* a cleared memo

\* What a mixer layer is set up for: the frame, the screen, and where on it.
NoSetup == [src |-> NoSrc, size |-> NoSize, rect |-> [size |-> NoSize, at |-> Origin]]

\* A scaler handle: configured since it was made, and streaming.
NoHandle  == [at |-> "null", cfg |-> FALSE, on |-> FALSE]
NewHandle == [at |-> "live", cfg |-> FALSE, on |-> FALSE]

HdmiInit ==
  h = [connected |-> FALSE, path |-> "writeback", curPath |-> None,
       pathChange |-> FALSE, infoChange |-> TRUE,
       mode |-> "ycbcr", curMode |-> None,
       res |-> DefaultRes, curRes |-> None,
       preset |-> DefaultRes, curPreset |-> None, tv |-> None,
       dst |-> SizeOf[DefaultRes],
       out |-> NoHandle, cap |-> NoHandle,
       mxr |-> [g \in Graphics |-> [setup |-> NoSetup, on |-> FALSE]],
       memo |-> [l \in Layers |-> Blank], prev |-> [l \in Layers |-> NoSize]]

-----------------------------------------------------------------------------
(* Chains of fallible steps: a step maps a state to its outcomes.              *)

Ok(k)   == {[ok |-> TRUE, h |-> k]}
Fail(k) == {[ok |-> FALSE, h |-> k]}
May(fault, k) == IF fault \in HdmiFaults THEN Fail(k) ELSE {}
Chain(outcomes, Step(_)) ==
  UNION {IF o.ok THEN Step(o.h) ELSE {o} : o \in outcomes}
Do(outcomes) == \E o \in outcomes : h' = o.h

(* Scaler handles; k[s] is k.out or k.cap.  `on' is the flag of the library,   *)
(* lowered before the driver is asked.  Calls on a freed handle may return     *)
(* anything; what else they destroy is not modelled.                           *)

Either(k) == Ok(k) \cup Fail(k)

StopExclusive(s, k) ==
  CASE k[s].at = "null"  -> Ok(k)
    [] k[s].at = "freed" -> Either(k)
    [] OTHER -> Ok([k EXCEPT ![s] = NewHandle]) \cup May("stop", [k EXCEPT ![s].on = FALSE])

JustStopScaler(s, k) ==
  CASE k[s].at = "null"  -> Ok(k)
    [] k[s].at = "freed" -> Either(k)
    [] OTHER -> LET off == [k EXCEPT ![s].on = FALSE] IN Ok(off) \cup May("stop", off)

\* exynos_gsc_destroy leaves the pointer where it was.
Free(s, k) ==
  Ok(IF k[s].at = "null" THEN k ELSE [k EXCEPT ![s] = [NewHandle EXCEPT !.at = "freed"]])
StopAndFree(s, k) == Chain(StopExclusive(s, k), LAMBDA j : Free(s, j))

Make(s, k) == Ok([k EXCEPT ![s] = NewHandle]) \cup May("create", [k EXCEPT ![s] = NoHandle])

\* The scaler refuses to be configured while it streams.
Configure(s, k) ==
  CASE k[s].at = "null" \/ k[s].on -> Fail(k)
    [] k[s].at = "freed" -> Either(k)
    [] OTHER -> Ok([k EXCEPT ![s].cfg = TRUE]) \cup May("config", k)

\* Unconfigured, the driver has no buffers to queue.
RunScaler(s, k) ==
  CASE k[s].at = "null"  -> Fail(k)
    [] k[s].at = "freed" -> Either(k)
    [] ~k[s].cfg -> Fail(k)
    [] OTHER -> Ok([k EXCEPT ![s].on = TRUE]) \cup May("run", k)

-----------------------------------------------------------------------------
(* Layers. *)

StopLayer(l, k) ==
  IF l = "video" THEN JustStopScaler("out", k)
  ELSE LET off == [k EXCEPT !.mxr[l].on = FALSE] IN Ok(off) \cup May("mixer", off)

\* Mutant: the loop ends one layer early.
StopLayersShort(layers, k) ==
  Chain(IF "video" \in layers THEN StopLayer("video", k) ELSE Ok(k),
        LAMBDA i : StopLayer("graphic0", i))

StopLayers(layers, k) ==
  Chain(IF "video" \in layers THEN StopLayer("video", k) ELSE Ok(k), LAMBDA i :
  Chain(StopLayer("graphic0", i), LAMBDA j : StopLayer("graphic1", j)))

\* Mutant: the memo of a cleared layer stays.
ForgetNothing(l, k) == k

Forget(l, k) == [k EXCEPT !.memo[l] = Blank]
ClearBuffer(l, k) ==
  Chain(IF l = "video" THEN StopExclusive("out", k)
        ELSE Ok([k EXCEPT !.mxr[l] = [setup |-> NoSetup, on |-> FALSE]])
             \cup May("mixer", [k EXCEPT !.mxr[l].on = FALSE]),
        LAMBDA j : Ok(Forget(l, j)))

ScalerOf(path) == IF path = "overlay" THEN "out" ELSE "cap"

\* Mutant: the change is marked as done before it is.
ChangePathMarksFirst(k) ==
  LET old == ScalerOf(k.curPath)
      new == ScalerOf(k.path)
  IN IF k.curPath = k.path THEN Ok(k)
     ELSE Chain(StopAndFree(old, [k EXCEPT !.pathChange = FALSE]), LAMBDA i :
          Chain(Make(new, [i EXCEPT ![old] = NoHandle]), LAMBDA j :
                Ok([j EXCEPT !.curPath = k.path])))

\* m_changeHdmiPath: the scaler of the old path goes, the one of the new path
\* comes, and the mixers learn whether to blend.
ChangePath(k) ==
  LET old == ScalerOf(k.curPath)
      new == ScalerOf(k.path)
  IN IF k.curPath = k.path THEN Ok(k)
     ELSE Chain(StopAndFree(old, k), LAMBDA i :
          Chain(Make(new, [i EXCEPT ![old] = NoHandle]), LAMBDA j :
          LET moved == [j EXCEPT !.curPath = k.path]
          IN Ok(moved) \cup May("mixer", moved)))

\* m_setHdmiResolution: the preset and the size follow the resolution at once.
SetResolution(r, k) ==
  IF k.curRes = r THEN k
  ELSE [k EXCEPT !.curRes = r, !.preset = r, !.dst = SizeOf[r]]

\* Mutant: the preset counts as set before the television took it.
TvInitMarksFirst(k) ==
  IF k.curPreset = k.preset THEN Ok(k)
  ELSE Chain(StopLayers(Layers, [k EXCEPT !.curPreset = k.preset]), LAMBDA j :
       Ok([j EXCEPT !.tv = j.preset]) \cup May("tvout", j))

\* The television is set up again when the preset changed, with all layers off.
TvInit(k) ==
  IF k.curPreset = k.preset THEN Ok(k)
  ELSE Chain(StopLayers(Layers, k), LAMBDA j :
       Ok([j EXCEPT !.tv = j.preset, !.curPreset = j.preset]) \cup May("tvout", j))

ApplyInfo(k) ==
  IF ~k.infoChange /\ ~k.pathChange THEN Ok(k)
  ELSE TvInit(SetResolution(k.res, [k EXCEPT !.curMode = k.mode]))

-----------------------------------------------------------------------------
(* m_reset and flush of a frame f = [layer, mode, src, full, spot].            *)

\* hdmi_cal_rect: as large as the screen takes it, and in the middle.
CalRect(s, screen) ==
  IF screen.w * s.h <= screen.h * s.w
  THEN LET height == (screen.w * s.h) \div s.w
       IN [size |-> [w |-> screen.w, h |-> height],
           at |-> [x |-> 0, y |-> (screen.h - height) \div 2]]
  ELSE LET width == (screen.h * s.w) \div s.h
       IN [size |-> [w |-> width, h |-> screen.h],
           at |-> [x |-> (screen.w - width) \div 2, y |-> 0]]

OwnSize(s) == [w |-> s.w, h |-> s.h]
Scaled(f)  == f.mode = "mirror" \/ f.full

\* mDstRect: a frame that is not scaled is put where the caller wants it.
Rect(f, k) ==
  CASE f.layer = "video" -> [CalRect(f.src, k.dst) EXCEPT !.size = k.dst]
    [] f.layer # "video" /\ Scaled(f) -> CalRect(f.src, k.dst)
    [] OTHER -> [size |-> OwnSize(f.src), at |-> f.spot]

\* The size on the screen is compared with that of the last frame, the place is not.
NeedsReset(f, k) ==
  \/ k.memo[f.layer] # [src |-> f.src, size |-> k.dst]
  \/ k.prev[f.layer] # Rect(f, k).size
  \/ k.infoChange \/ k.pathChange

\* On a path change the scaler is new, or never was changed: its buffers stay.
ResetVideo(f, k) ==
  Chain(IF k.pathChange THEN Ok(k) ELSE ClearBuffer("video", k), LAMBDA i :
  Chain(Configure("out", i), LAMBDA j :
        Ok([j EXCEPT !.prev["video"] = k.dst])))

\* A mirror of the LCD also sets up the capturing scaler, and makes the next
\* video frame reset its layer.
ResetCapture(f, k) ==
  IF f.mode # "mirror" THEN Ok(k)
  ELSE Chain(IF k.path = "writeback"
             THEN Chain(StopExclusive("cap", k), LAMBDA i : Configure("cap", i))
             ELSE Ok(k),
             LAMBDA j : Ok([j EXCEPT !.prev["video"] = NoSize]))

SetUp(l, setup, k) == [k EXCEPT !.mxr[l].setup = setup, !.prev[l] = setup.rect.size]

\* The rectangle is that of the frame as it was when the flush began.
ResetGraphic(f, rect, k) ==
  Chain(ResetCapture(f, k), LAMBDA i :
  Chain(ClearBuffer(f.layer, i), LAMBDA j :
        Ok(SetUp(f.layer, [src |-> f.src, size |-> k.dst, rect |-> rect], j))
        \cup May("mixer", j)))

Remember(f, k) ==
  [k EXCEPT !.memo[f.layer] = [src |-> f.src, size |-> k.dst],
            !.pathChange = FALSE, !.infoChange = FALSE]

Reset(f, rect, k) ==
  Chain(IF k.pathChange THEN ChangePath(k) ELSE Ok(k), LAMBDA i :
  Chain(ApplyInfo([i EXCEPT !.infoChange = @ \/ k.pathChange]), LAMBDA j :
  Chain(IF f.layer = "video" THEN ResetVideo(f, j) ELSE ResetGraphic(f, rect, j),
        LAMBDA n : Ok(Remember(f, n)))))

RunLayer(f, k) ==
  IF f.layer = "video"
  THEN IF k.path = "overlay" THEN RunScaler("out", k) ELSE Ok(k)
  ELSE (IF k.mxr[f.layer].setup = NoSetup THEN Fail(k)
        ELSE Ok([k EXCEPT !.mxr[f.layer].on = TRUE]) \cup May("mixer", k))

\* blit2Hdmi takes mirrors for the writeback path only, and nothing else for it.
Comes(f) == Stale \/ (f.mode = "mirror" <=> h.path = "writeback")

Flush(f) ==
  /\ h.connected /\ Comes(f)
  /\ Do(Chain(IF NeedsReset(f, h) THEN Reset(f, Rect(f, h), h) ELSE Ok(h), LAMBDA i :
        Chain(IF f.layer # "video" /\ h.path = "writeback" THEN RunScaler("cap", i) ELSE Ok(i),
              LAMBDA j : RunLayer(f, j))))

-----------------------------------------------------------------------------
(* The other methods. *)

\* The EDID replaces a resolution the television lacks by one it has, or 480P.
Calibrated(r) ==
  CASE r \in Supported -> {r}
    [] r \notin Supported /\ Supported # {} -> Supported
    [] OTHER -> {Fallback}

TakeResolution(r, k) ==
  LET set == SetResolution(r, k)
  IN [set EXCEPT !.res = r, !.infoChange = @ \/ k.res # r]

\* connect: mode and resolution are set anew, whatever they were.
Connect ==
  /\ ~h.connected
  /\ \/ \E r \in Calibrated(h.res) :
          h' = [TakeResolution(r, h) EXCEPT !.connected = TRUE,
                                            !.infoChange = TRUE, !.pathChange = TRUE]
     \/ "hpd" \in HdmiFaults /\ UNCHANGED h     \* no hot-plug level

\* disconnect gives up at the first failure, pointers and flags as they are.
Disconnected(k) ==
  [k EXCEPT !.out = NoHandle, !.cap = NoHandle, !.connected = FALSE,
            !.mode = "ycbcr", !.res = DefaultRes, !.preset = DefaultRes,
            !.curMode = None, !.curRes = None, !.curPath = None]

Disconnect ==
  /\ h.connected
  /\ Do(Chain(StopAndFree("out", h), LAMBDA i :
        Chain(StopAndFree("cap", i), LAMBDA j :
        Chain(StopLayers(Graphics, j), LAMBDA n : Ok(Disconnected(n))))))

SetHdmiPath(path) ==
  /\ h.path # path /\ h' = [h EXCEPT !.path = path, !.pathChange = TRUE]

SetHdmiOutputMode(mode) ==
  /\ h.connected /\ h.mode # mode
  /\ h' = [h EXCEPT !.mode = mode, !.infoChange = TRUE]

SetHdmiResolution(r) ==
  /\ h.connected /\ h.res # r
  /\ \E c \in Calibrated(r) : h' = TakeResolution(c, h)

\* setHdmiDrmMode, setHdcpMode, setUIRotation: a new value asks for a reset.
SetInfo == h' = [h EXCEPT !.infoChange = TRUE]

\* clear: in writeback, the capture stops as well.
Clear(l) ==
  Do(Chain(IF h.path = "writeback" THEN JustStopScaler("cap", h) ELSE Ok(h),
           LAMBDA j : StopLayer(l, j)))

SetHdmiLayerDisable(l) == h.connected /\ Do(StopLayer(l, h))

\* What blit2Hdmi sends: video on its layer, mirrors on the first graphic layer.
Frames ==
  [layer : {"video"}, mode : {"video"}, src : Srcs, full : {FALSE}, spot : {Origin}]
  \cup [layer : {"graphic0"}, mode : {"mirror"}, src : Srcs, full : {FALSE}, spot : {Origin}]
  \cup [layer : Graphics, mode : {"ui"}, src : Srcs, full : {TRUE}, spot : {Origin}]
  \cup [layer : Graphics, mode : {"ui"}, src : Srcs, full : {FALSE}, spot : Spots]

HdmiNext ==
  \/ Connect \/ Disconnect \/ SetInfo
  \/ \E p \in Paths : SetHdmiPath(p)
  \/ \E m \in OutModes : SetHdmiOutputMode(m)
  \/ \E r \in Res : SetHdmiResolution(r)
  \/ \E l \in Layers : Clear(l) \/ SetHdmiLayerDisable(l)
  \/ \E f \in Frames : Flush(f)

HdmiSpec == HdmiInit /\ [][HdmiNext]_h

-----------------------------------------------------------------------------
\* A path that differs from the current one is still to be changed to: no
\* failure of a reset makes a flush forget it.
PathChangeIsPending == h.connected /\ ~h.pathChange => h.curPath = h.path

\* With no change pending, the television shows the mode and the resolution
\* last asked for, reconnections and failed resets notwithstanding.
TvShowsRequest ==
  h.connected /\ ~h.infoChange => h.curMode = h.mode /\ h.tv = h.res

\* A disconnected object holds no scaler and streams on no layer.
DisconnectedIsQuiet ==
  ~h.connected => /\ h.out.at = "null" /\ h.cap.at = "null"
                  /\ \A g \in Graphics : ~h.mxr[g].on

\* A graphic frame that no reset precedes finds its mixer set up for a frame like
\* it, for this screen and for its size on it.  The place m_Doflush does not compare:
\* that one is right for a scaled frame, but where an unscaled one would have the
\* same size on the screen; an unscaled frame that moved is drawn where it was.
UnresetFrameFits ==
  \A f \in Frames : f.layer \in Graphics /\ ~NeedsReset(f, h) =>
    LET set == h.mxr[f.layer].setup
    IN /\ set.src = f.src /\ set.size = h.dst /\ set.rect.size = Rect(f, h).size
       /\ Scaled(f) /\ set.rect.size # OwnSize(f.src) => set.rect = Rect(f, h)

\* include/exynos_gscaler.h says of exynos_gsc_run_exclusive: "It should be called
\* after configuring the GSC."  A flush that needs no reset goes straight to the run.
Runs(f) == IF f.layer = "video" THEN "out" ELSE "cap"
RunAfterConfig ==
  \A f \in Frames :
    h.connected /\ Comes(f) /\ ~NeedsReset(f, h) /\ Runs(f) = ScalerOf(h.path)
      => (h[Runs(f)].at = "live" => h[Runs(f)].cfg)
=============================================================================
