-------------------------------- MODULE Hwc ---------------------------------
(* The hardware composer (libhwc/ExynosHWC.cpp) from hwc_device_open on: each  *)
(* frame the caller passes a list of layers to hwc_prepare, which gives video  *)
(* layers to overlay windows, and then to hwc_set, which runs the scaler for   *)
(* them. One caller's thread makes all calls, so each is one action.           *)
(*                                                                             *)
(* Built as shipped: TURN_OFF_UI_WINDOW, SKIP_DUMMY_UI_LAY_DRAWING,            *)
(* GL_WA_OVLY_ALL and GSC_M2M_WA on; RGB overlays, the HDMI client and the GL  *)
(* callbacks off. Left out: the position, blending and back buffer of a        *)
(* window. The scaler is the contract of a handle that GscOut establishes, with *)
(* the geometry that GscGeom says it accepts.                                  *)
EXTENDS Sequences, FiniteSets, Functions, GscGeom

CONSTANTS Screen,      \* lcd_info: [w, h]
          Lists,       \* the lists the caller composes, as sequences of shapes
          Handles,     \* buffers
          DefaultMode, \* GSC_DEFAULT_MODE, set by the board
          Thres,       \* THRES_FOR_SWAP
          DelayFrames, \* NUM_OVLY_DELAY_FRAMES
          HwcFaults    \* the calls that may fail in this instance

Wins == 0 .. 1          \* NUM_OF_WIN
UiWin == 2              \* UI_WINDOW
DummyWins == 2          \* NUM_OF_DUMMY_WIN
NoBuf == 0

\* What of a layer is geometry: its place on the screen and its crop of the
\* buffer. "yuv" is a video format, "none" has no buffer; `plain` when the format,
\* the usage and the blending let the scaler draw it; `cam` when the camera fills
\* it; the buffer is w wide and h high, rounded up to whole blocks.
Rect == [x : Int, y : Int, w : Nat \ {0}, h : Nat \ {0}]
Shape == [kind : {"yuv", "rgb", "none"}, plain : BOOLEAN, cam : BOOLEAN,
          transform : 0 .. 7, frame : Rect, crop : Rect, w : Nat, h : Nat]

RoundUp(n, to) == ((n + to - 1) \div to) * to

ASSUME HwcAssumption ==
  /\ Screen \in [w : Nat \ {0}, h : Nat \ {0}]
  /\ Lists \subseteq Seq(Shape) /\ <<>> \notin Lists /\ NoBuf \notin Handles
  /\ DefaultMode \in {"m2m", "output"} /\ Thres \in Nat \ {0}
  /\ DelayFrames \in Nat
  /\ HwcFaults \subseteq {"create", "config", "run", "stop", "blank", "egl"}

VARIABLES list,     \* the caller's list; each layer has a shape, h and type
          win,      \* ctx->win and layer_prev_buf
          lit,      \* power_state of the windows
          virt,     \* ctx->win_virt: the UI layers of the last drawn frame
          ctx,      \* the other fields of hwc_context_t
          gsc,      \* ctx->gsc_handle and what the driver does for it
          phase,    \* the call that comes next
          uiDrawn,  \* ghost: the buffers the shown UI frame was made of
          settled   \* the lists, and what fails, change no more

hwcVars == <<list, win, lit, virt, ctx, gsc, phase, uiDrawn, settled>>

NoList == <<>>
NoPlace == [x |-> 0, y |-> 0, w |-> 0, h |-> 0]
Unset == [place |-> NoPlace, crop |-> NoPlace]
Failed == [b \in {NoBuf} |-> NoBuf]  \* the UI frame was not swapped

\* The shapes of this instance: geometry is a function of them.
Shapes == UNION {Range(l) : l \in Lists}

\* calculate_rect: what of the layer lies on the screen.
Clipped(from, size, end) ==
  CASE from < 0 /\ size + from > end  -> end
    [] from < 0 /\ size + from <= end -> size + from
    [] OTHER -> IF size + from > end THEN end - from ELSE size
Place == [shape \in Shapes |->
  LET f == shape.frame
  IN [x |-> IF f.x < 0 THEN 0 ELSE f.x, y |-> IF f.y < 0 THEN 0 ELSE f.y,
      w |-> Clipped(f.x, f.w, Screen.w), h |-> Clipped(f.y, f.h, Screen.h)]]
Handle(mode) == [at |-> "live", mode |-> mode, cfg |-> Unset, on |-> "off"]

Can(fault) == fault \in HwcFaults /\ ~settled
Windows == Wins \cup {UiWin}
\* The windows whose blanking works during one call of the library: at most
\* one of those called for fails.
Lightable == {i \in Wins : win[i].mode = "m2m" /\ (win[i].reserved \/ lit[i])}
Working == {Windows} \cup
  IF Can("blank")
  THEN {Windows \ {w} : w \in {UiWin} \cup Lightable}
  ELSE {}

\* hwc_device_open that succeeded. In output mode the full rectangles are reset.
HwcInit ==
  /\ list = NoList /\ phase = "prepare" /\ settled = FALSE
  /\ win = [i \in Wins |-> [place |-> IF DefaultMode = "output" THEN NoPlace
                                       ELSE [NoPlace EXCEPT !.w = Screen.w, !.h = Screen.h],
              crop |-> NoPlace, mode |-> DefaultMode,
              needCfg |-> FALSE, started |-> FALSE, reserved |-> FALSE, layer |-> 0,
              prev |-> NoBuf]]
  /\ lit = [w \in Windows |-> w = UiWin]
  /\ virt = [v \in 1 .. DummyWins |-> [prev |-> NoBuf, layer |-> 0]]
  /\ ctx = [mode |-> DefaultMode, numHwc |-> 0, numFb |-> 0, numSkip |-> 0,
            inited |-> FALSE, count |-> 0, rectChanged |-> FALSE, needTry |-> FALSE,
            delay |-> 0]
  /\ gsc = Handle(DefaultMode)
  /\ uiDrawn = <<>>

-----------------------------------------------------------------------------
(* hwc_prepare                                                                *)

Buffers(l) ==
  LET full == {i \in DOMAIN l : l[i].kind # "none"}
  IN {[i \in DOMAIN l |-> IF i \in full THEN b[i] ELSE NoBuf] : b \in [full -> Handles]}
\* A new geometry: the caller makes the list anew.
NewLists == UNION {{[i \in DOMAIN l |-> [shape |-> l[i], h |-> b[i], type |-> "fb"]] :
                   b \in Buffers(l)} : l \in Lists}
\* The same geometry: only the buffers may be others.
Refilled == {[i \in DOMAIN list |-> [list[i] EXCEPT !.h = b[i]]] :
               b \in Buffers([i \in DOMAIN list |-> list[i].shape])}

Having(l, kind) == {i \in DOMAIN l : l[i].shape.kind = kind}
First(S) == CHOOSE i \in S : \A j \in S : i <= j
\* The k-th of the numbers S.
Nth(S, k) == CHOOSE i \in S : Cardinality({j \in S : j <= i}) = k
Least(a, b) == IF a < b THEN a ELSE b

\* The layers whose buffers the UI frame is compared with.
Virtual == 1 .. (ctx.numFb + ctx.numSkip)
Same(l) == {v \in Virtual : virt[v].prev = l[virt[v].layer].h}
Typed(l, which, type) ==
  [i \in DOMAIN l |-> IF i \in which THEN [l[i] EXCEPT !.type = type] ELSE l[i]]
Shown(l) == {virt[v].layer : v \in Virtual}

\* The UI layers, at most NUM_OF_DUMMY_WIN of them, are written down.
Collect(l) ==
  LET rgb == Having(l, "rgb")
      many == Least(Cardinality(rgb), DummyWins)
      seen == [v \in 1 .. many |-> Nth(rgb, v)]
      past == IF Cardinality(rgb) < DummyWins THEN Len(l) ELSE seen[DummyWins]
  IN /\ virt' = [v \in DOMAIN virt |->
                   IF v \in DOMAIN seen THEN [prev |-> l[seen[v]].h, layer |-> seen[v]]
                                        ELSE virt[v]]
     /\ ctx' = [ctx EXCEPT !.numSkip = 0, !.inited = many = Cardinality(Virtual)]
     /\ list' = Typed(l, Range(seen) \cup {i \in Having(l, "none") : i <= past}, "fb")

\* A mutant: the buffers of the new frame are not written down.
RedrawStale(l) ==
  /\ ctx' = [ctx EXCEPT !.numFb = Cardinality(Virtual), !.numSkip = 0, !.count = 0]
  /\ list' = Typed(l, Shown(l), "fb")
  /\ UNCHANGED virt
Redraw(l) ==
  /\ ctx' = [ctx EXCEPT !.numFb = Cardinality(Virtual), !.numSkip = 0, !.count = 0]
  /\ virt' = [v \in DOMAIN virt |->
                IF v \in Virtual THEN [virt[v] EXCEPT !.prev = l[virt[v].layer].h] ELSE virt[v]]
  /\ list' = Typed(l, Shown(l), "fb")

\* No UI layer has a new buffer: they are declared overlays, so that nobody
\* draws them, and the frame on the UI window stays.
Skip(l) ==
  /\ ctx' = [ctx EXCEPT !.numFb = 0, !.numSkip = Cardinality(Virtual), !.count = @ + 1]
  /\ list' = Typed(l, Shown(l), "overlay")
  /\ UNCHANGED virt

Unchanged(l) == Same(l) = Virtual /\ ctx.count < Thres

\* get_hwc_ui_lay_skipdraw_decision
SkipDecision(l) ==
  \/ /\ Cardinality(Virtual) > DummyWins
     /\ list' = l /\ UNCHANGED <<ctx, virt>>
  \/ /\ Virtual = {}
     /\ ctx' = [ctx EXCEPT !.count = IF @ + 1 >= Thres THEN 0 ELSE @ + 1]
     /\ list' = l /\ UNCHANGED virt
  \/ /\ Cardinality(Virtual) \in 1 .. DummyWins
     /\ IF ~ctx.inited THEN Collect(l) ELSE IF Unchanged(l) THEN Skip(l) ELSE Redraw(l)

\* Mutant: the row of one screen is another's.
DownScaleWide == IF <<Screen.w, Screen.h>> = <<1280, 800>> THEN 4 ELSE 1

\* get_gsc_out_down_scale_ratio, of which at most 4 is used: a table of its own.
DownScale ==
  CASE <<Screen.w, Screen.h>> \in {<<720, 480>>, <<640, 480>>, <<1024, 600>>, <<1280, 720>>} -> 4
    [] <<Screen.w, Screen.h>> = <<1280, 800>> -> 3
    [] <<Screen.w, Screen.h>> \in {<<1920, 1080>>, <<800, 1280>>} -> 2
    [] OTHER -> 1

\* Output mode neither turns a quarter nor shrinks much.
NeedsMemory(shape) ==
  Bit(shape.transform, Rot90) \/ ~Within(shape.frame, shape.crop, DownScale)

\* gsc_mode_change_check: with GSC_M2M_WA the first video layer decides.
WantedMode(l) ==
  LET yuv == Having(l, "yuv")
  IN IF yuv = {} THEN ctx.mode
     ELSE IF NeedsMemory(l[First(yuv)].shape) THEN "m2m" ELSE DefaultMode

\* The handle, and whether the windows learn of the mode.
Switched(l) ==
  IF WantedMode(l) = ctx.mode THEN {[gsc |-> gsc, win |-> win]}
  ELSE {[gsc |-> Handle(WantedMode(l)),
         win |-> [i \in Wins |-> [win[i] EXCEPT !.mode = WantedMode(l), !.place = NoPlace]]]}
       \cup IF Can("create")
            THEN {[gsc |-> [Handle(WantedMode(l)) EXCEPT !.at = "null"], win |-> win]} ELSE {}

\* gsc_check_src_align: the more a side shrinks, the rounder it has to be.
Aligned(ratio, n) ==
  CASE ratio <= 4 -> n % 2 = 0
    [] ratio \in 5 .. 8 -> n % 4 = 0
    [] ratio \in 9 .. 16 -> n % 8 = 0
    [] OTHER -> FALSE

\* The layer's sides as the crop has them: a quarter turn changes them over. The
\* limits of size and alignment know a turn without a flip only, and the limit of
\* growth takes every transform for one (HAL_TRANSFORM_ROT_270 has all three bits).
Sideways(f) == [f EXCEPT !.w = f.h, !.h = f.w]
Fits == [shape \in Shapes |->
  LET f == shape.frame
      c == shape.crop
      pure == shape.transform \in {4, 7}
      drawn == IF shape.transform # 0 THEN Sideways(f) ELSE f
      sized == IF pure THEN Sideways(f) ELSE f
  IN /\ shape.kind = "yuv" /\ shape.plain
     /\ f.x >= 0 /\ f.x + f.w <= Screen.w /\ f.y >= 0 /\ f.y + f.h <= Screen.h
     /\ c.w >= 16 /\ c.h >= 8 /\ sized.w >= 16 /\ sized.h >= 8
     /\ Within(c, drawn, 8)
     /\ Aligned(c.w \div sized.w, c.w) /\ Aligned(c.h \div sized.h, c.h)]

\* A mutant: the handle is not looked at.
OverlayableUnmade(l, i, w, handle) ==
  /\ w \in Wins /\ Fits[l[i].shape]
  /\ w > 0 => Cardinality(Having(l, "yuv")) = 1
\* get_hwc_compos_decision for window w.
Overlayable(l, i, w, handle) ==
  /\ w \in Wins /\ handle.at = "live" /\ Fits[l[i].shape]
  /\ w > 0 => Cardinality(Having(l, "yuv")) = 1

\* assign_overlay_window, of a window record. In output mode a stream that runs,
\* or was stopped a few frames ago, is not given another rectangle.
Busy(w) == w.mode = "output" /\ (w.started \/ ctx.delay > 0)
Moved(w, layer) == Place[layer.shape] # w.place
Cropped(w, layer) == layer.shape.crop # w.crop
Resized(w, layer) ==
  LET p == Place[layer.shape] IN p.w # w.place.w \/ p.h # w.place.h
Stays(w, layer) == ~Moved(w, layer) /\ ~Cropped(w, layer)

\* A mutant: a new crop does not wait for the stream to end.
TryAgainMoved(w, power, layer) ==
  Moved(w, layer) /\ ((power /\ Resized(w, layer)) \/ Busy(w))
\* The layer is refused, and the overlay is tried again with the next frame.
TryAgain(w, power, layer) ==
  \/ Moved(w, layer) /\ power /\ Resized(w, layer)
  \/ ~Stays(w, layer) /\ Busy(w)
\* A camera's new rectangle waits until its buffer is the one already shown.
CameraWaits(w, layer, geometry) ==
  /\ Moved(w, layer) /\ layer.shape.cam
  /\ w.prev # layer.h /\ w.mode = "output" /\ geometry

Given(w, layer, i) ==
  [w EXCEPT !.place = Place[layer.shape], !.crop = layer.shape.crop,
            !.needCfg = @ \/ Moved(w, layer), !.reserved = TRUE, !.layer = i,
            !.prev = IF Moved(w, layer) /\ ~layer.shape.cam THEN NoBuf ELSE @]

\* One layer of the list; s is what prepare has done so far.
Assign(s, l, i, handle, geometry) ==
  LET w == s.n
      may == Overlayable(l, i, w, handle)
      wait == (s.needTry /\ Busy(s.win[w])) \/ CameraWaits(s.win[w], l[i], geometry)
  IN IF ~may \/ wait THEN [s EXCEPT !.fb = @ + 1]
     ELSE IF TryAgain(s.win[w], lit[w], l[i])
     THEN [s EXCEPT !.fb = @ + 1, !.needTry = TRUE]
     ELSE [s EXCEPT !.n = @ + 1, !.overlays = @ \cup {i},
                    !.needTry = @ /\ Stays(s.win[w], l[i]),
                    !.win[w] = Given(@, l[i], i)]

\* The layers in turn; change is the scaler and the windows once the mode is settled.
Assigned(l, change, geometry) ==
  LET start == [n |-> 0, fb |-> 0, overlays |-> {}, needTry |-> ctx.needTry,
                win |-> [i \in Wins |-> [change.win[i] EXCEPT !.reserved = FALSE]]]
      upTo[i \in 0 .. Len(l)] == IF i = 0 THEN start
                                 ELSE Assign(upTo[i - 1], l, i, change.gsc, geometry)
  IN upTo[Len(l)]

\* The whole list is looked at anew.
Decide(l, geometry) == \E change \in Switched(l) :
  LET done == Assigned(l, change, geometry)
  IN /\ gsc' = change.gsc
     /\ win' = done.win
     /\ list' = [i \in DOMAIN l |->
                   [l[i] EXCEPT !.type = IF i \in done.overlays THEN "overlay" ELSE "fb"]]
     /\ ctx' = [ctx EXCEPT !.mode = WantedMode(l), !.numHwc = done.n, !.numFb = done.fb,
                           !.numSkip = 0, !.inited = FALSE, !.count = 0,
                           !.rectChanged = geometry, !.needTry = done.needTry]

ClearVirtual == virt' = [v \in DOMAIN virt |-> [prev |-> NoBuf, layer |-> 0]]

\* hwc_prepare with a list, whose geometry changed or not.
Prepare ==
  /\ phase = "prepare" /\ phase' = "set"
  /\ \E geometry \in BOOLEAN :
       /\ IF geometry THEN ~settled ELSE list # NoList
       /\ \E l \in IF geometry THEN NewLists ELSE Refilled :
            \/ /\ ~geometry /\ ~ctx.needTry /\ ctx.numHwc > 0
               /\ SkipDecision(l)
               /\ UNCHANGED <<win, gsc>>
            \/ /\ ~geometry /\ ~ctx.needTry /\ ctx.numHwc = 0 /\ ~ctx.rectChanged
               /\ ClearVirtual
               /\ ctx' = [ctx EXCEPT !.inited = FALSE, !.numSkip = 0, !.count = 0]
               /\ list' = l
               /\ UNCHANGED <<win, gsc>>
            \/ /\ geometry \/ ctx.needTry \/ (ctx.numHwc = 0 /\ ctx.rectChanged)
               /\ ClearVirtual
               /\ Decide(l, geometry)
  /\ UNCHANGED <<lit, uiDrawn, settled>>

\* hwc_prepare(NULL): the caller gave up its list, and will come with a new one.
PrepareNothing ==
  /\ phase = "prepare" /\ phase' = "set" /\ ~settled
  /\ list' = NoList
  /\ ClearVirtual
  /\ ctx' = [ctx EXCEPT !.inited = FALSE, !.numSkip = 0, !.count = 0]
  /\ UNCHANGED <<win, lit, gsc, uiDrawn, settled>>

-----------------------------------------------------------------------------
(* hwc_set                                                                    *)

\* set_src_dst_img_rect: the crop as far as the buffer has it, and the place on a
\* screen rounded up, one side made even. Only an output window has a position.
SrcImage == [shape \in Shapes |->
  LET fw == RoundUp(shape.w, 16)
      fh == RoundUp(shape.h, 16)
  IN [fw |-> fw, fh |-> fh, w |-> Least(shape.crop.w, fw - shape.crop.x),
      h |-> Least(shape.crop.h, fh - shape.crop.y)]]
DstImage(w, shape) ==
  LET fw == RoundUp(Screen.w, 16)
      fh == RoundUp(Screen.h, 8)
      at == IF w.mode = "output" THEN w.place ELSE NoPlace
      img == [fw |-> fw, fh |-> fh, w |-> w.place.w, h |-> w.place.h, rot |-> shape.transform]
  IN IF Bit(shape.transform, Rot90)
     THEN [img EXCEPT !.h = Least(RoundUp(@, 2), fh - at.y)]
     ELSE [img EXCEPT !.w = Least(RoundUp(@, 2), fw - at.x)]

\* The contract of exynos_gsc_config_exclusive and exynos_gsc_run_exclusive in
\* output mode: a stream refuses a configuration, a handle never configured
\* refuses frames. A memory-to-memory handle takes both at any time, but looks at
\* the geometry when it runs.
TakesConfig(g, w, shape) ==
  /\ g.at = "live"
  /\ g.mode = "output" =>
       g.on = "off" /\ OutTakes(SrcImage[shape], DstImage(w, shape))
TakesFrame(g, w, shape) ==
  /\ g.at = "live"
  /\ IF g.mode = "output" THEN g.cfg # Unset /\ g.on # "stuck"
     ELSE M2mTakes(SrcImage[shape], DstImage(w, shape))

\* Configure when the window asks for it, then run; fault is the call that fails.
\* A failure returns to the loop at once.
Drawn(s, i, l, fault) ==
  LET w == s.win[i]
      layer == l[w.layer]
      first == w.needCfg \/ w.mode # "output"
      configured == TakesConfig(s.gsc, w, layer.shape) /\ fault # "config"
      g == IF first THEN [s.gsc EXCEPT !.cfg = [place |-> w.place, crop |-> layer.shape.crop]]
                    ELSE s.gsc
      v == IF first THEN [w EXCEPT !.prev = layer.h, !.needCfg = FALSE, !.started = TRUE]
                    ELSE [w EXCEPT !.prev = layer.h]
  IN IF first /\ ~configured
     THEN [s EXCEPT !.win[i].prev = layer.h]
     ELSE IF ~TakesFrame(g, w, layer.shape) \/ fault = "run"
     THEN [s EXCEPT !.win[i] = v, !.gsc = g]
     ELSE [win |-> [s.win EXCEPT ![i] = v],
           gsc |-> IF g.mode = "output" THEN [g EXCEPT !.on = "on"] ELSE g]

\* The window whose layer must be drawn: its buffer is not the one it drew last.
Reserved(i, l) == i < ctx.numHwc /\ win[i].reserved /\ l[win[i].layer].type = "overlay"
Due(i, l) == Reserved(i, l) /\ win[i].prev # l[win[i].layer].h

\* Of two videos on one memory-to-memory scaler the first one is waited for.
FirstVideo(s, i) ==
  IF i > 0 /\ s.win[0].mode = "m2m" THEN [s EXCEPT !.win[0].started = FALSE]
  ELSE s
Rendered(l, fault) ==
  LET start == [win |-> win, gsc |-> gsc]
      next(s, i) == IF Due(i, l) THEN Drawn(FirstVideo(s, i), i, l, fault) ELSE s
  IN next(next(start, 0), 1)

\* window_show and window_hide: an output window belongs to the scaler.
Blank(power, ws, on, works, windows) ==
  [w \in DOMAIN power |->
     IF w \in ws \cap works /\ (w = UiWin \/ windows[w].mode # "output") THEN on ELSE power[w]]

\* After the frame: memory-to-memory windows are waited for and shown. A window
\* whose layer was skipped is left alone, one whose layer failed is not.
Settled(i, l) == i < ctx.numHwc /\ ~(Reserved(i, l) /\ win[i].prev = l[win[i].layer].h)
Presented(l, s) ==
  [i \in Wins |-> IF Settled(i, l) /\ s.win[i].mode = "m2m"
                  THEN [s.win[i] EXCEPT !.started = FALSE] ELSE s.win[i]]
Toggled(l, s, works) ==
  LET missed == {i \in Wins : i < ctx.numHwc /\ ~Reserved(i, l)}
      ui == IF missed = {} THEN lit ELSE Blank(lit, {UiWin}, TRUE, works, s.win)
  IN Blank(ui, {i \in Wins : Settled(i, l)}, TRUE, works, s.win)

\* The UI window after the swap, or without one.
UiToggled(power, works, windows) ==
  LET empty == ctx.numFb + ctx.numSkip = 0 /\ ctx.numHwc > 0
      full == ctx.numFb > 0 \/ ctx.numHwc = 0
  IN IF full THEN Blank(power, {UiWin}, TRUE, works, windows)
     ELSE IF empty THEN Blank(power, {UiWin}, FALSE, works, windows) ELSE power

Composed(l) == [i \in {j \in DOMAIN l : l[j].type = "fb"} |-> l[i].h]

\* exynos_gsc_stop_exclusive: a STREAMOFF that fails leaves a stream that no
\* later stop reaches.
Stopped(g) ==
  {[g EXCEPT !.on = IF @ = "stuck" THEN "stuck" ELSE "off", !.cfg = Unset]}
    \cup IF Can("stop") /\ g.on = "on" THEN {[g EXCEPT !.on = "stuck"]} ELSE {}

\* A mutant: the stream ends only under a UI frame.
EndsUnderUi(n, windows) ==
  n = 0 /\ ctx.numFb > 0 /\ ctx.mode = "output" /\ windows[0].started
\* The frame has no overlay, and the last one had.
Ends(n, windows) == n = 0 /\ ctx.mode = "output" /\ windows[0].started

\* Mutant: the frames of delay are not counted.
WaitOn(ends) == IF ends THEN DelayFrames ELSE ctx.delay
\* overaly_delay_frames, after a frame.
DelayLeft(ends) == IF ends THEN DelayFrames ELSE IF ctx.delay = 0 THEN 0 ELSE ctx.delay - 1

\* With no overlay left an output stream is stopped; the windows beyond the
\* overlays are hidden and forget their rectangle. n is num_of_hwc_layer.
FinishFrame(n, s, windows, power, works) ==
  LET ends == Ends(n, windows)
      rest == {i \in Wins : i >= n}
      off == IF ends THEN [power EXCEPT ![0] = FALSE] ELSE power
  IN /\ gsc' \in IF ends THEN Stopped(s.gsc) ELSE {s.gsc}
     /\ win' = [i \in Wins |->
                  [windows[i] EXCEPT !.place = IF i \in rest THEN NoPlace ELSE @,
                                     !.started = @ /\ ~(ends /\ i = 0)]]
     /\ lit' = Blank(off, rest, FALSE, works, windows)
     /\ ctx' = [ctx EXCEPT !.numHwc = n, !.delay = DelayLeft(ends)]

\* hwc_set with a display and a list.
SetFails == {f \in {"config", "run"} : Can(f) /\ \E i \in Wins : Due(i, list)}
Set ==
  /\ phase = "set" /\ phase' = "prepare" /\ list # NoList
  /\ \E fault \in {"no"} \cup SetFails, works \in Working :
       LET s == Rendered(list, fault)
           windows == Presented(list, s)
           power == Toggled(list, s, works)
       IN \/ /\ FinishFrame(ctx.numHwc, s, windows, UiToggled(power, works, windows), works)
             /\ uiDrawn' = IF ctx.numFb > 0 THEN Composed(list) ELSE uiDrawn
          \/ \* eglSwapBuffers fails: HWC_EGL_ERROR, and the rest is not done
             /\ Can("egl") /\ ctx.numFb > 0
             /\ win' = windows /\ gsc' = s.gsc /\ lit' = power
             /\ uiDrawn' = Failed
             /\ UNCHANGED ctx
  /\ UNCHANGED <<list, virt, settled>>

\* hwc_set without a list: what the caller drew is swapped, and no overlay stays.
SetNothing ==
  \E works \in Working :
    LET s == [win |-> win, gsc |-> gsc]
    IN /\ phase = "set" /\ phase' = "prepare" /\ list = NoList
       /\ \/ /\ FinishFrame(0, s, win, Blank(lit, {UiWin}, TRUE, works, win), works)
             /\ uiDrawn' = <<>>
          \/ /\ Can("egl")
             /\ ctx' = [ctx EXCEPT !.numHwc = 0]
             /\ uiDrawn' = Failed
             /\ UNCHANGED <<win, lit, gsc>>
       /\ UNCHANGED <<list, virt, settled>>

\* hwc_set without a surface: the screen goes off between two frames.
Release ==
  \E works \in Working :
    /\ phase = "prepare" /\ ~settled
    /\ ctx' = [ctx EXCEPT !.inited = FALSE, !.numFb = @ + ctx.numSkip, !.numSkip = 0]
    /\ win' = [i \in Wins |-> [win[i] EXCEPT !.prev = NoBuf]]
    /\ lit' = Blank(Blank(lit, {UiWin}, TRUE, works, win), Wins, FALSE, works, win)
    /\ UNCHANGED <<list, virt, gsc, phase, uiDrawn, settled>>

\* From here on the geometry stays, frames keep coming and nothing fails.
Settle ==
  /\ list # NoList /\ ~settled /\ settled' = TRUE
  /\ UNCHANGED <<list, win, lit, virt, ctx, gsc, phase, uiDrawn>>

HwcNext == Prepare \/ PrepareNothing \/ Set \/ SetNothing \/ Release \/ Settle
HwcSpec == HwcInit /\ [][HwcNext]_hwcVars
\* The caller keeps composing frames: it always makes its next call, which some
\* step of HwcNext always is.
Continue == phase' = IF phase = "prepare" THEN "set" ELSE "prepare"
FairSpec == HwcSpec /\ WF_phase(Continue)

-----------------------------------------------------------------------------
\* When set runs, each of its windows was given a layer that is still an overlay,
\* and the scaler exists in the mode the window believes: set neither reads a
\* stale index nor hands frames to a handle that could not be made again.
OverlaysAreBacked ==
  phase = "set" /\ list # NoList => \A i \in Wins : i < ctx.numHwc =>
    /\ win[i].reserved
    /\ list[win[i].layer].type = "overlay" /\ list[win[i].layer].shape.kind = "yuv"
    /\ gsc.at = "live" /\ gsc.mode = win[i].mode

\* A running output stream shows the crop of its layer at the place of its layer,
\* although a configuration is made only when prepare saw a rectangle change.
StreamFitsLayer ==
  phase = "set" /\ list # NoList /\ ctx.numHwc > 0 /\ gsc.on = "on" =>
    LET layer == list[win[0].layer] IN gsc.cfg = [place |-> Place[layer.shape],
                                                  crop |-> layer.shape.crop]

\* A layer whose overlay is not magnified beyond MAX_UP_SCALING_RATIO_LIMIT, its
\* sides turned if it is (get_hwc_compos_decision).
GrowsWithin(shape) ==
  Within(shape.crop, IF Bit(shape.transform, Rot90) THEN Sideways(shape.frame) ELSE shape.frame, 8)

\* A video that prepare took off the GPU's hands is one the scaler takes, in either
\* mode: the composer has limits and a table of ratios of its own, the images it
\* hands over are rounded and clipped, and a layer the scaler refuses is drawn by
\* nobody. Excepted are layers smaller than the scaler's least size and crops beyond
\* the buffer, which prepare grants; a flip that grows too much; a frame of odd width
\* that ends with the screen, whose last column is cut; and a second video, for which
\* nobody checked the mode.
LargeEnough(shape) ==
  /\ shape.crop.w >= MinW /\ shape.crop.h >= MinH
  /\ shape.frame.w >= MinW /\ shape.frame.h >= MinW
InBuffer(shape) ==
  /\ shape.crop.x >= 0 /\ shape.crop.y >= 0
  /\ shape.crop.x + shape.crop.w <= RoundUp(shape.w, 16)
  /\ shape.crop.y + shape.crop.h <= RoundUp(shape.h, 16)
CanRound(shape) == shape.frame.w % 2 = 0 \/ shape.frame.x + shape.frame.w < Screen.w
Sensible(shape) ==
  LargeEnough(shape) /\ InBuffer(shape) /\ CanRound(shape) /\ GrowsWithin(shape)
OverlayIsTaken ==
  phase = "set" /\ list # NoList => \A i \in Wins : i < ctx.numHwc =>
    LET w == win[i]
        shape == list[w.layer].shape
    IN Sensible(shape) /\ w.layer = First(Having(list, "yuv")) =>
         IF w.mode = "output" THEN OutTakes(SrcImage[shape], DstImage(w, shape))
         ELSE M2mTakes(SrcImage[shape], DstImage(w, shape))

\* UI layers are skipped only while the UI window shows a frame made of the very
\* buffers they have now, unless the frame failed to be swapped.
SkippedUiIsShown ==
  ctx.numSkip > 0 /\ uiDrawn # Failed =>
    \A i \in Having(list, "rgb") : i \in DOMAIN uiDrawn /\ uiDrawn[i] = list[i].h

\* After a frame without overlays the scaler streams to no window, unless that
\* frame failed to be swapped and the next one will stop it. ("stuck" is a stream
\* whose stop failed.)
NoStreamWithoutOverlay ==
  phase = "prepare" /\ ctx.numHwc = 0 /\ gsc.on = "on" => win[0].started /\ uiDrawn = Failed

\* While the geometry stays and nothing fails, a video that the scaler could draw
\* gets its overlay back, after the frames of delay. It does not when the scaler
\* could not be made, nor when the window was lit in memory-to-memory mode before
\* the switch to output mode: prepare then refuses it for good.
Drawable == \E i \in DOMAIN list : Fits[list[i].shape]
ShutOut == gsc.at = "null" \/ (lit[0] /\ win[0].mode = "output")
OverlayReturns == (settled /\ Drawable) ~> (ctx.numHwc > 0 \/ ShutOut)

=============================================================================
