# TLA+ models of the Exynos 5 multimedia libraries

This directory models, checks and proves properties of the libraries in `../src`: the scaler
library, the HDMI output stack with the television behind it, the hardware composer and the contexts
of the video codec. The code is the reference; every definition carries its source lines in `PROJECT.json` ("map").

## 1. The system

| component | state it keeps | operations | interacts with |
|---|---|---|---|
| **libgscaler** (`libgscaler/exynos_gscaler.c`) | `GSC_HANDLE`: device, `stream_on`, `buf_idx`, `qbuf_cnt` for source and destination, image geometry, `op_mutex`; behind it a V4L2 queue in the driver | create, create_exclusive, destroy, set_*, convert, config_exclusive, run_exclusive, wait_done, stop_exclusive, just_stop, in three modes: memory to memory, output (to the display), capture (from the display) | driver by ioctl; called by ExynosHdmi, libhwc and OMX |
| **ExynosTVOutService** (`libhdmi/libhdmiservice`) | `mHdmiCableInserted`, `mHdmiPath`, `mHwcLayer`, `mEnable`; two mailboxes `mMsgForUI`, `mMsgForVideo`; four mutexes and two conditions besides `mLock` | binder calls (status, mode, path, layers, blit2Hdmi) and two flush threads | ExynosHdmi, by method calls under `mLock` and from the threads |
| **ExynosHdmi** (`libhdmi/ExynosHdmi`) | connection, path, resolution, output mode, each as "requested" and "current"; two change flags; per layer the memo of the last configuration; scaler handles `m_gsc_out_handle`, `m_gsc_cap_handle` | create, destroy, connect, disconnect, flush, clear, layer enable and disable, setters | libgscaler, libhdmiutils, libedid, libcec |
| **libhdmiutils** | `MXR_HANDLE` per graphic layer (ring and flag as in the scaler's), the TV device | exynos_mxr_*, tvout_init, hdmi_outputmode_2_v4l2_*, captures by the scaler | driver |
| **libhwc** | per window: device, buffer index, geometry; one scaler handle and its mode; `overaly_delay_frames`; virtual windows of the UI frame skip | prepare, set, vsync thread, blank, open, close | libgscaler, frame buffer driver, TV-out client |
| **libcodec/video** | `pInbuf`, `pOutbuf` with `bQueued` and `bRegistered`, stream flags, one mutex per port | Init, Finalize, Setup, Register, Enqueue, Dequeue, Run, Stop | MFC driver; called by two OMX threads |
| **libcodec/audio** | one static descriptor, two info records | SRP_* | driver |
| **libddc, libedid** | `ref_cnt` and `ddc_fd`; the cached EDID `gEdidData`, the saved codes `aVIC` | counted open and close, read, questions about mode, resolution, 3D structure and physical address | driver; called by ExynosHdmi and libhdmiutils |
| **libcec** | one descriptor; in ExynosHdmi the CEC thread with its addresses | open, claim of a logical address, send, receive, checks of a message | driver; called by ExynosHdmi's thread |
| **libcamera, libion_exynos, libswconverter** | none of their own (the camera class is not in the repository) | forwarding, ioctls, pixel layout conversion | - |

What is hard in it:

* every library call is a chain of ioctls of which any may fail, most functions return in the middle
  of the chain and leave their flags as they were at that point; nobody tests the *next* call after
  a failure;
* indices and flags in user space mirror a queue in the driver, without ever asking it;
* ExynosHdmi remembers what it configured, and a memo that survives the configuration it describes
  means a black television;
* ExynosHdmi also remembers a television: an EDID, a mode, a resolution and a CEC address that were
  right for one television must not serve the next one;
* a codec context hands out arrays, mappings and mutexes over a dozen calls that nobody obliges a
  caller to make in order;
* two components that decide about the same picture (the composer and the scaler) have limits and
  tables of ratios of their own;
* the TV-out service moves frames between threads through a condition without predicate, with two
  mutexes for one mailbox, over an object with two locks.

What makes each part correct:

* *libgscaler*: the flag never claims a stream the driver does not run; the ring index is refused
  only when the ring is full; a stop that answers 0 stopped; a failed call does not poison the next
  one; nothing stays open; `op_mutex` comes back.
* *ExynosTVOutService*: a woken thread has a message; a layer is not stopped under a flush,
  and no method runs under one; the service does not believe in a connection that ExynosHdmi does not have; calls return.
* *ExynosHdmi*: a change asked for is pending until it was made; the TV shows what was asked for;
  a disconnected object is quiet; a frame that is not reset fits what the mixer was last set up for; a
  scaler runs after it was configured.
* *the television*: the DDC line is open while it is counted and goes with the connection; the EDID
  is that of the television plugged in; mode and resolution are ones it declares; the CEC thread
  speaks with its own address, to this television.
* *mixer layers*: as the scaler's output mode, over a failed STREAMON as well.
* *libhwc*: an overlay has a reserved window, a layer that still is an overlay, and a scaler in the
  window's mode that takes the layer's geometry; the running stream was configured for the place and the crop of its layer; user
  interface that nobody draws is on screen; no stream outlives the last overlay; a video gets its
  overlay back.
* *libcodec*: a buffer the driver holds is marked; no buffer is lost to Enqueue; a buffer
  gets the private data of its own Enqueue and no other's; a context frees what it took, once, and nothing else;
  buffers are queued with the memory type of their queue; the driver is told every parameter.

## 2. Modules

| module | models | notes |
|---|---|---|
| `Vb2` | the driver's buffer queue (external: videobuf2) | a record and pure operators; used by the modules of streaming handles |
| `Stream` | what a user of a streaming handle may rely on: the flag, the driver, the number of frames with it, the answer of the last call | the abstract specification; `GscOut`, `GscCap` and `Mxr` implement it |
| `GscOut` | a scaler handle in output mode | `held` counts the media resources; `last` the returned value |
| `GscM2M` | a memory-to-memory handle shared by threads | one place per ioctl of `exynos_gsc_m2m_run_core` and `_wait_frame_done` |
| `GscCap` | a handle in capture mode | the poll with its timeout (`GSC_CAP_TIMEOUT`, 5000 ms), vsync interrupt |
| `GscGeom` | the geometry a handle accepts, in output and in memory-to-memory mode | pure operators; used by `Hwc` |
| `Mxr` | a graphic layer of the mixer, from create to destroy | `recursive`: whether a mutex can be locked twice, since its source is not in the repository |
| `TVOut` | service, mailboxes, flush threads, locks | what a flush computes is abstract |
| `Hdmi` | ExynosHdmi's state and its chains of fallible steps | locks are `TVOut`'s; handles are abstract (`null`, `live`, `freed`; configured; streaming) |
| `EdidTables` | the tables of presets and formats, and libedid's answers about an EDID | pure operators; a television is a record of what it declares |
| `Edid` | the DDC line, the cache, and mode and resolution as connect, disconnect and the setters choose them | |
| `Cec` | the CEC thread and libcec: address claim, checks and answers | |
| `Sink` | `Edid` and `Cec` composed, with televisions plugged in and out | |
| `Hwc` | `hwc_prepare`, `hwc_set`, screen-off, with the scaler as the contract of a handle | one caller's thread, so one action per call |
| `MfcPort` | one port (decoder or encoder, input or output) of a codec context, between threads | one place per ioctl and per field written outside of the mutex |
| `Codec` | a whole codec context from Init to Finalize, for one thread in any order of calls | memory, mappings, formats, controls |
| `GscOut_proofs` | theorems about `GscOut`, and about `Hwc`, the composer on top of a scaler | see section 5 |
| `GscCap_proofs`, `GscM2M_proofs`, `TVOut_proofs`, `MfcPort_proofs`, `Codec_proofs`, `Sink_proofs` | theorems about the module of that name | see section 5 |
| `Mxr_proofs` | theorems about `Mxr`, and about `Hdmi`, the object that drives the mixer | see section 5 |
| `MC*` | model values and fault sets for TLC | |

Correspondence of state: `GscOut!src` is `handle->src.{stream_on,buf_idx,qbuf_cnt}`, `sq` the queue
behind `gsc_vd_entity->fd`; `GscM2M!pc` names the ioctl a thread makes next, `lock` is `op_mutex`;
`TVOut!disable[s]` is `sync_mutex_disable_X`, `lock[s]` `mLock_UI` and `mLock_VIDEO`, `fpc` the
place of a flush thread; in `Hdmi`, `h.path` is `mHdmiPath` and `h.curPath` `mCurrentHdmiPath`, and
so on for mode, resolution and preset, `h.memo` is `mSrcWidth/Height/ColorFormat` with
`mHdmiResolutionWidth/Height`, `h.prev` is `mPrevDstWidth/Height`: sizes only, as in the code. `Rect` is the
`mDstRect` of a frame with its place (`CalRect`, or the caller's place for an unscaled UI frame), and
`h.mxr[g].setup` what the last reset gave the mixer layer, place included.

In `Hwc`, `ctx` is `hwc_context_t`: `mode` is `gsc_mode`, `numHwc`, `numFb` and `numSkip` the counts
of layers, `inited` `fb_lay_skip_initialized`, `count` `ui_skip_frame_cnt`, `rectChanged`
`dis_rect_changed`, `needTry` `need_to_try_overlay`, `delay` `overaly_delay_frames`. `win` is
`hwc_win_info_t` with its entry of `layer_prev_buf` (`prev`), `lit` is `power_state`, `virt` is
`win_virt`, `gsc` the handle and what the driver does for it (`on` is `"stuck"` after a stop that
failed). The ghost `uiDrawn` records what the UI frame on screen was made of; it is read by
properties only. A layer is a shape (what the caller calls geometry: frame, crop, transform, size
of the buffer) and a buffer. `Place` is `calculate_rect`, `Fits` the limits of
`get_hwc_compos_decision`, `SrcImage` and `DstImage` are `set_src_dst_img_rect`; whether the scaler
takes such a pair is `GscGeom`'s to say (`OutTakes`, `M2mTakes`).

In `Mxr`, `mx` is the handle's `stream_on`, `buf_idx` and `qbuf_cnt`, `mq` the queue behind
`mxr_vd_entity->fd`, `held` the resources by the step of create that took them, `call` says whether
the thread is in DQBUF, hangs on its own mutex or has used freed memory. The ghost `cut` marks a
ring whose frames a configuration dropped without `stop_n_clear`.

In `Edid`, `ddc` is `ref_cnt` with `ddc_fd`, `edid` is `gEdidData`, `saved` is `aVIC`, `hd` has
`mFlagConnected`, `mHdmiOutputMode`, `mHdmiResolutionValue` and `mHdmiS3DMode`; `modeBy` and `resBy`
(ghosts) are the EDIDs mode and resolution were chosen by; `leaks` (ghost) counts the connects that gave
up and kept the line since it was last closed, and `halfway` says that there is one. In `Cec`, `cec` has the descriptor, the
state of the thread, `mFlagRunning`, `mPaddr` and `mLaddr`; `said` (ghost) is the last frame sent.
What libedid reads from bytes is a field of a record: declared timings, codes, 3D structures, colour
formats, clock, vendor block, physical address.

In `Codec`, `port[p]` is `pInbuf` or `pOutbuf` with `nInbufs`, `bShareInbuf`, `bStreamonInbuf`, the
geometry and the address of each plane; `array` numbers the arrays made, so that a pointer to a
freed one can be told from a new one. `drv` is what the driver keeps of the queues, `told` the
controls of the last call. The ghosts `heap`, `lost`, `harm` and `slips` say what is allocated, what
the context was made to forget, what was freed or followed wrongly, and which calls out of order
came.

In `MfcPort`, `queued`, `private` and `registered` are `bQueued`, `pPrivate` and `bRegistered`,
`streaming` the flag `bStreamonInbuf` or `bStreamonOutbuf`, `drv` the driver's queue; `enq`, `deq` and
`ctl` are the places of the threads inside Enqueue, Dequeue and Stop. The ghosts `given` and
`forgotten` record whose `pPrivate` a buffer should have and which marks a Stop took away under a
buffer in use.

In every module a driver call fails when its kind is in
the set of faults (`Faults`, `HdmiFaults`, `HwcFaults`), and then the action leaves exactly what the code leaves at that return.

`qbuf_cnt` is kept saturated at the ring size: the code only compares it with that size. Reads of
the mailbox (`TVOut!ReadArg`) are single field reads in any order, because the compiler may order
them and `blit2Hdmi` replaces the message under another mutex.

How the modules compose. `Vb2` is EXTENDed by `GscOut`, `GscM2M`, `GscCap` and `Mxr`. Each of
`GscOut`, `GscCap` and `Mxr` has `Promise == INSTANCE Stream WITH ...` and the property `Implements
== Promise!Spec`: `made` is "the caller holds a handle", `flag` is `stream_on`, `running` and
`queued` are read off the driver's queue. `Hdmi` uses that contract of a handle (a streaming handle
refuses configuration, an unconfigured one refuses buffers, a failed stop has lowered the flag);
`Hwc` uses it too, together with `GscGeom`, so that composer and scaler are checked against each
other. `Sink` composes `Edid` and `Cec`: `connect` starts the CEC thread with the address found in
the EDID it has just read, and `disconnect` stops it. `TVOut` and `Hdmi` share the frames
`blit2Hdmi` lets through, and `Hdmi` and `Sink` treat each method as one step because `TVOut` shows
the locks around it: `MethodsExcludeFlushes` is that no method's body runs while a flush draws. The locks
do not cover three places (section 4): two of them `TVOut` models as such, the third is not modelled.
`MfcPort` and `Codec` look at the same operations from two sides: threads inside one port, and one
thread over the whole context.

## 3. Runs

| run | expects | what it shows |
|---|---|---|
| `gsc_out` | pass | any order of calls, all nine kinds of driver failure: flag, ring, stop and resources are right, and the handle implements `Stream` |
| `gsc_m2m` | pass | two threads, two geometries, all failures; `ConvertReturns` is liveness |
| `gsc_cap` | pass | ring sizes 1 to 3 and reconfigurations; the handle implements `Stream` |
| `mxr` | pass | a layer over failed STREAMONs, stops, reconfigurations and every way out of create and destroy; it implements `Stream` |
| `tvout` | pass | cable and path change while frames flow: what a woken thread finds, and what the locks keep apart |
| `tvout_settled` | pass | every service call returns when cable and path are settled |
| `hdmi` | pass | every method in any order, seven kinds of failure, frames that outlive their path |
| `hdmi_run_after_config` | violation | no failure at all: a reconnection lets the video layer run an unconfigured scaler |
| `sink` | pass | televisions come and go, reads fail, connects give up half way, the CEC thread starts late: EDID, mode, resolution and CEC address are those of the television |
| `hwc` | pass | frames of changing layer lists, both scaler modes, UI skip, screen-off, six kinds of failure, real geometry; `OverlayReturns` is liveness |
| `mfc_port` | pass | each port with two enqueuing threads, one dequeuing, Stop and Setup at any moment, five kinds of failure |
| `codec` | pass | decoder and encoder contexts, every operation in any order, five kinds of failure: what is owned is released once |

Bounds. `N = 3` is `MAX_BUFFERS_GSCALER_OUT` itself, `Hold = 1` the buffer on screen; nothing else
in `GscOut` grows. `GscM2M`: two threads are enough for every pairwise interleaving under one mutex;
two geometries tell planes of the right and of the wrong size apart; loads 0 and 1 tell scalers
apart. `GscCap`: `Counts` are the ring sizes a caller may ask for, including a change of size;
`MaxFbs` bounds how many frame buffer descriptors are leaked. `TVOut`: `MaxFrames = 2` lets a frame
be posted before, while and after another one is flushed, per mailbox. `Hdmi`: two resolutions
of different presets and sizes, and one frame, 720x360, which on the smaller screen has the same size scaled
and unscaled, in two places: the case in which comparing sizes cannot tell two rectangles apart.
`MfcPort`: two buffers and two enqueuing threads (interchangeable, hence the symmetry) give every
pairwise interleaving of Find, QBUF and the write of `pPrivate`; the `pPrivate` of a call is always
another than the one the buffer still has, which is the case in which a mix-up shows. `Hwc`: five
lists of layers on a 1280x800 panel, one for each way through prepare (UI and video; a video that
moves and shrinks 3 : 1, the most this panel's output mode does; one that shrinks 4 : 1 with an odd
width, which needs memory to memory; two empty layers with a turned and a blended video, which is
more layers than the UI skip takes; a camera at the place of the first video with another crop), two
buffers (the same as before, and another), `Thres = 2` for the 1800 frames of
`THRES_FOR_SWAP`, `DelayFrames = 1` for 4: both counters are compared with their limit and with
zero only. `DefaultMode` is the mode the board defines; `"output"` has the delay and the stream
that `"m2m"` lacks, and turned layers bring `"m2m"` in. At most one window fails to be blanked or
shown per call. `Mxr`: as `GscOut`. `Sink`: three televisions (full HDMI; one without YCbCr and with a
single 3D structure under a low clock; a DVI monitor), so that every answer differs between two of
them; `NVic = 2` codes, since the fault with `aVIC` is about which of two is kept; `MaxRef = 2`, one
count more than a line in order ever has, so one connect that gives up (`leaks`) is followed to the end and
a second one met. `Codec`: two buffers and two Setups per port are the first
numbers at which a buffer and an array can be mistaken for another; the theorems of section 5 lift
both bounds.

Deadlock checking is off where the system may really stop (`gsc_out`, `gsc_cap`: the handle waits
for a frame that no hardware will finish; `mxr`: the same, and the thread that hangs on its own
mutex; `tvout`: see section 4) and on elsewhere.

Fairness. `GscM2M!Fairness`: each thread inside a call goes on, and the scaler finishes a frame it
was given (`WF`). `TVOut!Fairness`: threads run and a mutex that keeps coming free is eventually had
(`SF` per thread and for the running call); no fairness for starting calls or posting frames.
`Hwc!FairSpec`: the caller makes its next call (`WF`), as the surface flinger's loop does;
`OverlayReturns` is about the frames after `Settle`, from which on geometry stays and nothing fails.

## 4. What the checks show about the code

Finding (a `violation` run): `m_reset` clears the change flags for all layers after it configured
one of them, and `disconnect` keeps the memo of the video layer: after a reconnection a UI frame
hides the pending change, and the same video frame as before runs a scaler that was never configured.

Seen while modelling, and part of the models, without a run of their own:

* `exynos_gsc_out_run` streams on after the *first* buffer with the shipped configuration
  (`GSC_OUT_DELAYED_STREAMON` is commented out); the comment at `exynos_gscaler.c:1815` says second.
* `exynos_gsc_just_stop` after a failed STREAMOFF reports "already stopped" over a running stream.
* `assign_overlay_window` keeps `layer_prev_buf` for a camera layer, also when a mode switch has just
  made another scaler: `hwc_set` then takes the buffer for "already rendered" although nothing was
  drawn in the new mode. The same record is written before the scaler has accepted the buffer.
* `get_hwc_compos_decision` grants an overlay from 16x8 on ("GSC resolution constraints",
  `ExynosHWC.cpp:554`). `GSC_VERSION` is defined as `GSC_EVT1`, but no file gives either version a
  number, so the preprocessor compares 0 with 0 and the scaler is built with the minimum of EVT0, 64x32
  (`exynos_gsc_utils.h:84`): a smaller video is drawn by nobody.
* The same function turns the sides of a layer for its limit of growth (eight times) when
  `transform & HAL_TRANSFORM_ROT_270` is not 0 (`ExynosHWC.cpp:571`), and that constant has all three
  bits. A layer that is only flipped is compared sideways: TLC, given one, finds that a flipped crop of
  128x160 becomes an overlay 1280 wide. In the other direction one within the limit is refused.
* `exynos_mxr_create` destroys its handle on an error while it holds `op_mutex`, and uses it
  afterwards: depending on the mutex the thread hangs or works on freed memory.
* `DDCOpen` counts an open that failed; `mHdmiS3DMode` survives a disconnect; a calibration of the
  output mode to DVI is overridden by the mode asked for (`setHdmiOutputMode`).
* `m_Doflush` compares a frame with the last one by size only (`ExynosHdmi.cpp:861-869`), and hands
  `left` and `top` to the mixer inside a reset only: a UI frame that moves at the same size is drawn at
  its old place.
* The encoder's `Get_Geometry_Inbuf` writes the height twice and the width never
  (`ExynosVideoEncoder.c:1049`).

Limits of what holds:

* `ServiceReturns` excuses a frame stranded by a lost wake-up: `setHdmiLayerDisable` then spins for
  ever under `mLock`. It also needs a settled path. While `mHdmiPathChange` is up, a video
  flush holding the video lock asks for the UI lock and vice versa: `tvout` runs with the deadlock
  check off because this really can stop the service.
* `WokenHasMessage` assumes that `pthread_cond_wait` does not wake up spuriously; the code has no
  predicate, so with one it would dereference a null message.
* The `Autolock` on the other layer in `ExynosHdmi::flush` ends with the `if` it stands in; `TVOut`
  models it as the passage through a free lock that it is. The flushes of the two layers therefore
  overlap, `mDstRect` is written by both under different locks, and so are the change flags. `Hdmi` has a
  flush as one step and says nothing of that; `MethodsExcludeFlushes` is about methods against flushes.
* `UnresetFrameFits` speaks of the source, the screen and the size on it of every frame that is not reset,
  and of the place of a scaled one, unless its unscaled size is the same. The place of an unscaled
  frame is excepted (above).
* `RefusedOnlyWhenFull` of an output handle excepts index 0 of a driver that does not stream: `just_stop`
  goes back to it over buffers that are still queued, and after a failed STREAMON the ring ends there.
* `CableMeansConnected` is about the flags after `connect`; the moment between its unlock and its flags
  (`ExynosHdmi.cpp:609`) is one step of the model. `reqBufCnt` is never 0 in `GscCap`.
* `OverlayReturns` excepts two cases in which the overlay really stays away (`ShutOut`): the scaler
  could not be made again after a mode switch, and prepare never retries; or the window was lit in
  memory-to-memory mode before the switch to output mode, where `window_hide` skips output windows,
  so prepare waits for a window to be hidden that nobody hides.
* `StreamFitsLayer` covers rectangle and crop. A change of format or of flips alone does not lead to
  a new configuration, because prepare compares rectangles only.
* With `GSC_M2M_WA` the first video decides the mode of the scaler: a turned second video is given to
  an output stream, and the second window is used with one video layer only.
* An `eglSwapBuffers` that failed leaves the UI buffers written down as drawn; `SkippedUiIsShown` and
  `NoStreamWithoutOverlay` except the frame after it.
* `OverlayIsTaken` is about layers that are `Sensible` and the first video of their list. Not sensible
  are: layers below the scaler's minimum (above); crops beyond the buffer, which are clipped; a flip
  that grows too much (above); and a frame of odd width that ends with the screen: rounded up
  and clipped again it stays odd, the scaler cuts its last column, and a crop in the last pixels
  below the ratio would then be refused. With those exceptions it is proved for every screen.
* A configuration of a mixer layer without `stop_n_clear` drops the driver's frames and keeps the
  index; `RingInStep` speaks of layers to which that did not happen (`cut`).
* In `Sink`, a connect that gives up behind `DDCOpen` leaves line and cache to the next one.
  `LineGoesWithConnection` bounds what is left: one count for each such connect (`leaks`). `FreshEdid` and
  `SpeaksForSink` except the time until the line is closed again (`halfway`). A disconnect before the
  first turn of the CEC thread does not stop it (`outlived`), and `SpeaksForSink` excepts that thread too.
  A stale code of `aVIC` that the next EDID happens to declare passes `ResolutionFitsSink`.
* `Codec` excepts what calls out of order make the context forget (`lost`) and what follows a failed
  Setup, whose array is freed under pointer and count that stay. After such a failure only Setup
  and Finalize are called; after undefined behaviour the process is dead. A slice mode outside of the
  header's list sends controls that were never written. Formats and controls the driver refuses leave
  everything as it was, and controls are told apart only before the first Setup.
* `HeldIsMarked` excepts buffers whose mark a Stop or a `Clear_Queued` cleared while a call or the
  driver had them; `PrivateIsOwn` says of a buffer that carries another `pPrivate` (which
  is written after QBUF) that its own Enqueue, and no other call, still has to write it, so that no stale
  write replaces it later. It leaves out buffers whose Enqueues overlap, and it does not exclude a Dequeue
  that comes before the write: that is a race of the code. A failed Setup leaves a
  pointer to a freed array, which `MfcPort` keeps as a state from which only Finalize leads on.

## 5. Proofs

`GscOut_proofs` proves, for every ring size `N >= 3`, every `Hold`, and every set of faults, that
`Spec` keeps `TypeOK`, `FlagIsBacked`, `RefusedOnlyWhenFull`, `OldestIsNext` and `StopMeansStopped`.
What a step needs to know is where the driver's buffers lie in the ring, which none of these says.
The inductive invariant is `IInv == TypeOK /\ QueuedFromZero /\ RingOrder`:

* `QueuedFromZero`: while the driver does not stream it holds the first indices of the ring, and
  `buf_idx` is just past them or was reset to 0;
* `RingOrder`: while the flag is up, it holds the indices just before `buf_idx`, oldest first.

`RefusedOnlyWhenFull` needs, for a driver that does not stream, `IndexAllocated` as well: an index other
than 0 was reached over N allocated buffers.

Lemmas about the ring (successor and predecessor of an index, appending to and taking from such an
interval) and one lemma per action carry it; each property is then a consequence of `IInv`.

It goes on to prove the refinement, `Spec => Implements`: under the refinement
mapping Init gives `Stream`'s Init, and there is one lemma per action that it is a step of `Stream` or
a stutter. It also proves `NothingLeftOpen` (`NoLeak`), by an invariant of its own: a live handle has
every step of `CreateOrder`, a dead one only what no destroy can give back. What it rests on is the order of `CreateOrder`: the
link to the display is made after the sub-device became known, and it is taken down only if that is known.

`TVOut_proofs` proves, for every number of frames and with or without moves of cable and path, that
`Spec` keeps `TypeOK`, `WokenHasMessage`, `QuietWhenStopped`, `MethodsExcludeFlushes` and `CableMeansConnected`. The
inductive invariant `IInv` adds to `TypeOK`, `WokenHasMessage` and `CableMeansConnected`

* `Owners`: a flush thread is between taking and giving back its disable mutex exactly while it owns it;
* `CallerHolds`: `setHdmiClearLayer` holds the disable mutex of the layer it clears, and
  `setHdmiLayerDisable` saw its mailbox empty, which stays so because `blit2Hdmi` needs `mLock`.

`QuietWhenStopped` follows from the two different ways in which the two calls keep the thread out.
`MethodsExcludeFlushes` has a small invariant of its own, `Held`: who owns which of the two locks of
`ExynosHdmi` at each place of a flush and of a method. It shows that the one lock a flush keeps to its end
is enough against the two a method takes, whatever becomes of the one it gives back early.

`GscCap_proofs` proves `RefusedOnlyWhenFull` and the refinement for every set of ring sizes. The ring
of a capture is harder than that of an output: each configuration may ask for another `reqBufCnt`,
the driver may still have the buffers of an earlier one, and a start that fails at the vsync
interrupt leaves `buf_idx` at `reqBufCnt`, one past the ring. `IInv` says of a stopped driver that it
holds the first indices (`QueuedFromZero`) and of a running one that the indices it holds are
congruent, modulo the ring size, to those just before `buf_idx` (`RingOrder`), which is what remains
true of that one index past the ring. Its lemmas on `Congruent` are stated for all integers.

`GscM2M_proofs` proves `NeverRefused` and `PlanesFitFormat` for every set of threads, formats and
faults. `IInv` says that the thread inside a call is the one `op_mutex` or the exclusive handle
belongs to (`OneAtWork`), that the flags are what the driver does (`FlagsAreStreams`), and, for each
place of `Program`, what the queues and formats must be there for the rest of it to be taken
(`PlaceOK`): from which place on a queue does not stream, and from which its format is the handle's
and its one buffer is free. Both properties follow from the place alone.

`Mxr_proofs` proves `LayerInStep` for every ring size of at least 3: the ring invariant of `GscOut`
(`FromZero` before the stream runs, `Behind` while it does) holds of every ring that was not cut,
although a failed STREAMON returns before the modulo of `buf_idx`: a stopped driver holds the first
indices, so the index that was not brought back into the ring is right until the stream runs.

`Codec_proofs` proves, for every number of buffers and Setups, every set of geometries and of faults,
that `Spec` keeps `NothingLeaked`, `FreesOnlyOwn`, `MemoryAgrees` and `DriverIsTold`. The inductive
invariant says that the arrays made are numbered (`Numbered`: nothing on the heap has a number not
yet given out), that the heap divides into what the context holds, what it was made to forget and
nothing else (`Divided`), and that a plane marked as mapped is mapped (`MapsHeld`); further which
harm needs which slip (`SlipInv`), that an array in use is of the memory type of its queue unless a
Set_Shareable came late (`MemoryInv`), and that the driver's format is the port's (`FormatInv`). `NothingLeaked` is the division of
the heap at a closed context.

`MfcPort_proofs` proves `HeldIsMarked`, `NothingLost` and `PrivateIsOwn` for every number of buffers
and of enqueuing threads. None of the three is inductive: between two of its ioctls a call holds a
buffer in its hand. `IInv` adds

* `InOnePlace`: a buffer whose mark was not forgotten is with the driver, with one call of Enqueue
  before its QBUF, or with Dequeue before it clears the mark; and it is marked there;
* `Accounted`: a marked buffer is in one of these places, but while a Stop is about to clear all
  marks; Dequeue counts only while the flag is up, for after its second look at the flag it returns
  without clearing the mark;
* `OneWrites`: between QBUF and the write of `pPrivate` of one buffer there is one call, the one the ghost
  names, or the ghost knows that it cannot tell;
* `CallsNeedArray`, `FlagFollows`: calls run only on a port with an array; the flag is the stream
  but for the moment inside Stop.

`Sink_proofs` proves the four invariants of `Sink` and its action property `FreshEdid` for every
set of televisions, every resolution asked for and every set of faults. `IInv` says that the DDC line is counted
(`LineCounted`), that mode and resolution fit the EDID they were chosen by (`Chosen`, the same
conditions without the connection), that a thread no disconnect forgot belongs to the connection and
has addresses of its television (`ThreadKnowsSink`), and that only a live thread speaks
(`SpeakerLives`). Most of the proof is about the operators: what `connect`'s chain leaves of line and
cache whichever step fails, and what the two searches of `setHdmiResolution` return.

The last part of `Mxr_proofs` proves the four invariants of `Hdmi`, for every set of resolutions and of
calls that may fail, with frames that meet a changed path or without. A method is a chain of fallible steps, so each lemma says of a step what
every outcome of it, failure included, leaves: `Same` (only scalers and mixer streams changed),
`Quieter` (nothing was started), `Layered` (only what belongs to the layers changed). `HdmiInv` is

* `Shape`: which parts of the object are records and functions;
* `TvCore`: the television has the preset `m_reset` last set, and the preset is that of the
  resolution last taken: what makes `TvOK`, the property, inductive when a chain fails between the two;
* `PathOK`, `TvOK`, `QuietOK`: three of the properties as predicates of one state of the object, so that
  they can also be asked of the states inside a method;
* `MemoOK`: a memo that is not blank names the source and screen its mixer layer was set up for, and a
  rectangle of the size that is noted, which is the calculated one or one of the frame's own size: from
  this and the comparison in `NeedsReset` follows `UnresetFrameFits`;
* `ResKnown`: a connected object has taken the resolution asked for.

The second part of `GscOut_proofs` proves the five invariants of `Hwc`, for every screen, every set of
layer lists, every `Thres` and `DelayFrames`, both default modes and every set of faults. `HwcInv` is

* `HwcTypeOK`;
* `ModesAgree`: `gsc_mode` is the handle's mode also when the handle could not be made, and the windows
  follow it only when it could;
* `Backed`: there is at most one overlay, in window 0 (the second window is for a list with one video,
  which already has the first), and what prepare checked of its layer (`Fits`, and in output mode that
  it need not go through memory) is still true when a later frame is set, because a frame without
  geometry change keeps the shapes;
* `StreamKnown`: a configured output handle belongs to a started window and has that window's rectangles;
* `Ended`, for the frame that could not be swapped;
* `WrittenDown` and `UiKnown`: `win_virt` lists every UI layer exactly once from `Collect` on, and what it
  holds of their buffers is the frame on screen, or the frame that set is about to draw.

The loop of `hwc_prepare` over the layers is a recursive function, and its invariant is proved by a
least counterexample. `OverlayIsTaken` is arithmetic and independent of the run: from the composer's limits
(`Fits`), table (`DownScale`) and rounding (`SrcImage`, `DstImage`) follow the scaler's `SizeOk`
and `RatioOk`, in output mode with the scaler's own table of panels and its even sizes. The proof
found that a negative crop origin has to be excepted with the other crops beyond the buffer, and which
frames of odd width do.

Assumptions are those of the modules (the named `ASSUME`s); TLC evaluates them in every run.

Only model-checked: liveness (`ConvertReturns`, `ServiceReturns`, `OverlayReturns`), which the prover
does not handle under fairness. What a mutated definition breaks is TLC's to show as well.

## 6. Not modelled, and the plan

Not modelled: pure I/O and stateless wrappers (libion, the ffmpeg wrapper, log files), vendored
headers, NEON assembly, the camera (its class is not in the repository), `MessageQueue` (unused),
thread start and exit of the service, the rotator and FIMG copies. Of ExynosHdmi, `create` and
`destroy` with their partial failures: the service calls the first once and the second never. Of
libedid, audio, colour depth and colorimetry, which are only read for the log; of libcec, the bytes
of messages and the driver's filter by logical address. Of libhwc, closing, the vsync thread (it only
calls back), window positions, blending and the HDMI client. Of libcodec, `Get_FramePackingInfo`
(changes nothing), the copy of the geometry into shared decoder buffers, and what no
table lists: three Wait functions and the encoder's `Enqueue_All_Outbuf`. The OMX components that call libcodec are not in the repository.

Done of the first plan: the abstract handle (`Stream`) with its three implementations, the mixer
(`Mxr`), CEC and EDID (`Sink`), the codec context (`Codec`), real geometry in `Hwc`. Left, most
important first:

1. `Hdmi` and `Hwc` over `Stream` itself instead of its contract in records.
2. An abstract port (the buffers in flight, each with the data of its Enqueue) that `MfcPort` implements
   as long as no Stop overlaps a call.
3. `Tiles`: the tile addressing of libswconverter as pure functions against a reference. `Srp`: the
   open and init order. The creation and destruction of ExynosHdmi.
4. Proofs about those: that a port implements the abstract one, and that `Hdmi` and `Hwc` keep the
   promise of `Stream` that their records stand for.

A new module's checks join the run of the component they refine where they ask the same question,
so that each run stays a question of its own.
