------------------------------ MODULE GscGeom -------------------------------
(* The geometry a scaler handle accepts (libgscaler/exynos_gscaler.c), as      *)
(* operators: an image is [fw, fh, w, h], the whole buffer or screen and the   *)
(* rectangle of it that is read or written, and rot of the destination.        *)
EXTENDS Integers

\* GSC_MIN_W_SIZE and GSC_MIN_H_SIZE: GSC_VERSION is set to GSC_EVT1, but neither
\* version has a number, so that the preprocessor finds it equal to GSC_EVT0.
MinW == 64
MinH == 32

\* HAL_TRANSFORM_*, a set of three bits.
FlipH == 1
FlipV == 2
Rot90 == 4
Bit(t, b) == (t \div b) % 2 = 1

\* rotateValueHAL2GSC: the scaler turns before it flips, the caller means it the
\* other way round, so that of a flip with a quarter turn the axes change places.
Orientation(t) ==
  LET turned == Bit(t, Rot90)
      flips  == (t \div FlipH) % 4
  IN CASE turned /\ flips = FlipH -> [rotate |-> 90, hflip |-> 0, vflip |-> 1]
       [] turned /\ flips = FlipV -> [rotate |-> 90, hflip |-> 1, vflip |-> 0]
       [] turned /\ flips = 0     -> [rotate |-> 90, hflip |-> 0, vflip |-> 0]
       [] flips = FlipH + FlipV   -> [rotate |-> IF turned THEN 270 ELSE 180,
                                      hflip |-> 0, vflip |-> 0]
       [] OTHER -> [rotate |-> 0, hflip |-> IF flips = FlipH THEN 1 ELSE 0,
                    vflip |-> IF flips = FlipV THEN 1 ELSE 0]

\* m_exynos_gsc_check_size.
SizeOk(img, rotate) ==
  LET least == IF rotate \in {0, 180} THEN [w |-> MinW, h |-> MinH]
                                      ELSE [w |-> MinH, h |-> MinW]
  IN img.fw >= least.w /\ img.w >= least.w /\ img.fh >= least.h /\ img.h >= least.h

\* How far output mode shrinks to a screen; 0: not at all.
OutDown(fw, fh) ==
  CASE <<fw, fh>> \in {<<720, 480>>, <<640, 480>>, <<1024, 600>>, <<1280, 720>>} -> 4
    [] <<fw, fh>> = <<1280, 800>> -> 3
    [] <<fw, fh>> \in {<<800, 1280>>, <<1920, 1080>>} -> 2
    [] OTHER -> 0

Within(less, more, ratio) == less.w * ratio >= more.w /\ less.h * ratio >= more.h
Smaller(a, b) == a.w < b.w \/ a.h < b.h

\* exynos_gsc_scale_ratio_check in output mode, to the panel.
RatioOk(src, dst) ==
  /\ Smaller(src, dst) => Within(src, dst, 8)
  /\ Smaller(dst, src) => Within(dst, src, OutDown(dst.fw, dst.fh))

Even(n) == 2 * (n \div 2)

\* What exynos_gsc_out_config looks at before it touches the handle's ring.
OutTakes(src, dst) ==
  LET fimd == [dst EXCEPT !.w = Even(@)]
  IN /\ RatioOk(src, fimd)
     /\ SizeOk(src, 0) /\ SizeOk(fimd, Orientation(dst.rot).rotate)

\* exynos_gsc_set_rotation for what exynos_gsc_m2m_config passes it.
NormalRotation(r) == r % 360

\* exynos_gsc_m2m_config takes every geometry; exynos_gsc_m2m_run_core looks at it.
M2mTakes(src, dst) ==
  /\ SizeOk(src, 0)
  /\ SizeOk(dst, NormalRotation(Orientation(dst.rot).rotate))
=============================================================================
