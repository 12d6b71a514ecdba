------------------------------- MODULE MCHwc --------------------------------
(* Model checking of Hwc: videos that move, change size or crop, that shrink    *)
(* more than the panel's scaler may, that need rotation, that come from a       *)
(* camera or that the scaler cannot draw, with and without user interface.      *)
EXTENDS Hwc

MCScreen == [w |-> 1280, h |-> 800]
At(px, py, width, height) == [x |-> px, y |-> py, w |-> width, h |-> height]

Video == [kind |-> "yuv", plain |-> TRUE, cam |-> FALSE, transform |-> 0,
          frame |-> At(0, 40, 1280, 720), crop |-> At(0, 0, 1920, 1080), w |-> 1920, h |-> 1080]
Resizes == [Video EXCEPT !.frame = At(400, 200, 641, 360)]  \* 3 : 1, just
Shrunk  == [Video EXCEPT !.frame = At(798, 400, 481, 360)]  \* 4 : 1, and odd
Turned  == [Video EXCEPT !.transform = 5, !.frame = At(0, 0, 450, 800)]
Blended == [Turned EXCEPT !.plain = FALSE]
Camera  == [Video EXCEPT !.cam = TRUE, !.crop = At(240, 0, 1440, 1080)]
Ui      == [Video EXCEPT !.kind = "rgb", !.plain = FALSE]

Nothing == [Ui EXCEPT !.kind = "none"]

MCLists == {<<Ui, Video>>, <<Resizes>>, <<Shrunk>>, <<Nothing, Nothing, Turned, Blended>>,
            <<Camera>>}
AllFaults == {"create", "config", "run", "stop", "blank", "egl"}
=============================================================================
