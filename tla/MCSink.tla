------------------------------- MODULE MCSink -------------------------------
(* A full HDMI television, one that takes only RGB and one 3D structure at a *)
(* low clock, and a DVI monitor; each may fail to be read.                   *)
EXTENDS Sink

Tv == [exts |-> 1, map |-> FALSE, rev |-> 3, hdmi |-> TRUE, paddr |-> 4096, ycc |-> TRUE, tmds |-> 45,
       dtd |-> {"v1920x1080p_60Hz"}, xdtd |-> {"v1280x720p_60Hz"}, vics |-> <<16, 4>>,
       mandatory |-> TRUE, structs |-> {}, detail |-> FALSE, others |-> {4}]

Old == [Tv EXCEPT !.paddr = 8192, !.ycc = FALSE, !.tmds = 15, !.dtd = {"v720x480p_60Hz"},
                  !.xdtd = {}, !.vics = <<4>>, !.mandatory = FALSE, !.structs = {"TB"}, !.others = {8, 11}]

Monitor == [Tv EXCEPT !.exts = 0, !.hdmi = FALSE, !.dtd = {"v1280x720p_60Hz"}]

MCSinks == {Tv, Old, Monitor}
MCAskedModes == {"RGB", "DVI"}
MCAsked == {<<1080960, "2D">>, <<720960, "TB">>, <<720960, "SBS">>}
MCFaults == {"open", "read", "checksum", "close", "external", "stop"}
Says(op, src, broadcast) == [op |-> op, src |-> src, broadcast |-> broadcast, on |-> FALSE]
MCFrames == {Says("GIVE_PHYSICAL_ADDRESS", 0, FALSE), Says("GIVE_DEVICE_POWER_STATUS", 8, FALSE),
             Says("PLAY", 15, FALSE)}
MCCecFaults == {"open", "report"}
=============================================================================
