------------------------------- MODULE Stream -------------------------------
(***************************************************************************)
(* What the users of a streaming handle (a gscaler handle, a mixer layer)  *)
(* may rely on, whatever driver call fails behind it.                      *)
(*                                                                         *)
(*   made     the caller holds a handle;                                   *)
(*   flag     the handle claims to stream;                                 *)
(*   running  the driver streams;                                          *)
(*   queued   how many frames are with the driver;                         *)
(*   last     the call that returned last, and what it returned.           *)
(*                                                                         *)
(* A handle may lose sight of a running driver, after a stop that failed;  *)
(* it never believes in a stream that does not run, and it forgets neither *)
(* that a configuration it refused has to be refused nor that a stop it    *)
(* reported has to be real.                                                *)
(***************************************************************************)
EXTENDS Integers

VARIABLES made, flag, running, queued, last

vars == <<made, flag, running, queued, last>>

Returned(op, r) == last' = [op |-> op, ret |-> r]

Result(op) == Returned(op, 0) \/ Returned(op, -1)

AtRest == running' = FALSE /\ queued' = 0

\* A handle is made, or not: it claims nothing, and finds the driver at rest
\* unless an earlier handle could not be released.
Make ==
  /\ ~made
  /\ made' \in BOOLEAN
  /\ flag' = FALSE
  /\ AtRest \/ UNCHANGED <<running, queued>>
  /\ UNCHANGED last \/ Returned("create", IF made' THEN 0 ELSE -1)

\* A handle is given up in whatever state it is.
Free ==
  /\ made
  /\ made' = FALSE
  /\ flag' = FALSE
  /\ AtRest \/ UNCHANGED <<running, queued>>
  /\ Returned("destroy", 0)

\* A handle that claims to stream refuses; otherwise the frames of a driver
\* at rest may be dropped, whether or not the rest of the configuration works.
Configure ==
  /\ made
  /\ UNCHANGED <<made, flag, running>>
  /\ IF flag
     THEN UNCHANGED queued /\ Returned("config", -1)
     ELSE /\ queued' \in {0, queued}
          /\ running => UNCHANGED queued
          /\ Result("config")

\* One frame more at most; the stream may begin with it, and the claim only
\* together with the stream.
Feed ==
  /\ made
  /\ UNCHANGED made
  /\ queued' \in {queued, queued + 1}
  /\ running => running'
  /\ flag => flag'
  /\ flag' /\ ~flag => running' /\ ~running
  /\ flag' \in BOOLEAN /\ running' \in BOOLEAN
  /\ Result("run")
  /\ last'.ret = 0 => queued' = queued + 1

\* A frame comes back from a running driver, if one does.
Collect ==
  /\ made
  /\ UNCHANGED <<made, flag, running>>
  /\ \/ UNCHANGED queued
     \/ running /\ queued > 0 /\ queued' = queued - 1
  /\ Result("wait")

\* The claim goes first; 0 means that the driver is at rest and empty.
Stop ==
  /\ made
  /\ UNCHANGED made
  /\ flag' = FALSE
  /\ \/ UNCHANGED <<running, queued>> /\ Returned("stop", -1)
     \/ running' = FALSE /\ queued' = 0 /\ Result("stop")

\* The claim goes; the driver comes to rest if it was asked to.
JustStop ==
  /\ made
  /\ UNCHANGED made
  /\ flag' = FALSE
  /\ \/ UNCHANGED <<running, queued>> /\ Result("just_stop")
     \/ flag /\ running' = FALSE /\ queued' = 0 /\ Returned("just_stop", 0)

Init ==
  /\ made = FALSE /\ flag = FALSE /\ running = FALSE
  /\ queued = 0
  /\ last = [op |-> "none", ret |-> 0]

Next == Make \/ Free \/ Configure \/ Feed \/ Collect \/ Stop \/ JustStop

Spec == Init /\ [][Next]_vars
=============================================================================
