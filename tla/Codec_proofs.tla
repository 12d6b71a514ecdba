---------------------------- MODULE Codec_proofs ----------------------------
(***************************************************************************)
(* Proofs about Codec for any number of buffers, any number of Setups, any *)
(* geometries and every choice of calls that may fail: what a context      *)
(* leaks, frees and tells the driver.                                      *)
(*                                                                         *)
(* The invariant divides the heap of a live context into what is always    *)
(* there, what Finalize will release of each port, and what was forgotten. *)
(***************************************************************************)
EXTENDS Codec, TLAPS

USE CodecAssumption, GeometriesAssumption

Addresses == {"null", "map", "user"}
Pixelled == {"H264", "MPEG4", "H263", "VP8", "VC1_G", "VC1_L", "MPEG2",
             "NV12MT_16X16", "NV21M", "NV12M"}
Formats == [format : {"none"} \cup Colors \cup Codings \cup Pixelled, size : Nat]
PortStates ==
  [array : Nat, made : Nat, n : Nat, shared : BOOLEAN, addr : [Slots -> Addresses],
   on : BOOLEAN, geom : Formats]

Typed ==
  /\ kind \in {"dec", "enc"}
  /\ port \in [Ports -> PortStates]
  /\ drv \in [memory : [Ports -> {"none", "mmap", "user"}], fmt : [Ports -> Formats]]

\* Arrays are numbered as they are made; 0 is none.
Numbered ==
  \A p \in Ports :
    /\ port[p].array <= port[p].made
    /\ \A k \in Nat : <<"array", p, k>> \in heap => k > 0 /\ k <= port[p].made
    /\ \A k \in Nat, s \in Slots : <<"map", p, k, s>> \in heap => k <= port[p].made

\* What every open context holds.
Base == {<<"context">>, <<"device">>} \cup Mutexes

\* Whatever can belong to a port.
Pieces(p) == {<<"array", p, k>> : k \in Nat} \cup {<<"map", p, k, s>> : k \in Nat, s \in Slots}

\* Finalize will release everything but what was forgotten, and what was
\* forgotten is out of its reach.
Divided ==
  /\ heap \subseteq lost \cup Base \cup Released("in") \cup Released("out")
  /\ lost \subseteq heap
  /\ lost \cap (Base \cup Released("in") \cup Released("out")) = {}

\* An array in use still has its maps.
MapsHeld == \A p \in Ports : Usable(p) /\ ~port[p].shared => MapsOf(p) \subseteq heap

HeapInv ==
  /\ ctx = "live" => Numbered /\ Divided /\ MapsHeld
  /\ ctx \in {"none", "closed"} => heap = lost
  /\ ctx = "none" => heap = {}

\* A stray pointer, or a count without an array, comes of a Setup that failed;
\* the caller's memory of a port that is not shared, of Register.
SlipInv ==
  /\ harm \cap {"twice", "null"} # {} => "setup" \in slips
  /\ "foreign" \in harm => "register" \in slips
  /\ ctx = "live" =>
       \A p \in Ports :
         /\ Dangling(p) => "setup" \in slips
         /\ port[p].array = 0 /\ port[p].n > 0 => "setup" \in slips
         /\ Foreign(p) /\ ~port[p].shared => "register" \in slips

\* An array in use is of the memory its queue was set up with.
MemoryInv ==
  \A p \in Ports : Usable(p) => drv.memory[p] = Memory(p) \/ "share" \in slips

\* The driver's format is the translation of the caller's.
FormatInv ==
  ctx = "live" => \A p \in Ports :
    port[p].geom = Unset \/ (/\ drv.fmt[p] = Pixels(p, port[p].geom)
                             /\ ~Coded(p) => port[p].geom.format \in Colors)

ToldInv == told.slice \in {0, 1, 3} => told.unwritten = {}
-----------------------------------------------------------------------------
(* What distinguishes the pieces of the heap. *)

LEMMA PieceFacts ==
  /\ Pieces("in") \cap Pieces("out") = {}
  /\ \A p \in Ports : Pieces(p) \cap Base = {}
<1>1. Pieces("in") \cap Pieces("out") = {}
  BY DEF Pieces
<1>2. \A p \in Ports : Pieces(p) \cap Base = {}
  BY DEF Pieces, Base, Mutexes
<1> QED BY <1>1, <1>2

\* A map or an array tells its port and its number.
LEMMA PieceNames ==
  ASSUME NEW p, NEW q, NEW k, NEW j, NEW s, NEW t
  PROVE  /\ <<"array", p, k>> # <<"map", q, j, t>>
         /\ <<"array", p, k>> = <<"array", q, j>> => p = q /\ k = j
         /\ <<"map", p, k, s>> = <<"map", q, j, t>> => p = q /\ k = j /\ s = t
OBVIOUS

\* The fields of a port.
LEMMA PortTyped ==
  ASSUME Typed, NEW p \in Ports
  PROVE  /\ port[p] \in PortStates
         /\ port[p].array \in Nat /\ port[p].made \in Nat /\ port[p].n \in Nat
         /\ port[p].shared \in BOOLEAN /\ port[p].addr \in [Slots -> Addresses]
         /\ port[p].on \in BOOLEAN /\ port[p].geom \in Formats
BY DEF Typed, PortStates

\* What a port releases or maps is of its own.
LEMMA OwnPieces ==
  ASSUME Typed, NEW p \in Ports
  PROVE  /\ ArrayOf(p) \in Pieces(p) /\ MapsOf(p) \subseteq Pieces(p)
         /\ Released(p) \subseteq Pieces(p) /\ Forgotten(p) \subseteq Pieces(p)
         /\ Released(p) \subseteq {ArrayOf(p)} \cup MapsOf(p)
         /\ ArrayOf(p) \in Released(p)
         /\ ~port[p].shared => Released(p) = {ArrayOf(p)} \cup MapsOf(p)
         /\ port[p].shared => Released(p) = {ArrayOf(p)}
<1>1. port[p].array \in Nat
  BY PortTyped
<1>2. ArrayOf(p) \in Pieces(p)
  BY <1>1 DEF ArrayOf, Pieces
<1>3. MapsOf(p) \subseteq Pieces(p)
  BY <1>1 DEF MapsOf, MapAt, Pieces
<1>4. /\ Released(p) \subseteq {ArrayOf(p)} \cup MapsOf(p)
      /\ ArrayOf(p) \in Released(p)
      /\ ~port[p].shared => Released(p) = {ArrayOf(p)} \cup MapsOf(p)
      /\ port[p].shared => Released(p) = {ArrayOf(p)}
  BY DEF Released
<1> QED BY <1>2, <1>3, <1>4 DEF Forgotten

\* The next state of one port, with everything else of Ports as it was.
OnlyPort(p) == \A q \in Ports \ {p} : port'[q] = port[q]

\* A step at one port keeps the division of the heap: it gives back gone, gets
\* got, and forgets the rest of what it no longer releases.
LEMMA Redivided ==
  ASSUME Typed, Typed', Divided, NEW p \in Ports, OnlyPort(p),
         NEW gone, NEW got, NEW forgot,
         heap' = (heap \ gone) \cup got, lost' = lost \cup forgot,
         gone \subseteq Released(p), got \subseteq Released(p)',
         forgot \subseteq heap \ gone, forgot \subseteq Pieces(p),
         (heap \cap Released(p)) \ gone \subseteq forgot \cup Released(p)',
         (forgot \cup lost) \cap Released(p)' = {}
  PROVE  Divided'
<1> PICK q \in Ports : q # p /\ Ports = {p, q}
  BY DEF Ports
<1>1. port'[q] = port[q]
  BY DEF OnlyPort
<1>2. Released(q)' = Released(q)
  BY <1>1 DEF Released, ArrayOf, MapsOf, MapAt
<1>3. /\ Released(q) \subseteq Pieces(q) /\ Released(p) \subseteq Pieces(p)
  BY OwnPieces
<1>4. Pieces(p) \cap Pieces(q) = {} /\ Pieces(p) \cap Base = {} /\ Pieces(q) \cap Base = {}
  BY PieceFacts DEF Ports
<1>5. Released(p)' \subseteq Pieces(p)
  <2>1. port'[p].array \in Nat
    BY DEF Typed, PortStates
  <2> QED BY <2>1 DEF Released, ArrayOf, MapsOf, MapAt, Pieces
<1>6. Released("in") \cup Released("out") = Released(p) \cup Released(q)
  BY DEF Ports
<1>7. Released("in")' \cup Released("out")' = Released(p)' \cup Released(q)
  BY <1>2 DEF Ports
<1>8. Base' = Base
  BY DEF Base, Mutexes
<1>9. /\ heap \subseteq lost \cup Base \cup Released(p) \cup Released(q)
      /\ lost \subseteq heap
      /\ lost \cap (Base \cup Released(p) \cup Released(q)) = {}
  BY <1>6 DEF Divided
<1>10. heap' \subseteq lost' \cup Base \cup Released(p)' \cup Released(q)
  BY <1>9
<1>11. lost' \subseteq heap'
  BY <1>9
<1>12. lost' \cap (Base \cup Released(p)' \cup Released(q)) = {}
  BY <1>3, <1>4, <1>9
<1> QED BY <1>7, <1>8, <1>10, <1>11, <1>12 DEF Divided
-----------------------------------------------------------------------------
IInv == Typed /\ HeapInv /\ SlipInv /\ MemoryInv /\ FormatInv /\ ToldInv

\* What Open and Finalize leave behind.
LEMMA EmptyTyped ==
  ASSUME port' = [p \in Ports |-> Empty], drv' = Driver, kind' \in {"dec", "enc"}
  PROVE  /\ Typed'
         /\ \A p \in Ports :
              /\ port'[p].array = 0 /\ port'[p].made = 0 /\ port'[p].n = 0
              /\ port'[p].shared = FALSE /\ port'[p].geom = Unset
              /\ port'[p].addr = [s \in Slots |-> "null"]
<1>1. Unset \in Formats
  BY DEF Unset, Formats
<1>2. Empty \in PortStates
  BY <1>1 DEF Empty, PortStates, Addresses
<1>3. Driver \in [memory : [Ports -> {"none", "mmap", "user"}], fmt : [Ports -> Formats]]
  BY <1>1 DEF Driver
<1>4. Typed'
  BY <1>2, <1>3 DEF Typed
<1> QED BY <1>4 DEF Empty

\* Of a context that is not live only what is on the heap matters.
LEMMA NotLiveInv ==
  ASSUME SlipInv, ToldInv, Typed', ctx' \in {"closed", "dead"}, ctx' = "closed" => heap' = lost',
         told' = Nothing, harm' \cap {"twice", "null"} # {} => "setup" \in slips',
         "foreign" \in harm' => "register" \in slips'
  PROVE  IInv'
BY DEF IInv, HeapInv, SlipInv, MemoryInv, FormatInv, ToldInv, Usable, Nothing

LEMMA InitInv == Init => IInv
<1> SUFFICES ASSUME Init PROVE IInv
  OBVIOUS
<1>1. Unset \in Formats
  BY DEF Unset, Formats
<1>2. Empty \in PortStates
  BY <1>1 DEF Empty, PortStates, Addresses
<1>3. Driver \in [memory : [Ports -> {"none", "mmap", "user"}], fmt : [Ports -> Formats]]
  BY <1>1 DEF Driver
<1>4. Typed
  BY <1>2, <1>3 DEF Typed, Init, Start
<1> QED
  BY <1>4 DEF Init, Start, IInv, HeapInv, SlipInv, MemoryInv, FormatInv, ToldInv, Usable, Nothing

LEMMA OpenFailsInv == ASSUME IInv, OpenFails PROVE IInv'
<1>1. Typed'
  BY DEF OpenFails, IInv, Typed
<1>2. PICK k \in 0 .. 3 : heap' = heap \cup (Acquired(k) \ Undone(k))
  BY DEF OpenFails
<1>3. Acquired(k) \subseteq Undone(k)
  <2>1. CASE k = 0
    BY <2>1 DEF Acquired
  <2>2. CASE k = 1
    BY <2>2 DEF Acquired, Undone
  <2>3. CASE k \in {2, 3}
    BY <2>3 DEF Acquired, Undone, Mutexes, Ports
  <2> QED BY <2>1, <2>2, <2>3
<1>4. heap' = heap /\ lost' = lost /\ heap = lost /\ ctx' = "closed" /\ told' = Nothing
  BY <1>2, <1>3 DEF OpenFails, IInv, HeapInv
<1> QED BY <1>1, <1>4, NotLiveInv DEF OpenFails, IInv, SlipInv

LEMMA OpenInv == ASSUME IInv, Open PROVE IInv'
<1>1. /\ port' = [p \in Ports |-> Empty] /\ drv' = Driver /\ kind' \in {"dec", "enc"}
      /\ ctx' = "live" /\ told' = Nothing /\ lost' = lost /\ ctx = "none"
      /\ heap' = heap \cup Base /\ harm' = harm /\ slips' = slips
  BY DEF Open, Base, IInv, Typed
<1>2. heap = {} /\ lost = {}
  BY <1>1 DEF IInv, HeapInv
<1>3. /\ Typed'
      /\ \A p \in Ports :
           /\ port'[p].array = 0 /\ port'[p].made = 0 /\ port'[p].n = 0
           /\ port'[p].shared = FALSE /\ port'[p].geom = Unset
           /\ port'[p].addr = [s \in Slots |-> "null"]
  BY <1>1, EmptyTyped
<1>4. Numbered'
  BY <1>1, <1>2, <1>3 DEF Numbered, Base, Mutexes
<1>5. Divided'
  BY <1>1, <1>2 DEF Divided, Base, Mutexes
<1>6. MapsHeld'
  BY <1>3 DEF MapsHeld, Usable
<1>7. SlipInv'
  BY <1>1, <1>3 DEF IInv, SlipInv, Dangling, Foreign
<1> QED
  BY <1>1, <1>3, <1>4, <1>5, <1>6, <1>7
     DEF IInv, HeapInv, MemoryInv, FormatInv, ToldInv, Usable, Nothing
\* Finalize gives back all but what was forgotten, if it survives.
LEMMA FinalizeInv == ASSUME IInv, Finalize PROVE IInv'
<1> DEFINE wrong == Follows("in") \cup Follows("out")
<1>1. /\ ctx = "live" /\ harm' = harm \cup wrong /\ ctx' = After(wrong, "closed")
      /\ heap' = heap \ (Released("in") \cup Released("out") \cup Mutexes
                           \cup {<<"device">>, <<"context">>})
      /\ port' = [p \in Ports |-> Empty] /\ drv' = Driver /\ told' = Nothing
      /\ kind' = kind /\ lost' = lost /\ slips' = slips
  BY DEF Finalize
<1>2. Typed'
  BY <1>1, EmptyTyped DEF IInv, Typed
<1>3. heap' = lost'
  BY <1>1 DEF IInv, HeapInv, Divided, Base
<1>4. ctx' \in {"closed", "dead"}
  BY <1>1 DEF After
<1>5. ASSUME NEW p \in Ports
      PROVE  /\ Follows(p) \cap {"twice", "null"} # {} => "setup" \in slips
             /\ "foreign" \in Follows(p) => "register" \in slips
  BY <1>1 DEF Follows, Wrong, IInv, SlipInv
<1>6. /\ wrong \cap {"twice", "null"} # {} => "setup" \in slips
      /\ "foreign" \in wrong => "register" \in slips
  BY <1>5 DEF Ports
<1>7. /\ harm' \cap {"twice", "null"} # {} => "setup" \in slips'
      /\ "foreign" \in harm' => "register" \in slips'
  BY <1>1, <1>6 DEF IInv, SlipInv
<1> QED BY <1>1, <1>2, <1>3, <1>4, <1>7, NotLiveInv DEF IInv

LEMMA RestartInv == ASSUME IInv, Restart PROVE IInv'
<1>1. /\ port' = [p \in Ports |-> Empty] /\ drv' = Driver /\ kind' \in {"dec", "enc"}
      /\ ctx' = "none" /\ told' = Nothing /\ lost' = {} /\ heap' = {} /\ harm' = {} /\ slips' = {}
  BY DEF Restart
<1>2. Typed'
  BY <1>1, EmptyTyped
<1> QED
  BY <1>1, <1>2 DEF IInv, HeapInv, SlipInv, MemoryInv, FormatInv, ToldInv, Usable, Nothing

\* Controls touch no memory, no format and no buffer.
LEMMA ControlInv == ASSUME IInv, SetDecControl \/ SetEncControl PROVE IInv'
<1>1. UNCHANGED <<kind, ctx, port, drv, heap, lost, harm, slips>>
  BY DEF SetDecControl, SetEncControl, SetControl
<1>2. ToldInv'
  BY DEF SetDecControl, SetEncControl, SetControl, Nothing, ToldInv
<1> QED
  BY <1>1, <1>2 DEF IInv, Typed, HeapInv, Numbered, Divided, MapsHeld, Base, Released, ArrayOf,
     MapsOf, MapAt, SlipInv, Dangling, Foreign, MemoryInv, Usable, Memory, FormatInv, Pixels, Coded

\* Whatever the codec, in the slice modes the comment lists every control that
\* is sent was written.
LEMMA AllWritten ==
  ASSUME NEW codec \in EncCodecs, NEW slice \in {0, 1, 3}
  PROVE  (0 .. Count(codec) - 1) \ Written(codec, slice) = {}
<1>1. CASE codec = "AVC"
  BY <1>1 DEF Count, Written, CommonWritten, AvcWritten, SliceWritten
<1>2. CASE codec = "MPEG4"
  BY <1>2 DEF Count, Written, CommonWritten, Mpeg4Written, SliceWritten
<1>3. CASE codec = "H263"
  BY <1>3 DEF Count, Written, CommonWritten, H263Written
<1> QED BY <1>1, <1>2, <1>3 DEF EncCodecs

LEMMA SetEncParamInv == ASSUME IInv, SetEncParam PROVE IInv'
<1>1. UNCHANGED <<kind, ctx, port, drv, heap, lost, harm, slips>>
  BY DEF SetEncParam
<1>2. ToldInv'
  BY AllWritten DEF SetEncParam, ToldInv
<1> QED
  BY <1>1, <1>2 DEF IInv, Typed, HeapInv, Numbered, Divided, MapsHeld, Base, Released, ArrayOf,
     MapsOf, MapAt, SlipInv, Dangling, Foreign, MemoryInv, Usable, Memory, FormatInv, Pixels, Coded

\* Stream and the geometry touch only these two fields of a port.
LEMMA SameBuffersInv ==
  ASSUME IInv, Typed', FormatInv', told' = Nothing, UNCHANGED <<kind, ctx, heap, lost, harm, slips>>,
         drv'.memory = drv.memory,
         \A p \in Ports : /\ port'[p].array = port[p].array /\ port'[p].made = port[p].made
                          /\ port'[p].n = port[p].n /\ port'[p].shared = port[p].shared
                          /\ port'[p].addr = port[p].addr
  PROVE  IInv'
<1>1. \A p \in Ports : Released(p)' = Released(p) /\ MapsOf(p)' = MapsOf(p)
  BY DEF Released, ArrayOf, MapsOf, MapAt
<1>2. \A p \in Ports : /\ Usable(p)' = Usable(p) /\ Dangling(p)' = Dangling(p)
                       /\ Foreign(p)' = Foreign(p) /\ Memory(p)' = Memory(p)
  BY DEF Usable, Dangling, Foreign, Memory, ArrayOf
<1>3. Numbered => Numbered'
  BY DEF Numbered
<1>4. Divided => Divided'
  BY <1>1 DEF Divided, Base, Mutexes, Ports
<1>5. MapsHeld => MapsHeld'
  BY <1>1, <1>2 DEF MapsHeld
<1>6. HeapInv'
  BY <1>3, <1>4, <1>5 DEF IInv, HeapInv
<1>7. SlipInv'
  BY <1>2 DEF IInv, SlipInv
<1>8. MemoryInv'
  BY <1>2 DEF IInv, MemoryInv
<1> QED BY <1>6, <1>7, <1>8 DEF IInv, ToldInv, Nothing

LEMMA StreamInv == ASSUME IInv, NEW p \in Ports, NEW on \in BOOLEAN, Stream(p, on) PROVE IInv'
<1>1. port' = [port EXCEPT ![p].on = on] /\ UNCHANGED <<kind, ctx, drv, heap, lost, harm, slips>>
      /\ told' = Nothing
  BY DEF Stream
<1>2. Typed'
  BY <1>1 DEF IInv, Typed, PortStates
<1>3. \A q \in Ports : /\ port'[q].array = port[q].array /\ port'[q].made = port[q].made
                       /\ port'[q].n = port[q].n /\ port'[q].shared = port[q].shared
                       /\ port'[q].addr = port[q].addr /\ port'[q].geom = port[q].geom
  BY <1>1 DEF IInv, Typed, PortStates
<1>4. FormatInv'
  BY <1>1, <1>3 DEF IInv, FormatInv, Pixels, Coded
<1> QED BY <1>1, <1>2, <1>3, <1>4, SameBuffersInv

\* Both translations stay among the formats of the driver.
LEMMA PixelsTyped ==
  ASSUME NEW p \in Ports, NEW g \in Formats
  PROVE  Pixels(p, g) \in Formats /\ Pixels(p, g).size = g.size
         /\ Pixels(p, g).format = IF Coded(p) THEN CodedPixels(g.format) ELSE ColorPixels(g.format)
<1>1. CodedPixels(g.format) \in Pixelled
  BY DEF CodedPixels, Pixelled
<1>2. ColorPixels(g.format) \in Pixelled
  BY DEF ColorPixels, Pixelled
<1> QED BY <1>1, <1>2 DEF Pixels, Formats

LEMMA SetGeometryInv == ASSUME IInv, NEW p \in Ports, SetGeometry(p) PROVE IInv'
<1>1. PICK g \in Geometries[IF Coded(p) THEN "coded" ELSE "raw"] :
        /\ drv' = [drv EXCEPT !.fmt[p] = Pixels(p, g)]
        /\ port' = [port EXCEPT ![p].geom = g]
  BY DEF SetGeometry
<1>2. UNCHANGED <<kind, ctx, heap, lost, harm, slips>> /\ told' = Nothing
  BY DEF SetGeometry
<1>3. g \in Formats /\ (~Coded(p) => g.format \in Colors)
  BY DEF Formats
<1>4. Pixels(p, g) \in Formats
  BY <1>3, PixelsTyped
<1>5. Typed'
  BY <1>1, <1>2, <1>3, <1>4 DEF IInv, Typed, PortStates
<1>6. \A q \in Ports : /\ port'[q].array = port[q].array /\ port'[q].made = port[q].made
                       /\ port'[q].n = port[q].n /\ port'[q].shared = port[q].shared
                       /\ port'[q].addr = port[q].addr
                       /\ port'[q].geom = IF q = p THEN g ELSE port[q].geom
  BY <1>1 DEF IInv, Typed, PortStates
<1>7. /\ drv'.memory = drv.memory
      /\ \A q \in Ports : drv'.fmt[q] = IF q = p THEN Pixels(p, g) ELSE drv.fmt[q]
  BY <1>1 DEF IInv, Typed
<1>8. FormatInv'
  BY <1>2, <1>3, <1>6, <1>7 DEF IInv, FormatInv, Pixels, Coded
<1> QED BY <1>2, <1>5, <1>6, <1>7, <1>8, SameBuffersInv
-----------------------------------------------------------------------------
(* The operations on the buffers. *)

LEMMA FormatsKept ==
  ASSUME FormatInv, ctx = "live", kind' = kind, drv'.fmt = drv.fmt,
         \A p \in Ports : port'[p].geom = port[p].geom
  PROVE  FormatInv'
BY DEF FormatInv, Pixels, Coded

\* What a step at one port leaves of the other.
LEMMA OtherPort ==
  ASSUME NEW p \in Ports, NEW q \in Ports, q # p, OnlyPort(p), ctx = "live", ctx' = "live",
         \A x \in Pieces(q) : x \in heap' <=> x \in heap, Typed
  PROVE  /\ port'[q] = port[q] /\ Memory(q)' = Memory(q) /\ Foreign(q)' = Foreign(q)
         /\ Dangling(q)' = Dangling(q) /\ Usable(q)' = Usable(q)
         /\ MapsOf(q)' = MapsOf(q) /\ (MapsOf(q) \subseteq heap => MapsOf(q) \subseteq heap')
<1>1. port'[q] = port[q]
  BY DEF OnlyPort
<1>2. ArrayOf(q)' = ArrayOf(q) /\ MapsOf(q)' = MapsOf(q)
  BY <1>1 DEF ArrayOf, MapsOf, MapAt
<1>3. ArrayOf(q) \in Pieces(q) /\ MapsOf(q) \subseteq Pieces(q)
  BY OwnPieces
<1>4. Dangling(q)' = Dangling(q)
  BY <1>1, <1>2, <1>3 DEF Dangling
<1>5. Usable(q)' = Usable(q)
  BY <1>1, <1>4 DEF Usable
<1> QED BY <1>1, <1>2, <1>3, <1>4, <1>5 DEF Memory, Foreign

LEMMA SetShareableInv == ASSUME IInv, SetShareable PROVE IInv'
<1>1. PICK p \in Ports :
       /\ port' = [port EXCEPT ![p].shared = TRUE]
       /\ lost' = lost \cup (MapsOf(p) \cap heap)
       /\ slips' = slips \cup {l \in {"share"} : port[p].array # 0}
  BY DEF SetShareable
<1>2. /\ ctx = "live" /\ ctx' = "live" /\ told' = Nothing /\ kind' = kind /\ drv' = drv
      /\ heap' = heap /\ harm' = harm
  BY DEF SetShareable
<1>3. /\ OnlyPort(p) /\ port'[p] = [port[p] EXCEPT !.shared = TRUE]
      /\ port[p] \in PortStates
  BY <1>1 DEF OnlyPort, IInv, Typed
<1>4. /\ port'[p].shared = TRUE /\ port'[p].array = port[p].array /\ port'[p].addr = port[p].addr
      /\ port'[p].made = port[p].made /\ port'[p].n = port[p].n /\ port'[p].geom = port[p].geom
  BY <1>3 DEF PortStates
<1>5. Typed'
  BY <1>1, <1>2 DEF IInv, Typed, PortStates
<1>6. Released(p)' = {ArrayOf(p)}
  BY <1>4 DEF Released, ArrayOf
<1>7. /\ Released(p) \subseteq {ArrayOf(p)} \cup MapsOf(p) /\ ArrayOf(p) \in Released(p)
      /\ MapsOf(p) \subseteq Pieces(p)
  BY OwnPieces DEF IInv
<1>8. ArrayOf(p) \notin MapsOf(p)
  BY PieceNames DEF ArrayOf, MapsOf, MapAt
<1>9. Numbered /\ Divided /\ MapsHeld
  BY <1>2 DEF IInv, HeapInv
<1>10. lost \cap Released(p) = {}
  BY <1>9 DEF Divided, Ports
<1>11. Divided'
  <2> DEFINE forgot == MapsOf(p) \cap heap
  <2>1. heap' = (heap \ {}) \cup {} /\ lost' = lost \cup forgot
    BY <1>1, <1>2
  <2>2. /\ (heap \cap Released(p)) \ {} \subseteq forgot \cup Released(p)'
        /\ (forgot \cup lost) \cap Released(p)' = {}
    BY <1>6, <1>7, <1>8, <1>10
  <2>3. forgot \subseteq heap \ {} /\ forgot \subseteq Pieces(p)
    BY <1>7
  <2> HIDE DEF forgot
  <2> QED BY <1>3, <1>5, <1>9, <2>1, <2>2, <2>3, Redivided DEF IInv
<1>12. Numbered'
  BY <1>2, <1>3, <1>4, <1>9 DEF Numbered, OnlyPort
<1>13. \A q \in Ports : q # p =>
          /\ port'[q] = port[q] /\ Memory(q)' = Memory(q) /\ Foreign(q)' = Foreign(q)
          /\ Dangling(q)' = Dangling(q) /\ Usable(q)' = Usable(q) /\ MapsOf(q)' = MapsOf(q)
  BY <1>2, <1>3, OtherPort DEF IInv
<1>14. MapsHeld'
  BY <1>2, <1>4, <1>9, <1>13 DEF MapsHeld
<1>15. Dangling(p)' = Dangling(p)
  BY <1>2, <1>4 DEF Dangling, ArrayOf
<1>16. SlipInv'
  BY <1>1, <1>2, <1>4, <1>13, <1>15 DEF IInv, SlipInv
<1>17. MemoryInv'
  BY <1>1, <1>2, <1>4, <1>13 DEF IInv, MemoryInv, Usable
<1>18. FormatInv'
  BY <1>2, <1>3, <1>4, FormatsKept DEF IInv, OnlyPort
<1> QED
  BY <1>2, <1>5, <1>11, <1>12, <1>14, <1>16, <1>17, <1>18 DEF IInv, HeapInv, ToldInv, Nothing

\* Some slots of an array in use get another address; the maps that were there
\* are forgotten.
Relabelled(p, taken, address) ==
  /\ port' = [port EXCEPT ![p].addr = [s \in Slots |-> IF s \in taken THEN address ELSE @[s]]]
  /\ lost' = lost \cup {MapAt(p, s) : s \in {t \in taken : port[p].addr[t] = "map" /\ ~port[p].shared}}

LEMMA RelabelInv ==
  ASSUME IInv, NEW p \in Ports, Usable(p), NEW taken \in SUBSET Slots, NEW address \in {"null", "user"},
         Relabelled(p, taken, address), UNCHANGED <<kind, ctx, drv, heap, harm>>, told' = Nothing,
         slips \subseteq slips', address = "user" /\ ~port[p].shared => "register" \in slips'
  PROVE  IInv'
<1> DEFINE forgot == {MapAt(p, s) : s \in {t \in taken : port[p].addr[t] = "map" /\ ~port[p].shared}}
           addresses == [s \in Slots |-> IF s \in taken THEN address ELSE port[p].addr[s]]
<1>1. ctx = "live" /\ ctx' = "live" /\ heap' = heap /\ lost' = lost \cup forgot
  BY DEF Usable, Relabelled
<1>2. port[p] \in PortStates /\ port[p].addr \in [Slots -> Addresses]
  BY PortTyped DEF IInv
<1>3. OnlyPort(p) /\ port'[p] = [port[p] EXCEPT !.addr = addresses]
  BY DEF OnlyPort, Relabelled, IInv, Typed
<1>4. /\ port'[p].shared = port[p].shared /\ port'[p].array = port[p].array
      /\ port'[p].made = port[p].made /\ port'[p].n = port[p].n /\ port'[p].geom = port[p].geom
      /\ port'[p].addr = addresses
  BY <1>2, <1>3 DEF PortStates
<1>5. Typed'
  <2>1. addresses \in [Slots -> Addresses]
    BY <1>2 DEF Addresses
  <2>2. port'[p] \in PortStates
    BY <1>2, <1>3, <2>1 DEF PortStates
  <2> QED BY <1>3, <2>2 DEF IInv, Typed, Relabelled
<1>6. MapsOf(p)' = {MapAt(p, s) : s \in {t \in Slots : t \notin taken /\ port[p].addr[t] = "map"}}
  BY <1>2, <1>4 DEF MapsOf, MapAt
<1>7. /\ Numbered /\ Divided /\ MapsHeld
      /\ Released(p) \subseteq Pieces(p) /\ MapsOf(p) \subseteq Pieces(p)
      /\ ~port[p].shared => Released(p) = {ArrayOf(p)} \cup MapsOf(p)
      /\ port[p].shared => Released(p) = {ArrayOf(p)}
  BY <1>1, OwnPieces DEF IInv, HeapInv
<1>8. Released(p)' = {ArrayOf(p)} \cup (IF port[p].shared THEN {} ELSE MapsOf(p)')
  BY <1>4 DEF Released, ArrayOf
<1>9. forgot \subseteq MapsOf(p) /\ (port[p].shared => forgot = {})
  BY DEF MapsOf
<1>10. MapsOf(p)' \subseteq MapsOf(p) /\ MapsOf(p) \ forgot \subseteq (IF port[p].shared THEN MapsOf(p) ELSE MapsOf(p)')
  BY <1>6 DEF MapsOf
<1>11. forgot \cap MapsOf(p)' = {}
  BY <1>6, PieceNames DEF MapAt
<1>12. ArrayOf(p) \notin MapsOf(p)
  BY PieceNames DEF ArrayOf, MapsOf, MapAt
<1>13. ~port[p].shared => MapsOf(p) \subseteq heap
  BY <1>7 DEF MapsHeld
<1>14. lost \cap Released(p) = {}
  BY <1>7 DEF Divided, Ports
<1> HIDE DEF forgot, addresses
<1>15. Divided'
  <2>1. heap' = (heap \ {}) \cup {}
    BY <1>1
  <2>2. /\ (heap \cap Released(p)) \ {} \subseteq forgot \cup Released(p)'
        /\ (forgot \cup lost) \cap Released(p)' = {}
    BY <1>7, <1>8, <1>9, <1>10, <1>11, <1>12, <1>14
  <2>3. forgot \subseteq heap \ {} /\ forgot \subseteq Pieces(p)
    BY <1>7, <1>9, <1>13
  <2> QED BY <1>1, <1>3, <1>5, <1>7, <2>1, <2>2, <2>3, Redivided DEF IInv
<1>16. Numbered'
  BY <1>1, <1>3, <1>4, <1>7 DEF Numbered, OnlyPort
<1>17. \A q \in Ports : q # p =>
          /\ port'[q] = port[q] /\ Memory(q)' = Memory(q) /\ Foreign(q)' = Foreign(q)
          /\ Dangling(q)' = Dangling(q) /\ Usable(q)' = Usable(q) /\ MapsOf(q)' = MapsOf(q)
  BY <1>1, <1>3, OtherPort DEF IInv
<1>18. Dangling(p)' = Dangling(p) /\ Usable(p)' = Usable(p) /\ Memory(p)' = Memory(p)
  BY <1>1, <1>4 DEF Usable, Dangling, ArrayOf, Memory
<1>19. MapsHeld'
  BY <1>1, <1>4, <1>7, <1>10, <1>17, <1>18 DEF MapsHeld
<1>20. Foreign(p)' => Foreign(p) \/ address = "user"
  BY <1>4 DEF Foreign, addresses
<1>21. SlipInv'
  BY <1>1, <1>4, <1>17, <1>18, <1>20 DEF IInv, SlipInv
<1>22. MemoryInv'
  BY <1>17, <1>18 DEF IInv, MemoryInv
<1>23. FormatInv'
  BY <1>1, <1>3, <1>4, FormatsKept DEF IInv, OnlyPort
<1> QED
  BY <1>1, <1>5, <1>15, <1>16, <1>19, <1>21, <1>22, <1>23 DEF IInv, HeapInv, ToldInv, Nothing

LEMMA RegisterInv == ASSUME IInv, NEW p \in Ports, Register(p) PROVE IInv'
<1> DEFINE i == CHOOSE j \in Unregistered(p) : \A k \in Unregistered(p) : j <= k
           taken == {s \in Slots : s[1] = i /\ s[2] < Planes(p)}
<1>1. /\ Usable(p) /\ Relabelled(p, taken, "user")
      /\ UNCHANGED <<kind, ctx, drv, heap, harm>> /\ told' = Nothing
      /\ slips' = IF port[p].shared THEN slips ELSE slips \cup {"register"}
  BY DEF Register, Relabelled
<1>2. taken \in SUBSET Slots
  OBVIOUS
<1> HIDE DEF taken
<1> QED BY <1>1, <1>2, RelabelInv

LEMMA ClearRegisteredInv == ASSUME IInv, NEW p \in Ports, ClearRegistered(p) PROVE IInv'
<1> DEFINE cleared == {s \in Slots : s[1] < port[p].n /\ s[2] = 0}
<1>1. /\ Usable(p) /\ Relabelled(p, cleared, "null")
      /\ UNCHANGED <<kind, ctx, drv, heap, harm>> /\ told' = Nothing /\ slips' = slips
  BY DEF ClearRegistered, Relabelled
<1>2. cleared \in SUBSET Slots
  OBVIOUS
<1> HIDE DEF cleared
<1> QED BY <1>1, <1>2, RelabelInv
-----------------------------------------------------------------------------
(* Setup. *)

\* What asking for buffers changes of the driver.
LEMMA RequestedValue ==
  ASSUME Typed, NEW p \in Ports, Requested(p)
  PROVE  /\ drv' \in [memory : [Ports -> {"none", "mmap", "user"}], fmt : [Ports -> Formats]]
         /\ drv'.fmt = drv.fmt /\ drv'.memory[p] = Memory(p)
         /\ \A q \in Ports : q # p => drv'.memory[q] = drv.memory[q]
<1>1. Memory(p) \in {"mmap", "user"}
  BY DEF Memory
<1> QED BY <1>1 DEF Requested, Typed

\* A Setup that gives up frees the array that was in use, or dies of freeing it
\* again.
LEMMA GiveUpInv ==
  ASSUME IInv, ctx = "live", NEW p \in Ports, GiveUp(p), UNCHANGED drv \/ Requested(p),
         kind' = kind, told' = Nothing
  PROVE  IInv'
<1>1. /\ harm' = harm \cup Wrong(p) /\ ctx' = After(Wrong(p), ctx)
      /\ heap' = heap \ Released(p) /\ slips' = slips \cup {"setup"}
      /\ port' = port /\ lost' = lost
  BY DEF GiveUp
<1>2. /\ drv' \in [memory : [Ports -> {"none", "mmap", "user"}], fmt : [Ports -> Formats]]
      /\ drv'.fmt = drv.fmt
      /\ \A q \in Ports : q # p => drv'.memory[q] = drv.memory[q]
  BY RequestedValue DEF IInv, Typed
<1>3. Typed'
  BY <1>1, <1>2 DEF IInv, Typed
<1>4. "foreign" \in harm' => "register" \in slips'
  BY <1>1 DEF Wrong, IInv, SlipInv
<1>5. CASE Dangling(p)
  <2>1. ctx' = "dead"
    BY <1>1, <1>5 DEF After, Wrong
  <2> QED BY <1>1, <1>3, <1>4, <2>1, NotLiveInv DEF IInv
<1>6. CASE ~Dangling(p)
  <2>1. ctx' = "live"
    BY <1>1, <1>6 DEF After, Wrong
  <2>2. OnlyPort(p) /\ Released(p)' = Released(p)
    BY <1>1 DEF OnlyPort, Released, ArrayOf, MapsOf, MapAt
  <2>3. Numbered /\ Divided /\ MapsHeld /\ Released(p) \subseteq Pieces(p) /\ ArrayOf(p) \in Released(p)
    BY OwnPieces DEF IInv, HeapInv
  <2>4. lost \cap Released(p) = {}
    BY <2>3 DEF Divided, Ports
  <2>5. Divided'
    <3>1. heap' = (heap \ Released(p)) \cup {} /\ lost' = lost \cup {}
      BY <1>1
    <3>2. /\ (heap \cap Released(p)) \ Released(p) \subseteq {} \cup Released(p)'
          /\ ({} \cup lost) \cap Released(p)' = {}
      BY <2>2, <2>4
    <3> QED BY <1>3, <2>2, <2>3, <3>1, <3>2, Redivided DEF IInv
  <2>6. Numbered'
    BY <1>1, <2>3 DEF Numbered
  <2>7. \A q \in Ports : q # p => \A x \in Pieces(q) : x \in heap' <=> x \in heap
    BY <1>1, <2>3, PieceFacts DEF Ports
  <2>8. \A q \in Ports : q # p =>
            /\ port'[q] = port[q] /\ Memory(q)' = Memory(q) /\ Foreign(q)' = Foreign(q)
            /\ Dangling(q)' = Dangling(q) /\ Usable(q)' = Usable(q) /\ MapsOf(q)' = MapsOf(q)
            /\ (MapsOf(q) \subseteq heap => MapsOf(q) \subseteq heap')
    BY <2>1, <2>2, <2>7, OtherPort DEF IInv
  <2>9. ~Usable(p)'
    BY <1>1, <2>3 DEF Usable, Dangling, ArrayOf
  <2>10. MapsHeld'
    BY <1>1, <2>3, <2>8, <2>9 DEF MapsHeld
  <2>11. Foreign(p)' = Foreign(p)
    BY <1>1 DEF Foreign
  <2>12. SlipInv'
    BY <1>1, <1>4, <2>8, <2>11 DEF IInv, SlipInv
  <2>13. MemoryInv'
    BY <1>1, <1>2, <2>8, <2>9 DEF IInv, MemoryInv
  <2>14. FormatInv'
    BY <1>1, <1>2, FormatsKept DEF IInv
  <2> QED
    BY <1>3, <2>1, <2>5, <2>6, <2>10, <2>12, <2>13, <2>14 DEF IInv, HeapInv, ToldInv, Nothing
<1> QED BY <1>5, <1>6

\* The pointer is overwritten, by NULL or by the next array: what it pointed to
\* is forgotten, and nothing of the new array was there before.
LEMMA OverwriteInv ==
  ASSUME IInv, ctx = "live", ctx' = "live", NEW p \in Ports, Requested(p),
         NEW pointer \in {0, port[p].made + 1}, NEW count \in Nat, NEW filled \in [Slots -> {"null", "map"}],
         Overwritten(p, pointer, count, filled), kind' = kind, told' = Nothing, harm' = harm,
         slips \subseteq slips',
         \/ filled = NoAddress /\ heap' = heap /\ "setup" \in slips'
         \/ /\ pointer = port[p].made + 1
            /\ heap' = heap \cup {<<"array", p, pointer>>}
                         \cup {<<"map", p, pointer, s>> : s \in {t \in Slots : filled[t] = "map"}}
            /\ port[p].shared => filled = NoAddress
  PROVE  IInv'
<1> DEFINE maps == {<<"map", p, pointer, s>> : s \in {t \in Slots : filled[t] = "map"}}
           forgot == Forgotten(p)
           got == IF heap' = heap THEN {} ELSE {<<"array", p, pointer>>} \cup maps
<1>1. lost' = lost \cup forgot
  BY DEF Overwritten
<1>2. port[p] \in PortStates /\ port[p].made \in Nat /\ pointer \in Nat
  BY PortTyped DEF IInv
<1>3. /\ OnlyPort(p)
      /\ port'[p] = [port[p] EXCEPT !.array = pointer, !.made = port[p].made + 1, !.n = count,
                                    !.addr = filled]
  BY <1>2 DEF OnlyPort, Overwritten, IInv, Typed, PortStates
<1>4. /\ port'[p].array = pointer /\ port'[p].made = port[p].made + 1 /\ port'[p].n = count
      /\ port'[p].addr = filled /\ port'[p].shared = port[p].shared /\ port'[p].geom = port[p].geom
  BY <1>2, <1>3 DEF PortStates
<1>5. /\ drv' \in [memory : [Ports -> {"none", "mmap", "user"}], fmt : [Ports -> Formats]]
      /\ drv'.fmt = drv.fmt /\ drv'.memory[p] = Memory(p)
      /\ \A q \in Ports : q # p => drv'.memory[q] = drv.memory[q]
  BY RequestedValue DEF IInv
<1>6. Typed'
  <2>1. filled \in [Slots -> Addresses]
    BY DEF Addresses
  <2> DEFINE renamed == [port[p] EXCEPT !.array = pointer]
             counted == [renamed EXCEPT !.made = port[p].made + 1]
             sized   == [counted EXCEPT !.n = count]
  <2>2. renamed \in PortStates
    BY <1>2 DEF PortStates
  <2>3. counted \in PortStates
    <3> HIDE DEF renamed
    <3> QED BY <1>2, <2>2 DEF PortStates
  <2>4. sized \in PortStates
    <3> HIDE DEF counted
    <3> QED BY <2>3 DEF PortStates
  <2>5. [sized EXCEPT !.addr = filled] \in PortStates
    <3> HIDE DEF sized
    <3> QED BY <2>1, <2>4 DEF PortStates
  <2>6. port'[p] \in PortStates
    BY <1>3, <2>5
  <2>7. port' \in [Ports -> PortStates]
    BY <1>3, <2>6 DEF OnlyPort, Overwritten, IInv, Typed
  <2> QED BY <1>5, <2>7 DEF IInv, Typed
<1>7. Numbered /\ Divided /\ MapsHeld
  BY DEF IInv, HeapInv
<1>8. ArrayOf(p)' = <<"array", p, pointer>> /\ MapsOf(p)' = maps
  BY <1>4 DEF ArrayOf, MapsOf, MapAt
<1>9. /\ Released(p) \subseteq {ArrayOf(p)} \cup MapsOf(p)
      /\ Released(p) \subseteq Pieces(p) /\ forgot \subseteq Pieces(p)
  BY OwnPieces DEF IInv
<1>10. <<"array", p, pointer>> \notin heap
  BY <1>2, <1>7 DEF Numbered
<1>11. maps \cap heap = {}
  <2>1. CASE pointer = port[p].made + 1
    BY <1>2, <1>7, <2>1 DEF Numbered
  <2>2. CASE filled = NoAddress
    BY <2>2 DEF NoAddress
  <2>3. pointer = port[p].made + 1 \/ filled = NoAddress
    OBVIOUS
  <2> QED BY <2>1, <2>2, <2>3
<1>12. heap' = (heap \ {}) \cup got
  OBVIOUS
<1>13. Released(p)' = {<<"array", p, pointer>>} \cup (IF port[p].shared THEN {} ELSE maps)
  BY <1>4, <1>8 DEF Released
<1>14. maps = {} \/ ~port[p].shared
  BY DEF NoAddress
<1>15. /\ forgot \subseteq heap /\ heap \cap Released(p) \subseteq forgot
       /\ got \subseteq Released(p)' /\ Released(p)' \cap heap = {}
  BY <1>9, <1>10, <1>11, <1>13, <1>14 DEF Forgotten
<1>16. got \subseteq Pieces(p)
  BY <1>2 DEF Pieces
<1>17. \/ filled = NoAddress /\ heap' = heap /\ "setup" \in slips'
       \/ pointer = port[p].made + 1 /\ <<"array", p, pointer>> \in heap' /\ maps \subseteq heap'
  OBVIOUS
<1>18. filled = NoAddress => maps = {}
  BY DEF NoAddress
<1>19. Numbered'
  <2> SUFFICES ASSUME NEW q \in Ports
               PROVE  /\ port'[q].array <= port'[q].made
                      /\ \A k \in Nat : <<"array", q, k>> \in heap' => k > 0 /\ k <= port'[q].made
                      /\ \A k \in Nat, s \in Slots : <<"map", q, k, s>> \in heap' => k <= port'[q].made
    BY DEF Numbered
  <2>1. \A k \in Nat : <<"array", q, k>> \in got => q = p /\ k = pointer /\ pointer > 0
    BY <1>2, <1>17, PieceNames
  <2>2. \A k \in Nat, s \in Slots : <<"map", q, k, s>> \in got => q = p /\ k = pointer
    BY PieceNames
  <2> HIDE DEF got, maps
  <2>3. port[q].made \in Nat /\ port[q].array \in Nat
    BY PortTyped DEF IInv
  <2>4. CASE q = p
    BY <1>2, <1>4, <1>7, <1>12, <2>1, <2>2, <2>3, <2>4 DEF Numbered
  <2>5. CASE q # p
    BY <1>3, <1>7, <1>12, <2>1, <2>2, <2>3, <2>5 DEF Numbered, OnlyPort
  <2> QED BY <2>4, <2>5
<1> HIDE DEF got, maps, forgot
<1>20. Divided'
  <2>1. lost \subseteq heap
    BY <1>7 DEF Divided
  <2>2. /\ (heap \cap Released(p)) \ {} \subseteq forgot \cup Released(p)'
        /\ (forgot \cup lost) \cap Released(p)' = {}
        /\ forgot \subseteq heap \ {}
    BY <1>15, <2>1
  <2> QED BY <1>1, <1>3, <1>6, <1>7, <1>9, <1>12, <1>15, <2>2, Redivided DEF IInv
<1>21. \A q \in Ports : q # p => \A x \in Pieces(q) : x \in heap' <=> x \in heap
  BY <1>12, <1>16, PieceFacts DEF Ports
<1>22. \A q \in Ports : q # p =>
          /\ port'[q] = port[q] /\ Memory(q)' = Memory(q) /\ Foreign(q)' = Foreign(q)
          /\ Dangling(q)' = Dangling(q) /\ Usable(q)' = Usable(q) /\ MapsOf(q)' = MapsOf(q)
          /\ (MapsOf(q) \subseteq heap => MapsOf(q) \subseteq heap')
  BY <1>3, <1>21, OtherPort DEF IInv
<1>23. MapsHeld'
  BY <1>7, <1>8, <1>17, <1>18, <1>22 DEF MapsHeld
<1>24. ~Foreign(p)'
  BY <1>4 DEF Foreign
<1>25. Dangling(p)' \/ pointer = 0 => "setup" \in slips'
  BY <1>2, <1>8, <1>17 DEF Dangling
<1>26. SlipInv'
  BY <1>4, <1>22, <1>24, <1>25 DEF IInv, SlipInv
<1>27. Memory(p)' = Memory(p)
  BY <1>4 DEF Memory
<1>28. MemoryInv'
  BY <1>5, <1>22, <1>27 DEF IInv, MemoryInv
<1>29. FormatInv'
  BY <1>3, <1>4, <1>5, FormatsKept DEF IInv, OnlyPort
<1> QED
  BY <1>6, <1>19, <1>20, <1>23, <1>26, <1>28, <1>29 DEF IInv, HeapInv, ToldInv, Nothing

LEMMA MappedTyped ==
  ASSUME NEW p \in Ports, NEW count
  PROVE  /\ Mapped(p, count) \in [Slots -> {"null", "map"}]
         /\ port[p].shared => Mapped(p, count) = NoAddress
BY DEF Mapped, NoAddress

LEMMA SetupInv == ASSUME IInv, Setup PROVE IInv'
<1>1. ctx = "live" /\ told' = Nothing /\ kind' = kind
  BY DEF Setup
<1>2. CASE \E p \in Ports : RequestFails(p) \/ CountDiffers(p)
  BY <1>1, <1>2, GiveUpInv DEF RequestFails, CountDiffers
<1>3. ASSUME NEW p \in Ports, NEW count \in 1 .. MaxBufs,
             NoMemory(p, count) \/ MapFails(p, count) \/ Filled(p, count)
      PROVE  IInv'
  <2>1. NoAddress \in [Slots -> {"null", "map"}] /\ count \in Nat
    BY DEF NoAddress
  <2>2. CASE NoMemory(p, count)
    <3>1. /\ Requested(p) /\ Overwritten(p, 0, count, NoAddress)
          /\ slips' = slips \cup {"setup"} /\ heap' = heap /\ harm' = harm /\ ctx' = "live"
      BY <1>1, <2>2 DEF NoMemory
    <3> QED BY <1>1, <2>1, <3>1, OverwriteInv
  <2>3. CASE MapFails(p, count)
    <3>1. /\ Requested(p) /\ Overwritten(p, port[p].made + 1, count, NoAddress)
          /\ slips' = slips \cup {"setup"} /\ heap' = heap /\ harm' = harm /\ ctx' = "live"
      BY <1>1, <2>3 DEF MapFails
    <3> QED BY <1>1, <2>1, <3>1, OverwriteInv
  <2>4. CASE Filled(p, count)
    <3> DEFINE made == port[p].made + 1
               filled == Mapped(p, count)
    <3>1. /\ Requested(p) /\ Overwritten(p, made, count, filled)
          /\ heap' = heap \cup {<<"array", p, made>>}
                       \cup {<<"map", p, made, s>> : s \in {t \in Slots : filled[t] = "map"}}
          /\ slips' = slips /\ harm' = harm /\ ctx' = "live"
      BY <1>1, <2>4 DEF Filled
    <3>2. filled \in [Slots -> {"null", "map"}] /\ (port[p].shared => filled = NoAddress)
      BY MappedTyped
    <3> HIDE DEF filled
    <3> QED BY <1>1, <2>1, <3>1, <3>2, OverwriteInv
  <2> QED BY <1>3, <2>2, <2>3, <2>4
<1>4. "in" \in Ports /\ "out" \in Ports
  BY DEF Ports
<1> QED
  BY <1>2, <1>3, <1>4 DEF Setup, SetupDec, SetupEncIn, SetupEncOut
-----------------------------------------------------------------------------
LEMMA StutterInv == ASSUME IInv, UNCHANGED vars PROVE IInv'
<1>1. /\ kind' = kind /\ ctx' = ctx /\ port' = port /\ drv' = drv /\ told' = told
      /\ heap' = heap /\ lost' = lost /\ harm' = harm /\ slips' = slips
  BY DEF vars
<1> QED
  BY <1>1 DEF IInv, Typed, HeapInv, Numbered, Divided, MapsHeld, Base, Released, ArrayOf,
     MapsOf, MapAt, SlipInv, Dangling, Foreign, MemoryInv, Usable, Memory, FormatInv, Pixels, Coded,
     ToldInv

LEMMA NextInv == IInv /\ [Next]_vars => IInv'
<1> SUFFICES ASSUME IInv, [Next]_vars PROVE IInv'
  OBVIOUS
<1>1. CASE \E p \in Ports : \/ Register(p) \/ ClearRegistered(p)
                            \/ SetGeometryDec(p) \/ SetGeometryEnc(p)
                            \/ \E on \in BOOLEAN : Stream(p, on)
  BY <1>1, RegisterInv, ClearRegisteredInv, SetGeometryInv, StreamInv
     DEF SetGeometryDec, SetGeometryEnc
<1> QED
  BY <1>1, StutterInv, OpenInv, OpenFailsInv, FinalizeInv, RestartInv, SetupInv, SetShareableInv,
     ControlInv, SetEncParamInv DEF Next

LEMMA Invariance == Spec => []IInv
BY InitInv, NextInv, PTL DEF Spec

\* However many Setups, with however many buffers, whatever failed on the way: a
\* context that is closed has left nothing but what calls out of order made it
\* forget.
THEOREM ContextLeaksNothing == Spec => []NothingLeaked
<1>1. IInv => NothingLeaked
  BY DEF IInv, HeapInv, NothingLeaked
<1> QED BY <1>1, Invariance, PTL

\* Neither Finalize nor the EXIT of Setup frees twice, follows NULL or unmaps the
\* caller's memory, and Get_Buffer gives out no stray pointer, before one of the
\* calls that are named has gone wrong.
THEOREM ContextFreesItsOwn == Spec => []FreesOnlyOwn
<1>1. IInv => FreesOnlyOwn
  <2> SUFFICES ASSUME IInv, ctx = "live", GetBuffer(0) = "stray" PROVE "setup" \in slips
    BY DEF IInv, SlipInv, FreesOnlyOwn
  <2>1. "out" \in Ports
    BY DEF Ports
  <2>2. port["out"].n \in Nat
    BY <2>1, PortTyped DEF IInv
  <2>3. (port["out"].array = 0 /\ port["out"].n > 0) \/ Dangling("out")
    BY <2>2 DEF GetBuffer
  <2> QED BY <2>1, <2>3 DEF IInv, SlipInv
<1> QED BY <1>1, Invariance, PTL

\* Enqueue names the memory type its queue was set up with.
THEOREM QueueIsOfItsMemory == Spec => []MemoryAgrees
<1>1. IInv => MemoryAgrees
  BY DEF IInv, MemoryInv, MemoryAgrees
<1> QED BY <1>1, Invariance, PTL

\* A colour survives both translations.
LEMMA ColorsReturn == \A c \in Colors : ColorOf(ColorPixels(c)) = c
BY DEF Colors, ColorOf, ColorPixels

\* The driver is told what the caller said, for every codec and every geometry.
THEOREM DriverKnows == Spec => []DriverIsTold
<1>1. IInv => DriverIsTold
  <2> SUFFICES ASSUME IInv, ctx = "live", NEW p \in Ports, port[p].geom # Unset
               PROVE  IF kind = "enc" THEN GetGeometryEnc(p, Unset).size = port[p].geom.size
                      ELSE p = "out" => GetGeometryDec(Unset).format = port[p].geom.format
    BY ColorsReturn DEF IInv, ToldInv, DriverIsTold
  <2>1. /\ drv.fmt[p] = Pixels(p, port[p].geom)
        /\ ~Coded(p) => port[p].geom.format \in Colors
    BY DEF IInv, FormatInv
  <2>2. port[p].geom \in Formats
    BY PortTyped DEF IInv
  <2>3. /\ Pixels(p, port[p].geom).size = port[p].geom.size
        /\ ~Coded(p) => Pixels(p, port[p].geom).format = ColorPixels(port[p].geom.format)
    BY <2>2, PixelsTyped
  <2>4. CASE kind = "enc"
    BY <2>1, <2>3, <2>4 DEF GetGeometryEnc, Unset
  <2>5. CASE kind # "enc" /\ p = "out"
    <3>1. ~Coded(p)
      BY <2>5 DEF Coded, IInv, Typed
    <3>2. ColorOf(drv.fmt[p].format) = port[p].geom.format
      BY <2>1, <2>3, <3>1, ColorsReturn
    <3> QED BY <2>5, <3>2 DEF GetGeometryDec, Unset
  <2> QED BY <2>4, <2>5
<1> QED BY <1>1, Invariance, PTL
=============================================================================
