--------------------------------- MODULE Gop ---------------------------------
(***************************************************************************)
(* The graphics output protocol (proto/console/gop.rs): the iterator over   *)
(* the modes, block transfers and the direct frame buffer.  Lengths are in  *)
(* pixels (blt) or bytes (FrameBuffer), and usize ends at GopUMax.          *)
(***************************************************************************)
EXTENDS Integers, Sequences, FiniteSets, FiniteSetsExt

CONSTANTS
    GopUMax,        \* usize::MAX
    Modes,          \* what a mode can be: [ok, width, height, format, size];
                    \* query_mode fails for one that is not ok
    MaxMode,        \* the number of modes the device announces
    Coords,         \* the coordinates and dimensions an application passes
    Strides,        \* the strides it passes
    PixelLens       \* the lengths of its buffers of BltPixel

ASSUME GopAssumption ==
    /\ GopUMax \in Nat /\ MaxMode \in Nat \ {0}
    /\ Coords \subseteq 0..GopUMax /\ Strides \subseteq 0..GopUMax
    \* A slice of BltPixel spans at most isize::MAX bytes.
    /\ \A len \in PixelLens : len \in Nat /\ 4 * len <= GopUMax \div 2
    \* Resolutions are of 32 bits, and memory ends before usize::MAX.
    /\ \A m \in Modes : {m.width, m.height, m.size} \subseteq 0..GopUMax - 1

VARIABLES
    table,      \* the device's modes
    current,    \* GraphicsOutputProtocolMode.mode
    modeiter,   \* ModeIter: its `current`, and whether next is under way
    modesout,   \* what it has yielded
    infos,      \* the mode informations allocated by the firmware and not freed
    access      \* what the last transfer or frame buffer access touched

gopvars == <<table, current, modeiter, modesout, infos, access>>

NoIter == [pc |-> "none", current |-> 0]
NoAccess == [op |-> "none"]

saturating_add(a, b) == Min({a + b, GopUMax})
saturating_mul(a, b) == Min({a * b, GopUMax})

GopInit ==
    /\ table \in [0..MaxMode - 1 -> Modes]
    /\ current \in {i \in DOMAIN table : table[i].ok}
    /\ modeiter = NoIter /\ modesout = <<>> /\ infos = {} /\ access = NoAccess

(***************************************************************************)
(* Modes.  The iterator borrows the protocol, so nothing else is called     *)
(* while one lives.                                                         *)
(***************************************************************************)
modes ==
    /\ modeiter.pc = "none" /\ access = NoAccess
    /\ modeiter' = [pc |-> "idle", current |-> 0]
    /\ modesout' = <<>>
    /\ UNCHANGED <<table, current, infos, access>>

\* The firmware allocates the information; query_mode copies and frees it.
query_mode ==
    /\ modeiter.pc = "query"
    /\ modeiter.current < MaxMode
    /\ table[modeiter.current].ok
    /\ infos' = infos \union {modeiter.current}
    /\ modeiter' = [modeiter EXCEPT !.pc = "free"]
    /\ UNCHANGED <<table, current, modesout, access>>

free_info ==
    /\ modeiter.pc = "free" /\ access = NoAccess
    /\ infos' = infos \ {modeiter.current}
    /\ modesout' = Append(modesout, modeiter.current)
    /\ modeiter' = [pc |-> "idle", current |-> modeiter.current + 1]
    /\ UNCHANGED <<table, current, access>>

ModeNext ==
    /\ modeiter.pc = "idle"
    /\ modeiter' = [modeiter EXCEPT !.pc = "query"]
    /\ UNCHANGED <<table, current, modesout, infos, access>>

\* A failed query makes next call itself for the following mode; without
\* another mode it returns None.
AfterBroken == [modeiter EXCEPT !.current = @ + 1]

NextSkips ==
    /\ modeiter.pc = "query"
    /\ IF modeiter.current < MaxMode
          THEN ~table[modeiter.current].ok /\ modeiter' = AfterBroken
          ELSE modeiter' = [modeiter EXCEPT !.pc = "end"]
    /\ UNCHANGED <<table, current, modesout, infos, access>>

DropModes ==
    /\ modeiter.pc \in {"idle", "end"}
    /\ modeiter' = NoIter /\ modesout' = <<>>
    /\ UNCHANGED <<table, current, infos, access>>

\* size_hint, and with it len of ExactSizeIterator.
size_hint == MaxMode - modeiter.current

set_mode(i) ==
    /\ modeiter.pc = "none" /\ access = NoAccess
    /\ table[i].ok
    /\ current' = i
    /\ UNCHANGED <<table, modeiter, modesout, infos, access>>

(***************************************************************************)
(* Block transfers.  A region of a buffer is Full or a sub-rectangle.       *)
(***************************************************************************)
Full == [kind |-> "full", x |-> 0, y |-> 0, stride |-> 0]
Regions ==
    {Full} \union [kind : {"sub"}, x : Coords, y : Coords, stride : Strides]

resolution == table[current]

check_framebuffer_region(x, y, w, h) ==
    /\ saturating_add(x, w) <= resolution.width
    /\ saturating_add(y, h) <= resolution.height

check_blt_buffer_region_rows(region, w, h, len) ==
    IF region.kind = "full" THEN saturating_mul(h, w) <= len
    ELSE /\ saturating_add(region.x, w) <= region.stride
         /\ saturating_mul(h, region.stride) <= len

check_blt_buffer_region(region, w, h, len) ==
    IF region.kind = "full" THEN saturating_mul(h, w) <= len
    ELSE /\ saturating_add(region.x, w) <= region.stride
         /\ saturating_mul(saturating_add(region.y, h), region.stride) <= len

\* Delta, in bytes: px_stride * size_of::<BltPixel>(), which a release build
\* wraps; zero stands for rows of `w` pixels.
Delta(region) == (region.stride * 4) % (GopUMax + 1)

\* The firmware's side: the pixels of the buffer and of the screen it touches.
BufferPixels(region, w, h) ==
    LET row == IF Delta(region) = 0 THEN w ELSE Delta(region) \div 4
    IN  {(region.y + j) * row + region.x + i : i \in 0..w - 1, j \in 0..h - 1}
ScreenPixels(x, y, w, h) == (x..x + w - 1) \X (y..y + h - 1)

Touches(op, len, pixels, screen) ==
    access' = [op |-> op, len |-> len, pixels |-> pixels, screen |-> screen]
Rejected == access' = [op |-> "panic"]

\* free_pool refuses the information: its expect panics.
free_refused ==
    /\ modeiter.pc = "free" /\ access = NoAccess
    /\ Rejected
    /\ UNCHANGED <<table, current, modeiter, modesout, infos>>

Idle ==
    /\ modeiter.pc = "none" /\ access = NoAccess
    /\ UNCHANGED <<table, current, modeiter, modesout, infos>>

VideoFill ==
    /\ Idle
    /\ \E x, y, w, h \in Coords :
          IF check_framebuffer_region(x, y, w, h)
             THEN Touches("blt", 0, {}, ScreenPixels(x, y, w, h))
             ELSE Rejected

\* VideoToBltBuffer and BufferToVideo: the two checks, in either order.
BufferTransfer ==
    /\ Idle
    /\ \E x, y, w, h \in Coords, region \in Regions, len \in PixelLens :
          IF /\ check_framebuffer_region(x, y, w, h)
             /\ check_blt_buffer_region(region, w, h, len)
             THEN Touches("blt", len, BufferPixels(region, w, h),
                          ScreenPixels(x, y, w, h))
             ELSE Rejected

VideoToVideo ==
    /\ Idle
    /\ \E x, y, u, v, w, h \in Coords :
          IF /\ check_framebuffer_region(x, y, w, h)
             /\ check_framebuffer_region(u, v, w, h)
             THEN Touches("blt", 0, {},
                          ScreenPixels(x, y, w, h) \union ScreenPixels(u, v, w, h))
             ELSE Rejected

(***************************************************************************)
(* FrameBuffer: read_value and write_value of `size` bytes at `index`; the  *)
(* byte variants are those of one byte.  In a release build the caller owes *)
(* what the debug assertion checks.                                         *)
(***************************************************************************)
frame_buffer == resolution.format # "BltOnly"

ValueAccess ==
    /\ Idle
    /\ \E index \in Coords, size \in {1, 2} :
          IF frame_buffer /\ saturating_add(index, size) <= resolution.size
             THEN access' = [op |-> "value", bytes |-> index..index + size - 1]
             ELSE Rejected

\* The panic ends the program; a call that returned is over.
Returned ==
    /\ access.op \notin {"none", "panic"}
    /\ access' = NoAccess
    /\ UNCHANGED <<table, current, modeiter, modesout, infos>>

GopNext ==
    \/ modes \/ ModeNext \/ query_mode \/ free_info \/ NextSkips \/ DropModes
    \/ \E i \in DOMAIN table : set_mode(i)
    \/ VideoFill \/ BufferTransfer \/ VideoToVideo \/ ValueAccess \/ Returned
    \/ free_refused

\* The graphics output on its own, used by any program
GopSpec == GopInit /\ [][GopNext]_gopvars

-----------------------------------------------------------------------------
GopTypeOK ==
    /\ current \in DOMAIN table /\ table[current].ok
    /\ modeiter.pc \in {"none", "idle", "query", "free", "end"}
    /\ modeiter.current \in 0..MaxMode
    /\ infos \subseteq 0..MaxMode - 1

(***************************************************************************)
(* A block transfer that passes the checks of blt touches only pixels of    *)
(* the caller's slice and of the current mode, for every coordinate up to   *)
(* usize::MAX, saturating sums and a wrapping stride included.              *)
(***************************************************************************)
BltInBounds ==
    access.op = "blt" =>
        /\ access.pixels \subseteq 0..access.len - 1
        /\ access.screen \subseteq
               (0..resolution.width - 1) \X (0..resolution.height - 1)

(***************************************************************************)
(* A direct access to the frame buffer stays inside the bytes of the        *)
(* current mode, and none happens in a mode that has only block transfers.  *)
(***************************************************************************)
FrameBufferInBounds ==
    access.op = "value" =>
        /\ resolution.format # "BltOnly"
        /\ access.bytes \subseteq 0..resolution.size - 1

(***************************************************************************)
(* ModeIter yields every mode that can be queried, in order and once, also  *)
(* behind modes whose query fails, and leaves no information allocated.     *)
(* The length size_hint promises (and len of ExactSizeIterator with it) is  *)
(* what it will still yield, unless a mode still to come fails its query:   *)
(* then it yields less.                                                     *)
(***************************************************************************)
ModesComplete ==
    LET good == {i \in DOMAIN table : table[i].ok}
        got  == {modesout[k] : k \in DOMAIN modesout}
    IN  /\ \A j, k \in DOMAIN modesout : j < k => modesout[j] < modesout[k]
        /\ got \subseteq good
        /\ modeiter.pc = "end" => got = good
        /\ modeiter.pc = "idle" =>
               /\ infos = {}
               /\ Cardinality(good \ got) <= size_hint
               /\ (\A i \in modeiter.current..MaxMode - 1 : table[i].ok) =>
                      Cardinality(good \ got) = size_hint

\* Drawing stays inside: block transfers inside the caller's slice and the
\* screen, frame buffer accesses inside the frame buffer (console/gop.rs).
\* The mode iterator yields every mode that can be queried.
GraphicsExact == BltInBounds /\ FrameBufferInBounds /\ ModesComplete
=============================================================================
