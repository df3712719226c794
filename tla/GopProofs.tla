------------------------------ MODULE GopProofs ------------------------------
(***************************************************************************)
(* Proofs about Gop: for every size of usize, table of modes and arguments *)
(* of the application, drawing stays inside the screen and the slice, and  *)
(* the mode iterator yields every mode that can be queried.                *)
(***************************************************************************)
EXTENDS Gop, FiniteSetTheorems, TLAPS

-----------------------------------------------------------------------------
(* The inductive invariant *)

Types ==
    /\ table \in [0..MaxMode - 1 -> Modes]
    /\ current \in 0..MaxMode - 1 /\ table[current].ok
    /\ modeiter \in [pc : {"none", "idle", "query", "free", "end"}, current : 0..MaxMode]
    /\ modesout \in Seq(0..MaxMode - 1)

\* The modes of table t below n that can be queried, and those the iterator has yielded
Good(t, n) == {i \in DOMAIN t : t[i].ok /\ i < n}
Got == {modesout[k] : k \in DOMAIN modesout}

\* The iterator has yielded, in order, what can be queried before its place,
\* and an information is allocated only between the query and its release.
IterInv ==
    /\ \A j, k \in DOMAIN modesout : j < k => modesout[j] < modesout[k]
    /\ Got = Good(table, modeiter.current)
    /\ modeiter.pc = "end" => modeiter.current = MaxMode
    /\ modeiter.pc = "free" => modeiter.current < MaxMode /\ table[modeiter.current].ok
    /\ infos = IF modeiter.pc = "free" THEN {modeiter.current} ELSE {}

IInv == Types /\ IterInv /\ BltInBounds /\ FrameBufferInBounds

-----------------------------------------------------------------------------
(* Saturating arithmetic *)

\* The smaller of two integers, which the saturating operations return
LEMMA MinPair ==
    ASSUME NEW a \in Int, NEW b \in Int
    PROVE  Min({a, b}) = IF a <= b THEN a ELSE b
<1>1. CASE a <= b
  <2>1. \A x \in {a, b} : (\A y \in {a, b} : x <= y) <=> x = a
    BY <1>1
  <2> QED BY <2>1, <1>1 DEF Min
<1>2. CASE ~(a <= b)
  <2>1. \A x \in {a, b} : (\A y \in {a, b} : x <= y) <=> x = b
    BY <1>2
  <2> QED BY <2>1, <1>2 DEF Min
<1> QED BY <1>1, <1>2

\* A saturated sum below usize::MAX is the sum.
LEMMA SumExact ==
    ASSUME NEW a \in Nat, NEW b \in Nat, NEW c \in Nat, c < GopUMax,
           saturating_add(a, b) <= c
    PROVE  a + b <= c
<1>1. a + b \in Int /\ GopUMax \in Int
  BY GopAssumption
<1>2. saturating_add(a, b) = IF a + b <= GopUMax THEN a + b ELSE GopUMax
  BY <1>1, MinPair DEF saturating_add
<1> QED BY <1>1, <1>2

\* A saturated product below usize::MAX is the product.
LEMMA ProductExact ==
    ASSUME NEW a \in Nat, NEW b \in Nat, NEW c \in Nat, c < GopUMax,
           saturating_mul(a, b) <= c
    PROVE  a * b <= c
<1>1. a * b \in Int /\ GopUMax \in Int
  BY GopAssumption
<1>2. saturating_mul(a, b) = IF a * b <= GopUMax THEN a * b ELSE GopUMax
  BY <1>1, MinPair DEF saturating_mul
<1> QED BY <1>1, <1>2

\* Multiplication is monotonic.
LEMMA ProductMonotonic ==
    ASSUME NEW a \in Nat, NEW b \in Nat, NEW s \in Nat, a <= b
    PROVE  a * s \in Nat /\ a * s <= b * s
<1>1. PICK d \in Nat : b = a + d
  <2>1. b - a \in Nat /\ b = a + (b - a)
    OBVIOUS
  <2> QED BY <2>1
<1>2. b * s = a * s + d * s
  BY <1>1
<1>3. a * s \in Nat /\ d * s \in Nat
  BY <1>1
<1> QED BY <1>2, <1>3

\* A factor is at most a product whose other factor is positive.
LEMMA FactorBelow ==
    ASSUME NEW a \in Nat, NEW s \in Nat, a >= 1
    PROVE  s <= a * s
<1>1. 1 * s <= a * s
  BY ProductMonotonic
<1> QED BY <1>1

\* The pixel in row r and column c of rows of s pixels lies before row n.
LEMMA PixelBelow ==
    ASSUME NEW r \in Nat, NEW c \in Nat, NEW s \in Nat, NEW n \in Nat, NEW len \in Nat,
           r < n, c < s, n * s <= len
    PROVE  r * s + c \in 0..len - 1
<1>1. (r + 1) * s <= n * s
  BY ProductMonotonic
<1>2. (r + 1) * s = r * s + s
  OBVIOUS
<1>3. r * s \in Nat /\ n * s \in Nat
  OBVIOUS
<1> QED BY <1>1, <1>2, <1>3

-----------------------------------------------------------------------------
(* The checks of blt and of the frame buffer *)

\* What check_blt_buffer_region accepts keeps the firmware inside the slice:
\* a region whose rows or size do not fit is refused even where a sum or the
\* product saturates, and the stride of one that fits does not wrap.
LEMMA BufferInBounds ==
    ASSUME NEW region \in Regions, NEW w \in Coords, NEW h \in Coords, NEW len \in PixelLens,
           check_blt_buffer_region(region, w, h, len)
    PROVE  BufferPixels(region, w, h) \subseteq 0..len - 1
<1> DEFINE row == IF Delta(region) = 0 THEN w ELSE Delta(region) \div 4
<1>1. /\ w \in Nat /\ h \in Nat /\ w <= GopUMax /\ GopUMax \in Nat
      /\ len \in Nat /\ 4 * len <= GopUMax \div 2
  BY GopAssumption
<1> SUFFICES ASSUME NEW i \in 0..w - 1, NEW j \in 0..h - 1
             PROVE  (region.y + j) * row + region.x + i \in 0..len - 1
  BY DEF BufferPixels
<1>2. w >= 1 /\ h >= 1 /\ i \in Nat /\ j \in Nat /\ i < w /\ j < h
  BY <1>1
<1>3. len < GopUMax
  BY <1>1, <1>2
<1>4. CASE region = Full
  <2>1. region.x = 0 /\ region.y = 0 /\ region.stride = 0 /\ region.kind = "full"
    BY <1>4 DEF Full
  <2>2. Delta(region) = 0
    BY <2>1, <1>1 DEF Delta
  <2>3. h * w <= len
    BY <2>1, <1>1, <1>3, ProductExact DEF check_blt_buffer_region
  <2>4. j * w + i \in 0..len - 1
    BY <2>3, <1>1, <1>2, PixelBelow
  <2>5. j * w \in Nat
    BY <1>1, <1>2
  <2> QED BY <2>1, <2>2, <2>4, <2>5, <1>2
<1>5. CASE region \in [kind : {"sub"}, x : Coords, y : Coords, stride : Strides]
  <2> DEFINE n == saturating_add(region.y, h)
             s == region.stride
  <2>1. region.x \in Nat /\ region.y \in Nat /\ s \in Nat /\ s <= GopUMax /\ region.kind = "sub"
    <3>1. region.x \in Coords /\ region.y \in Coords /\ s \in Strides /\ region.kind = "sub"
      BY <1>5
    <3>2. Coords \subseteq 0..GopUMax /\ Strides \subseteq 0..GopUMax
      BY GopAssumption
    <3>3. \A c \in 0..GopUMax : c \in Nat /\ c <= GopUMax
      BY <1>1
    <3> QED BY <3>1, <3>2, <3>3, Zenon
  <2>2. n = IF region.y + h <= GopUMax THEN region.y + h ELSE GopUMax
    <3>1. region.y + h \in Int /\ GopUMax \in Int
      BY <2>1, <1>1
    <3> QED BY <3>1, MinPair DEF saturating_add
  <2>3. n \in Nat /\ n >= 1
    BY <2>1, <2>2, <1>1, <1>2
  <2>4. saturating_add(region.x, w) <= s /\ saturating_mul(n, s) <= len
    BY <2>1 DEF check_blt_buffer_region
  <2> HIDE DEF n
  <2>5. n * s <= len
    BY <2>1, <2>3, <2>4, <1>1, <1>3, ProductExact
  <2>6. s <= len
    <3>1. s <= n * s /\ n * s \in Nat
      BY <2>1, <2>3, FactorBelow
    <3> QED BY <3>1, <2>5, <2>1, <1>1
  <2>7. region.x + w <= s
    BY <2>1, <2>4, <2>6, <1>1, <1>3, SumExact
  <2>8. s >= 1
    BY <2>7, <2>1, <1>1, <1>2
  <2>9. n = region.y + h
    <3>1. SUFFICES n # GopUMax
      BY <3>1, <2>2
    <3>2. n <= s * n
      BY <2>1, <2>3, <2>8, FactorBelow
    <3> HIDE DEF s
    <3>3. s * n = n * s /\ n * s \in Nat
      BY <2>1, <2>3
    <3>4. n <= len
      BY <3>2, <3>3, <2>3, <2>5, <1>1
    <3> QED BY <3>4, <2>3, <1>1, <1>3
  <2>10. Delta(region) = 4 * s
    <3>1. s * 4 \in 0..GopUMax
      BY <2>1, <2>6, <1>1
    <3>2. (s * 4) % (GopUMax + 1) = s * 4
      BY <3>1, <1>1
    <3> QED BY <3>2, <2>1 DEF Delta
  <2>11. row = s
    BY <2>10, <2>8, <2>1
  <2>12. (region.y + j) * s + (region.x + i) \in 0..len - 1
    <3>1. region.y + j \in Nat /\ region.y + j < n /\ region.x + i \in Nat /\ region.x + i < s
      BY <2>1, <2>7, <2>9, <1>1, <1>2
    <3> HIDE DEF s
    <3> QED BY <3>1, <2>1, <2>3, <2>5, <1>1, PixelBelow
  <2>13. (region.y + j) * s \in Nat
    BY <2>1, <1>2
  <2> HIDE DEF row
  <2> QED BY <2>1, <2>11, <2>12, <2>13, <1>2
<1> QED BY <1>4, <1>5 DEF Regions

\* What check_framebuffer_region accepts is on the screen.
LEMMA ScreenInBounds ==
    ASSUME Types, NEW x \in Coords, NEW y \in Coords, NEW w \in Coords, NEW h \in Coords,
           check_framebuffer_region(x, y, w, h)
    PROVE  ScreenPixels(x, y, w, h) \subseteq
               (0..resolution.width - 1) \X (0..resolution.height - 1)
<1>1. x \in Nat /\ y \in Nat /\ w \in Nat /\ h \in Nat
  BY GopAssumption
<1>2. resolution \in Modes
  BY DEF Types, resolution
<1>3. /\ resolution.width \in Nat /\ resolution.width < GopUMax
      /\ resolution.height \in Nat /\ resolution.height < GopUMax
  BY <1>2, GopAssumption
<1>4. x + w <= resolution.width /\ y + h <= resolution.height
  BY <1>1, <1>3, SumExact DEF check_framebuffer_region
<1>5. x..x + w - 1 \subseteq 0..resolution.width - 1 /\ y..y + h - 1 \subseteq 0..resolution.height - 1
  BY <1>1, <1>3, <1>4
<1> QED BY <1>5 DEF ScreenPixels

-----------------------------------------------------------------------------
(* The steps *)

LEMMA InitialStates == GopInit => IInv
<1> SUFFICES ASSUME GopInit PROVE IInv
  OBVIOUS
<1>1. MaxMode \in Nat \ {0}
  BY GopAssumption
<1>2. Types
  BY <1>1 DEF GopInit, Types, NoIter
<1>3. IterInv
  <2>1. modesout = <<>> /\ infos = {} /\ modeiter = NoIter /\ table \in [0..MaxMode - 1 -> Modes]
    BY DEF GopInit
  <2>2. Got = {}
    BY <2>1 DEF Got
  <2>3. Good(table, 0) = {}
    BY <2>1, <1>1 DEF Good
  <2> QED BY <2>1, <2>2, <2>3 DEF IterInv, NoIter
<1>4. BltInBounds /\ FrameBufferInBounds
  BY DEF GopInit, NoAccess, BltInBounds, FrameBufferInBounds
<1> QED BY <1>2, <1>3, <1>4 DEF IInv

\* The iterator: a mode is yielded after the ones before it, and passed over
\* only if it cannot be queried.
LEMMA IterStep ==
    ASSUME IInv,
           modes \/ ModeNext \/ query_mode \/ free_info \/ NextSkips \/ DropModes
    PROVE  Types' /\ IterInv' /\ UNCHANGED <<table, current, access>>
<1>0. Types /\ IterInv
  BY DEF IInv
<1>1. MaxMode \in Nat \ {0} /\ DOMAIN table = 0..MaxMode - 1
  BY <1>0, GopAssumption DEF Types
<1>2. UNCHANGED <<table, current, access>>
  BY DEF modes, ModeNext, query_mode, free_info, NextSkips, DropModes
<1>3. Good(table, 0) = {}
  BY <1>1 DEF Good
<1>4. CASE modes \/ DropModes
  <2>1. /\ modesout' = <<>> /\ infos' = infos /\ modeiter.pc # "free"
        /\ modeiter' \in [pc : {"none", "idle"}, current : {0}]
    BY <1>4 DEF modes, DropModes, NoIter
  <2>2. Types'
    BY <1>0, <1>1, <1>2, <2>1 DEF Types
  <2>3. Got' = {} /\ Good(table', 0) = {} /\ infos' = {}
    BY <1>0, <2>1, <1>2, <1>3 DEF Got, Good, IterInv
  <2> QED BY <1>0, <1>2, <2>1, <2>2, <2>3 DEF IterInv
<1>5. CASE ModeNext \/ query_mode
  <2>1. /\ modesout' = modesout /\ modeiter'.current = modeiter.current
        /\ modeiter' \in [pc : {"query", "free"}, current : 0..MaxMode]
        /\ modeiter'.pc = "free" => modeiter.current < MaxMode /\ table[modeiter.current].ok
        /\ infos' = IF modeiter'.pc = "free" THEN {modeiter.current} ELSE {}
    <3>1. CASE ModeNext
      <4>1. modeiter' = [pc |-> "query", current |-> modeiter.current] /\ modesout' = modesout /\ infos' = infos
        BY <3>1, <1>0 DEF ModeNext, Types
      <4>2. infos = {}
        BY <3>1, <1>0 DEF ModeNext, IterInv
      <4> QED BY <4>1, <4>2, <1>0 DEF Types
    <3>2. CASE query_mode
      <4>1. /\ modeiter' = [pc |-> "free", current |-> modeiter.current] /\ modesout' = modesout
            /\ modeiter.current < MaxMode /\ table[modeiter.current].ok
            /\ infos' = infos \union {modeiter.current}
        BY <3>2, <1>0 DEF query_mode, Types
      <4>2. infos = {}
        BY <3>2, <1>0 DEF query_mode, IterInv
      <4> QED BY <4>1, <4>2, <1>0 DEF Types
    <3> QED BY <3>1, <3>2, <1>5
  <2>2. Types'
    BY <1>0, <1>2, <2>1 DEF Types
  <2>3. Got' = Got /\ Good(table', modeiter'.current) = Good(table, modeiter.current)
    BY <1>2, <2>1 DEF Got, Good
  <2> QED BY <1>0, <1>2, <2>1, <2>2, <2>3 DEF IterInv, Good
<1>6. CASE free_info
  <2> DEFINE m == modeiter.current
  <2>1. /\ modesout' = Append(modesout, m) /\ m \in 0..MaxMode - 1 /\ table[m].ok
        /\ modeiter' = [pc |-> "idle", current |-> m + 1] /\ infos' = {}
    <3>1. m \in 0..MaxMode - 1 /\ table[m].ok /\ infos = {m}
      <4>1. m \in 0..MaxMode
        BY <1>0 DEF Types
      <4>2. m < MaxMode /\ table[m].ok /\ infos = {m}
        BY <1>0, <1>6, ZenonT(60) DEF free_info, IterInv
      <4> QED BY <4>1, <4>2, <1>1
    <3> QED BY <3>1, <1>6 DEF free_info
  <2>2. Types'
    BY <1>0, <1>1, <1>2, <2>1 DEF Types
  <2>3. modesout \in Seq(0..MaxMode - 1) /\ Len(modesout) \in Nat
    BY <1>0 DEF Types
  <2> HIDE DEF m
  <2>4. /\ DOMAIN modesout = 1..Len(modesout) /\ DOMAIN modesout' = 1..Len(modesout) + 1
        /\ \A k \in DOMAIN modesout : modesout'[k] = modesout[k]
        /\ modesout'[Len(modesout) + 1] = m
    BY <2>1, <2>3
  <2>5. Got' = Got \cup {m}
    BY <2>3, <2>4 DEF Got
  <2>6. Good(table, m + 1) = Good(table, m) \cup {m}
    BY <2>1, <1>1 DEF Good
  <2>7. Got' = Good(table', modeiter'.current)
    BY <1>0, <2>1, <2>5, <2>6, <1>2 DEF IterInv, m
  <2>8. \A k \in DOMAIN modesout : modesout[k] < m
    <3> SUFFICES ASSUME NEW k \in DOMAIN modesout PROVE modesout[k] < m
      OBVIOUS
    <3>1. modesout[k] \in Good(table, m)
      BY <1>0 DEF IterInv, Got, m
    <3> QED BY <3>1 DEF Good
  <2>9. \A j, k \in DOMAIN modesout' : j < k => modesout'[j] < modesout'[k]
    <3> SUFFICES ASSUME NEW j \in DOMAIN modesout', NEW k \in DOMAIN modesout', j < k
                 PROVE  modesout'[j] < modesout'[k]
      OBVIOUS
    <3>1. j \in DOMAIN modesout /\ (k \in DOMAIN modesout \/ k = Len(modesout) + 1)
      BY <2>3, <2>4
    <3> QED BY <1>0, <3>1, <2>4, <2>8 DEF IterInv
  <2> QED BY <1>0, <1>2, <2>1, <2>2, <2>7, <2>9 DEF IterInv
<1>7. CASE NextSkips
  <2>1. modesout' = modesout /\ infos' = infos /\ modeiter.pc = "query" /\ modeiter.current \in 0..MaxMode
    BY <1>0, <1>7 DEF NextSkips, Types
  <2>2. Got' = Got /\ infos' = {}
    BY <1>0, <2>1 DEF Got, IterInv
  <2>3. CASE modeiter.current < MaxMode
    <3>1. ~table[modeiter.current].ok /\ modeiter' = [pc |-> "query", current |-> modeiter.current + 1]
      BY <1>0, <1>7, <2>1, <2>3 DEF NextSkips, AfterBroken, Types
    <3>2. Types'
      BY <1>0, <1>1, <1>2, <2>1, <2>3, <3>1 DEF Types
    <3>3. Good(table, modeiter.current + 1) = Good(table, modeiter.current)
      BY <3>1, <2>1, <1>1 DEF Good
    <3>4. Got' = Good(table', modeiter'.current)
      BY <1>0, <3>1, <3>3, <2>2, <1>2 DEF IterInv
    <3> QED BY <1>0, <1>2, <2>1, <2>2, <3>1, <3>2, <3>4, SMTT(30) DEF IterInv
  <2>4. CASE ~(modeiter.current < MaxMode)
    <3>1. modeiter' = [pc |-> "end", current |-> modeiter.current]
      <4>1. modeiter \in [pc : {"none", "idle", "query", "free", "end"}, current : 0..MaxMode]
        BY <1>0 DEF Types
      <4>2. modeiter' = [modeiter EXCEPT !.pc = "end"]
        BY <1>7, <2>4, ZenonT(60) DEF NextSkips
      <4> QED BY <4>1, <4>2
    <3>2. modeiter.current = MaxMode
      BY <2>1, <2>4, <1>1
    <3>3. Types'
      BY <1>0, <1>1, <1>2, <2>1, <3>1, <3>2 DEF Types
    <3> QED BY <1>0, <1>2, <2>1, <2>2, <3>1, <3>2, <3>3 DEF IterInv
  <2> QED BY <2>3, <2>4, <1>2
<1> QED BY <1>2, <1>4, <1>5, <1>6, <1>7

\* Drawing: every access that is made is inside, and ends before the mode
\* can change.
LEMMA AccessStep ==
    ASSUME IInv, VideoFill \/ BufferTransfer \/ VideoToVideo \/ ValueAccess \/ Returned \/ free_refused
    PROVE  /\ UNCHANGED <<table, current, modeiter, modesout, infos>>
           /\ BltInBounds' /\ FrameBufferInBounds'
<1> USE DEF IInv
<1>1. UNCHANGED <<table, current, modeiter, modesout, infos>>
  BY DEF VideoFill, BufferTransfer, VideoToVideo, ValueAccess, Returned, free_refused, Idle
<1>2. resolution' = resolution
  BY <1>1 DEF resolution
<1>3. CASE access' \in {NoAccess, [op |-> "panic"]}
  BY <1>1, <1>3 DEF NoAccess, BltInBounds, FrameBufferInBounds
<1> DEFINE Blt(len, pixels, screen) == [op |-> "blt", len |-> len, pixels |-> pixels, screen |-> screen]
           Screen == (0..resolution.width - 1) \X (0..resolution.height - 1)
<1>4. ASSUME NEW len, NEW pixels, NEW screen, access' = Blt(len, pixels, screen),
             pixels \subseteq 0..len - 1, screen \subseteq Screen
      PROVE  BltInBounds' /\ FrameBufferInBounds'
  <2>1. /\ access'.op = "blt" /\ access'.len = len
        /\ access'.pixels = pixels /\ access'.screen = screen
    BY <1>4
  <2> QED BY <1>2, <1>4, <2>1 DEF BltInBounds, FrameBufferInBounds
<1> HIDE DEF Screen
<1>5. CASE VideoFill
  <2>1. PICK x, y, w, h \in Coords :
            IF check_framebuffer_region(x, y, w, h)
               THEN Touches("blt", 0, {}, ScreenPixels(x, y, w, h)) ELSE Rejected
    BY <1>5, ZenonT(60) DEF VideoFill
  <2>2. CASE check_framebuffer_region(x, y, w, h)
    <3>1. access' = Blt(0, {}, ScreenPixels(x, y, w, h))
      BY <2>1, <2>2 DEF Touches
    <3>2. ScreenPixels(x, y, w, h) \subseteq Screen
      BY <2>2, ScreenInBounds DEF Screen
    <3> HIDE DEF Blt
    <3> QED BY <3>1, <3>2, <1>1, <1>4, SMTT(30)
  <2> QED BY <2>1, <2>2, <1>1, <1>3 DEF Rejected
<1>6. CASE BufferTransfer
  <2>1. PICK x, y, w, h \in Coords, region \in Regions, len \in PixelLens :
            IF check_framebuffer_region(x, y, w, h) /\ check_blt_buffer_region(region, w, h, len)
               THEN Touches("blt", len, BufferPixels(region, w, h), ScreenPixels(x, y, w, h))
               ELSE Rejected
    BY <1>6, ZenonT(60) DEF BufferTransfer
  <2>2. CASE check_framebuffer_region(x, y, w, h) /\ check_blt_buffer_region(region, w, h, len)
    <3>1. access' = Blt(len, BufferPixels(region, w, h), ScreenPixels(x, y, w, h))
      BY <2>1, <2>2 DEF Touches
    <3>2. ScreenPixels(x, y, w, h) \subseteq Screen
      BY <2>2, ScreenInBounds DEF Screen
    <3>3. BufferPixels(region, w, h) \subseteq 0..len - 1
      BY <2>2, BufferInBounds
    <3> HIDE DEF Blt
    <3> QED BY <3>1, <3>2, <3>3, <1>1, <1>4, SMTT(30)
  <2> QED BY <2>1, <2>2, <1>1, <1>3 DEF Rejected
<1>7. CASE VideoToVideo
  <2>1. PICK x, y, u, v, w, h \in Coords :
            IF check_framebuffer_region(x, y, w, h) /\ check_framebuffer_region(u, v, w, h)
               THEN Touches("blt", 0, {}, ScreenPixels(x, y, w, h) \union ScreenPixels(u, v, w, h))
               ELSE Rejected
    BY <1>7, ZenonT(60) DEF VideoToVideo
  <2>2. CASE check_framebuffer_region(x, y, w, h) /\ check_framebuffer_region(u, v, w, h)
    <3>1. access' = Blt(0, {}, ScreenPixels(x, y, w, h) \union ScreenPixels(u, v, w, h))
      BY <2>1, <2>2 DEF Touches
    <3>2. ScreenPixels(x, y, w, h) \subseteq Screen /\ ScreenPixels(u, v, w, h) \subseteq Screen
      BY <2>2, ScreenInBounds DEF Screen
    <3> HIDE DEF Blt
    <3> QED BY <3>1, <3>2, <1>1, <1>4
  <2> QED BY <2>1, <2>2, <1>1, <1>3 DEF Rejected
<1>8. CASE ValueAccess
  <2>1. PICK index \in Coords, size \in {1, 2} :
            IF frame_buffer /\ saturating_add(index, size) <= resolution.size
               THEN access' = [op |-> "value", bytes |-> index..index + size - 1]
               ELSE Rejected
    BY <1>8, ZenonT(60) DEF ValueAccess
  <2>2. CASE frame_buffer /\ saturating_add(index, size) <= resolution.size
    <3>1. index \in Nat /\ size \in Nat /\ resolution \in Modes
      BY GopAssumption DEF Types, resolution
    <3>2. resolution.size \in Nat /\ resolution.size < GopUMax
      BY <3>1, GopAssumption
    <3>3. index + size <= resolution.size
      BY <2>2, <3>1, <3>2, SumExact
    <3>4. index..index + size - 1 \subseteq 0..resolution.size - 1
      BY <3>1, <3>2, <3>3
    <3>5. access'.op = "value" /\ access'.bytes = index..index + size - 1
      BY <2>1, <2>2
    <3> QED BY <3>4, <3>5, <2>2, <1>1, <1>2 DEF BltInBounds, FrameBufferInBounds, frame_buffer
  <2> QED BY <2>1, <2>2, <1>1, <1>3 DEF Rejected
<1>9. CASE Returned
  BY <1>9, <1>1, <1>3 DEF Returned
<1>10. CASE free_refused
  BY <1>10, <1>3 DEF free_refused, Rejected
<1> QED BY <1>5, <1>6, <1>7, <1>8, <1>9, <1>10

\* Every step of the graphics output keeps the invariant.
LEMMA InvariantStep == IInv /\ [GopNext]_gopvars => IInv'
<1> SUFFICES ASSUME IInv, [GopNext]_gopvars PROVE IInv'
  OBVIOUS
<1> DEFINE Iter == modes \/ ModeNext \/ query_mode \/ free_info \/ NextSkips \/ DropModes
           Draw == VideoFill \/ BufferTransfer \/ VideoToVideo \/ ValueAccess \/ Returned \/ free_refused
<1>1. CASE Iter
  <2>1. Types' /\ IterInv' /\ UNCHANGED <<table, current, access>>
    BY <1>1, IterStep
  <2> QED BY <2>1 DEF IInv, BltInBounds, FrameBufferInBounds, resolution
<1>2. CASE Draw
  <2>1. UNCHANGED <<table, current, modeiter, modesout, infos>> /\ BltInBounds' /\ FrameBufferInBounds'
    BY <1>2, AccessStep
  <2> QED BY <2>1 DEF IInv, Types, IterInv, Got
<1>3. ASSUME NEW i \in DOMAIN table, set_mode(i)
      PROVE  IInv'
  <2>1. /\ UNCHANGED <<table, modeiter, modesout, infos, access>>
        /\ current' = i /\ table[i].ok /\ access = NoAccess
    BY <1>3 DEF set_mode
  <2>2. Types' /\ IterInv'
    BY <2>1, SMTT(30) DEF IInv, Types, IterInv, Got
  <2> QED BY <2>1, <2>2 DEF IInv, BltInBounds, FrameBufferInBounds, NoAccess
<1>4. CASE UNCHANGED gopvars
  BY <1>4 DEF gopvars, IInv, Types, IterInv, Got, BltInBounds, FrameBufferInBounds, resolution
<1> HIDE DEF Iter, Draw
<1>5. Iter \/ Draw \/ (\E i \in DOMAIN table : set_mode(i)) \/ UNCHANGED gopvars
  BY DEF GopNext, Iter, Draw
<1> QED BY <1>1, <1>2, <1>3, <1>4, <1>5

\* The invariant says what the iterator promises: what it has not yielded
\* yet lies at or behind its place.
LEMMA IterExact == IInv => ModesComplete
<1> SUFFICES ASSUME IInv PROVE ModesComplete
  OBVIOUS
<1> DEFINE good == {i \in DOMAIN table : table[i].ok}
<1>1. /\ MaxMode \in Nat \ {0} /\ DOMAIN table = 0..MaxMode - 1 /\ modeiter.current \in 0..MaxMode
  BY GopAssumption DEF IInv, Types
<1>2. Got = Good(table, modeiter.current) /\ Good(table, MaxMode) = good
  BY <1>1 DEF IInv, IterInv, Good
<1>3. Got \subseteq good /\ (modeiter.pc = "end" => Got = good)
  BY <1>2 DEF Good, IInv, IterInv
<1>4. /\ Cardinality(good \ Got) <= size_hint
      /\ (\A i \in modeiter.current..MaxMode - 1 : table[i].ok) => Cardinality(good \ Got) = size_hint
  <2>1. good \ Got \subseteq modeiter.current..MaxMode - 1
    BY <1>1, <1>2 DEF Good
  <2>2. IsFiniteSet(modeiter.current..MaxMode - 1) /\ Cardinality(modeiter.current..MaxMode - 1) = size_hint
    <3>1. modeiter.current \in Int /\ MaxMode - 1 \in Int
      BY <1>1
    <3>2. /\ IsFiniteSet(modeiter.current..MaxMode - 1)
          /\ Cardinality(modeiter.current..MaxMode - 1) =
                 IF modeiter.current > MaxMode - 1 THEN 0 ELSE (MaxMode - 1) - modeiter.current + 1
      BY <3>1, FS_Interval, Zenon
    <3> QED BY <3>2, <1>1 DEF size_hint
  <2>3. ASSUME \A i \in modeiter.current..MaxMode - 1 : table[i].ok
        PROVE  good \ Got = modeiter.current..MaxMode - 1
    BY <1>1, <1>2, <2>3 DEF Good
  <2> HIDE DEF good
  <2>4. good \ Got \in SUBSET (modeiter.current..MaxMode - 1)
    BY <2>1, Zenon
  <2>5. Cardinality(good \ Got) <= size_hint
    BY <2>2, <2>4, FS_Subset, Zenon
  <2> QED BY <2>2, <2>3, <2>5, Zenon
<1>5. modeiter.pc = "idle" => infos = {}
  BY DEF IInv, IterInv
<1>6. \A j, k \in DOMAIN modesout : j < k => modesout[j] < modesout[k]
  BY DEF IInv, IterInv
<1> QED BY <1>3, <1>4, <1>5, <1>6 DEF ModesComplete, Got

-----------------------------------------------------------------------------
(* The results *)

\* Block transfers of GraphicsOutput::blt stay inside the caller's slice and
\* the screen, accesses to FrameBuffer inside its bytes, and ModeIter yields
\* every mode that can be queried, in order, with a size_hint that is exact
\* unless a query fails and an upper bound if one does: for every
\* width of usize, mode table and arguments, saturation and wrapping included.
THEOREM GraphicsExactCorrect == GopSpec => []GraphicsExact
<1>1. GopInit => IInv
  BY InitialStates
<1>2. IInv /\ [GopNext]_gopvars => IInv'
  BY InvariantStep
<1>3. IInv => GraphicsExact
  BY IterExact DEF GraphicsExact, IInv
<1> QED BY <1>1, <1>2, <1>3, PTL DEF GopSpec

\* The state of the graphics output keeps its type: the current mode is one
\* that can be queried, and the iterator stays within the table.
THEOREM GraphicsTyped == GopSpec => []GopTypeOK
<1>1. GopInit => IInv
  BY InitialStates
<1>2. IInv /\ [GopNext]_gopvars => IInv'
  BY InvariantStep
<1>3. IInv => GopTypeOK
  BY GopAssumption DEF IInv, Types, IterInv, GopTypeOK
<1> QED BY <1>1, <1>2, <1>3, PTL DEF GopSpec
=============================================================================
