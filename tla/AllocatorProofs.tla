--------------------------- MODULE AllocatorProofs ---------------------------
(***************************************************************************)
(* Safety of the global allocator for every memory, every page size and    *)
(* every set of layouts.                                                   *)
(***************************************************************************)
EXTENDS Allocator, TLAPS

USE MemAssumption, LayoutsAssumption, TypesAssumption, MaxLiveAssumption

-----------------------------------------------------------------------------
(* Arithmetic *)

\* A remainder is below its divisor.
LEMMA ModRange ==
    ASSUME NEW a \in Nat, NEW n \in Nat \ {0}
    PROVE  a % n \in 0 .. n - 1
  OBVIOUS

\* Division with remainder.
LEMMA Quotient ==
    ASSUME NEW a \in Nat, NEW n \in Nat \ {0}
    PROVE  a = n * (a \div n) + (a % n) /\ a \div n \in Nat
  <1>1. a = n * (a \div n) + (a % n)
    BY SMTT(60)
  <1>2. a \div n \in Nat
    OBVIOUS
  <1> QED
    BY <1>1, <1>2

\* A multiple leaves no remainder.
LEMMA Multiple ==
    ASSUME NEW k \in Nat, NEW n \in Nat \ {0}
    PROVE  (n * k) % n = 0
  OBVIOUS

\* The address alloc_pool_aligned computes is a multiple of the alignment, and
\* lies behind the base by at least one unit and at most the alignment.
LEMMA RoundedUp ==
    ASSUME NEW a \in Nat, NEW n \in Nat \ {0}
    PROVE  /\ (a + offset(a, n)) % n = 0
           /\ offset(a, n) \in 1 .. n
  <1> DEFINE q == a \div n
  <1>1. a = n * q + (a % n) /\ q \in Nat
    BY Quotient
  <1>2. a % n \in 0 .. n - 1
    BY ModRange
  <1> HIDE DEF q
  <1>3. n * (q + 1) = n * q + n
    BY <1>1
  <1>4. a + (n - (a % n)) = n * (q + 1)
    BY <1>1, <1>2, <1>3
  <1>5. (n * (q + 1)) % n = 0
    BY <1>1, Multiple
  <1> QED
    BY <1>2, <1>4, <1>5 DEF offset

\* A range of s units behind base and inside base's range of s + n units
LEMMA RangeInside ==
    ASSUME NEW base \in Nat, NEW p \in Nat, NEW s \in Nat \ {0}, NEW n \in Nat \ {0}, p - base \in 1 .. n
    PROVE  /\ p \in Range(base, s + n) /\ p - 1 \in Range(base, s + n) /\ p # 0 /\ base <= p - 1
           /\ Range(p, s) \subseteq Range(base, s + n) /\ p - 1 \notin Range(p, s)
  BY DEF Range

-----------------------------------------------------------------------------
(* The heap.  R(x) are the units of an allocation x. *)

R(x) == Range(x.base, x.size)

\* Memories m and n agree on the allocations of f other than x.
SameBut(x, f, m, n) == \A y \in f \ {x} : \A u \in R(y) : n[u] = m[u]

\* The owner of block b has written to it.
Written(b, n) == \A u \in Cells(b) : n[u] = Data

\* A block has a first cell, and it lies in the allocation behind the block.
LEMMA FirstCell ==
    ASSUME NEW b \in Blocks
    PROVE  /\ b.ptr \in Cells(b)
           /\ \A x, m : Backs(x, b, m) => b.ptr \in R(x) /\ Cells(b) \subseteq R(x)
  <1>1. b.ptr \in Nat /\ b.layout \in Layouts
    BY DEF Blocks, Units
  <1>2. b.layout.size \in Nat \ {0}
    BY <1>1
  <1>3. b.ptr \in Cells(b)
    BY <1>1, <1>2 DEF Cells, Range
  <1> QED
    BY <1>3 DEF Backs, R

\* What backs a block depends on the units of that allocation only.
LEMMA BacksLocal ==
    ASSUME NEW x \in Allocations, NEW b \in Blocks, NEW m, NEW n,
           \A u \in R(x) : n[u] = m[u], Backs(x, b, m)
    PROVE  Backs(x, b, n)
  <1>1. x.base \in Nat /\ x.size \in Nat /\ b.ptr \in Nat
    BY DEF Allocations, Blocks, Units
  <1>2. b.ptr \in R(x)
    BY FirstCell
  <1>3. x.base <= b.ptr - 1 => b.ptr - 1 \in R(x)
    BY <1>1, <1>2 DEF R, Range
  <1>4. x.base <= b.ptr - 1 => n[b.ptr - 1] = m[b.ptr - 1]
    BY <1>3
  <1> QED
    BY <1>4 DEF Backs

\* A block of a heap is in one allocation only, and that one is handed out.
LEMMA OneBacker ==
    ASSUME NEW f, NEW l, NEW m, NEW h, Heap(f, l, m, h), NEW b \in l, NEW x \in f, b.ptr \in R(x)
    PROVE  x \in f \ h /\ Backs(x, b, m)
  <1>1. PICK y \in f \ h : Backs(y, b, m)
    BY DEF Heap
  <1>2. b \in Blocks
    BY DEF Heap, GoodBlock
  <1>3. b.ptr \in R(y)
    BY <1>1, <1>2, FirstCell
  <1>4. x = y
    BY <1>3 DEF Heap, R
  <1> QED
    BY <1>1, <1>4

\* A call in progress obtains an allocation from the firmware.
LEMMA HoldHeap ==
    ASSUME NEW f, NEW l, NEW m, NEW h, Heap(f, l, m, h),
           NEW x, x \notin f, \A y \in f : R(x) \cap R(y) = {}
    PROVE  Heap(f \cup {x}, l, m, h \cup {x})
  <1> DEFINE g == f \cup {x}
             k == h \cup {x}
  <1>1. \A y, z \in g : y # z => Range(y.base, y.size) \cap Range(z.base, z.size) = {}
    BY DEF Heap, R
  <1>2. k \subseteq g /\ g \ k = f \ h
    BY DEF Heap
  <1>3. \A b \in l : GoodBlock(b) /\ (\E y \in f \ h : Backs(y, b, m)) /\ \A u \in Cells(b) : m[u] = Data
    BY DEF Heap
  <1>4. \A y \in f \ h : \E b \in l : Backs(y, b, m)
    BY DEF Heap
  <1>5. \A b \in l : ~ Backs(x, b, m)
    <2> SUFFICES ASSUME NEW b \in l, Backs(x, b, m) PROVE FALSE
      OBVIOUS
    <2>1. PICK y \in f : Backs(y, b, m)
      BY <1>3
    <2>2. b \in Blocks
      BY <1>3 DEF GoodBlock
    <2>3. b.ptr \in R(x) /\ b.ptr \in R(y)
      BY <2>1, <2>2, FirstCell
    <2> QED
      BY <2>3
  <1>6. \A y \in g, b, c \in l : Backs(y, b, m) /\ Backs(y, c, m) => b = c
    BY <1>5 DEF Heap
  <1> HIDE DEF g, k
  <1>7. Heap(g, l, m, k)
    BY <1>1, <1>2, <1>3, <1>4, <1>6, ZenonT(60) DEF Heap
  <1> QED
    BY <1>7 DEF g, k

\* It gives an allocation back that it had not handed out.
LEMMA DropHeap ==
    ASSUME NEW f, NEW l, NEW m, NEW h, Heap(f, l, m, h), NEW x \in h
    PROVE  Heap(f \ {x}, l, m, h \ {x})
  <1> DEFINE g == f \ {x}
             k == h \ {x}
  <1>1. k \subseteq g /\ g \ k = f \ h /\ g \subseteq f
    BY DEF Heap
  <1>2. \A b \in l : GoodBlock(b) /\ (\E y \in f \ h : Backs(y, b, m)) /\ \A u \in Cells(b) : m[u] = Data
    BY DEF Heap
  <1>3. \A y \in f \ h : \E b \in l : Backs(y, b, m)
    BY DEF Heap
  <1>4. \A y, z \in g : y # z => Range(y.base, y.size) \cap Range(z.base, z.size) = {}
    BY <1>1 DEF Heap
  <1>5. \A y \in g, b, c \in l : Backs(y, b, m) /\ Backs(y, c, m) => b = c
    BY <1>1 DEF Heap
  <1> HIDE DEF g, k
  <1>6. Heap(g, l, m, k)
    BY <1>1, <1>2, <1>3, <1>4, <1>5, ZenonT(60) DEF Heap
  <1> QED
    BY <1>6 DEF g, k

\* A held allocation x becomes the block b.  Memory changes inside x only.
LEMMA HandHeap ==
    ASSUME NEW f, NEW l, NEW m, NEW h, Heap(f, l, m, h), f \subseteq Allocations,
           NEW x \in h, NEW b, GoodBlock(b), NEW n, Backs(x, b, n),
           SameBut(x, f, m, n), Written(b, n)
    PROVE  /\ Heap(f, l \cup {b}, n, h \ {x})
           /\ \A c \in l : Cells(b) \cap Cells(c) = {}
  <1> DEFINE k == h \ {x}
             j == l \cup {b}
  <1>1. h \subseteq f /\ x \in f /\ b \in Blocks /\ l \subseteq Blocks
    BY DEF Heap, GoodBlock
  <1>2. ASSUME NEW c \in l
        PROVE  \E y \in f \ h : Backs(y, c, m) /\ Backs(y, c, n) /\ Cells(c) \subseteq R(y)
    <2>1. PICK y \in f \ h : Backs(y, c, m)
      BY DEF Heap
    <2>2. y # x /\ y \in Allocations /\ \A u \in R(y) : n[u] = m[u]
      BY <1>1 DEF SameBut
    <2>3. Backs(y, c, n)
      BY <1>1, <2>1, <2>2, BacksLocal
    <2> QED
      BY <1>1, <2>1, <2>3, FirstCell
  <1>3. \A c \in l : c.ptr \notin R(x)
    BY <1>1, OneBacker
  <1>4. \A c \in j : /\ GoodBlock(c)
                     /\ \E y \in f \ k : Backs(y, c, n)
                     /\ \A u \in Cells(c) : n[u] = Data
    <2>1. ASSUME NEW c \in l
          PROVE  GoodBlock(c) /\ (\E y \in f \ k : Backs(y, c, n)) /\ \A u \in Cells(c) : n[u] = Data
      <3>1. PICK y \in f \ h : Backs(y, c, m) /\ Backs(y, c, n) /\ Cells(c) \subseteq R(y)
        BY <1>2
      <3>2. GoodBlock(c) /\ \A u \in Cells(c) : m[u] = Data
        BY DEF Heap
      <3> QED
        BY <1>1, <3>1, <3>2 DEF SameBut
    <2>2. GoodBlock(b) /\ (\E y \in f \ k : Backs(y, b, n)) /\ \A u \in Cells(b) : n[u] = Data
      BY <1>1 DEF Written
    <2> QED
      BY <2>1, <2>2
  <1>5. \A y \in f \ k : \E c \in j : Backs(y, c, n)
    <2> SUFFICES ASSUME NEW y \in f \ k PROVE \E c \in j : Backs(y, c, n)
      OBVIOUS
    <2>1. CASE y = x
      BY <2>1
    <2>2. CASE y # x
      <3>1. PICK c \in l : Backs(y, c, m)
        BY <2>2 DEF Heap
      <3>2. Backs(y, c, n)
        BY <1>1, <2>2, <3>1, BacksLocal DEF SameBut
      <3> QED
        BY <3>2
    <2> QED
      BY <2>1, <2>2
  <1>6. \A y \in f, c, d \in j : Backs(y, c, n) /\ Backs(y, d, n) => c = d
    <2>1. ASSUME NEW y \in f, NEW c \in l, Backs(y, c, n)
          PROVE  y # x /\ Backs(y, c, m) /\ ~ Backs(y, b, n)
      <3>1. c.ptr \in R(y)
        BY <1>1, <2>1, FirstCell
      <3>2. y # x /\ Backs(y, c, m)
        BY <1>3, <3>1, OneBacker
      <3>3. b.ptr \in R(x) /\ R(x) \cap R(y) = {}
        BY <1>1, <3>2, FirstCell DEF Heap, R
      <3>4. ~ Backs(y, b, n)
        BY <1>1, <3>3, FirstCell
      <3> QED
        BY <3>2, <3>4
    <2> QED
      BY <2>1 DEF Heap
  <1>7. \A c \in l : Cells(b) \cap Cells(c) = {}
    <2> SUFFICES ASSUME NEW c \in l PROVE Cells(b) \cap Cells(c) = {}
      OBVIOUS
    <2>1. PICK y \in f \ h : Cells(c) \subseteq R(y)
      BY <1>2
    <2>2. Cells(b) \subseteq R(x) /\ R(x) \cap R(y) = {}
      BY <1>1, <2>1, FirstCell, SMTT(30) DEF Heap, R
    <2> QED
      BY <2>1, <2>2
  <1>8. k \subseteq f /\ \A y, z \in f : y # z => Range(y.base, y.size) \cap Range(z.base, z.size) = {}
    BY DEF Heap
  <1> HIDE DEF j, k
  <1>9. Heap(f, j, n, k)
    BY <1>4, <1>5, <1>6, <1>8, SMTT(30) DEF Heap
  <1> QED
    BY <1>7, <1>9 DEF j, k

\* A block b and the allocation x behind it go.
LEMMA FreeHeap ==
    ASSUME NEW f, NEW l, NEW m, NEW h, Heap(f, l, m, h), f \subseteq Allocations,
           NEW b \in l, NEW x \in f \ h, Backs(x, b, m),
           NEW n, SameBut(x, f, m, n)
    PROVE  Heap(f \ {x}, l \ {b}, n, h)
  <1> DEFINE g == f \ {x}
             j == l \ {b}
  <1>1. h \subseteq g /\ l \subseteq Blocks /\ g \subseteq f
    BY DEF Heap, GoodBlock
  <1>2. \A y \in g, c \in l : Backs(y, c, m) => Backs(y, c, n)
    BY <1>1, BacksLocal DEF SameBut
  <1>3. \A c \in j : /\ GoodBlock(c)
                     /\ \E y \in g \ h : Backs(y, c, n)
                     /\ \A u \in Cells(c) : n[u] = Data
    <2> SUFFICES ASSUME NEW c \in j
                 PROVE  GoodBlock(c) /\ (\E y \in g \ h : Backs(y, c, n)) /\ \A u \in Cells(c) : n[u] = Data
      OBVIOUS
    <2>1. GoodBlock(c) /\ \A u \in Cells(c) : m[u] = Data
      BY DEF Heap
    <2>2. PICK y \in f \ h : Backs(y, c, m)
      BY DEF Heap
    <2>3. y # x
      BY <2>2 DEF Heap
    <2>4. Cells(c) \subseteq R(y)
      BY <1>1, <2>2, FirstCell
    <2> QED
      BY <1>2, <2>1, <2>2, <2>3, <2>4 DEF SameBut
  <1>4. \A y \in g \ h : \E c \in j : Backs(y, c, n)
    <2> SUFFICES ASSUME NEW y \in g \ h PROVE \E c \in j : Backs(y, c, n)
      OBVIOUS
    <2>1. PICK c \in l : Backs(y, c, m)
      BY DEF Heap
    <2>2. c # b
      <3>1. c.ptr \in R(y) /\ b.ptr \in R(x)
        BY <1>1, <2>1, FirstCell
      <3>2. R(x) \cap R(y) = {}
        BY DEF Heap, R
      <3> QED
        BY <3>1, <3>2
    <2> QED
      BY <1>2, <2>1, <2>2
  <1>5. \A y \in g, c, d \in j : Backs(y, c, n) /\ Backs(y, d, n) => c = d
    <2> SUFFICES ASSUME NEW y \in g, NEW c \in j, NEW d \in j, Backs(y, c, n), Backs(y, d, n) PROVE c = d
      OBVIOUS
    <2>1. c.ptr \in R(y) /\ d.ptr \in R(y)
      BY <1>1, FirstCell
    <2>2. Backs(y, c, m) /\ Backs(y, d, m)
      BY <1>1, <2>1, OneBacker
    <2> QED
      BY <1>1, <2>2 DEF Heap
  <1>6. \A y, z \in g : y # z => Range(y.base, y.size) \cap Range(z.base, z.size) = {}
    BY <1>1, SMTT(30) DEF Heap
  <1> HIDE DEF g, j
  <1>7. Heap(g, j, n, h)
    BY <1>1, <1>3, <1>4, <1>5, <1>6, ZenonT(60) DEF Heap
  <1> QED
    BY <1>7 DEF g, j

-----------------------------------------------------------------------------
(* The steps of one actor. *)

\* The steps of alloc and dealloc, of an actor a.
Step(a) ==
    \/ \E l \in Layouts : alloc(a, l)
    \/ get_memory_type_open(a) \/ get_memory_type_close(a) \/ get_memory_type_store(a)
    \/ alloc_pool(a) \/ alloc_pool_aligned(a)
    \/ allocate_pages(a) \/ allocate_pages_second(a) \/ allocate_pages_free_first(a)
    \/ \E b \in live : dealloc(a, b)

\* An actor changes the local variables of no other.
LEMMA OthersLocals ==
    ASSUME HeapTypeOK, NEW a \in Actors, NEW c \in Actors \ {a}, Step(a)
    PROVE  /\ alloc_pc'[c] = alloc_pc[c] /\ layout'[c] = layout[c] /\ memory_type'[c] = memory_type[c]
           /\ addr1'[c] = addr1[c] /\ addr2'[c] = addr2[c]
           /\ active' = active
  <1>1. ASSUME NEW l \in Layouts, alloc(a, l)
        PROVE  UNCHANGED <<alloc_pc[c], layout[c], memory_type[c], addr1[c], addr2[c], active>>
    BY <1>1 DEF alloc, Goto, HeapTypeOK
  <1>2. ASSUME NEW b \in live, dealloc(a, b)
        PROVE  UNCHANGED <<alloc_pc[c], layout[c], memory_type[c], addr1[c], addr2[c], active>>
    BY <1>2 DEF dealloc, alloc_locals
  <1>3. CASE get_memory_type_open(a) \/ get_memory_type_close(a) \/ get_memory_type_store(a)
    BY <1>3 DEF get_memory_type_open, get_memory_type_close, get_memory_type_store, Goto, HeapTypeOK
  <1>4. Return(a) => UNCHANGED <<alloc_pc[c], layout[c], memory_type[c], addr1[c], addr2[c]>>
    BY SMTT(30) DEF Return, Goto, HeapTypeOK
  <1>5. CASE alloc_pool(a) \/ alloc_pool_aligned(a) \/ allocate_pages_free_first(a)
    <2>1. Return(a) /\ active' = active
      BY <1>5 DEF alloc_pool, alloc_pool_aligned, allocate_pages_free_first, Deliver, ReturnNull
    <2> QED
      BY <1>4, <2>1, SMTT(30)
  <1>6. CASE allocate_pages(a)
    <2>1. active' = active
      BY <1>6 DEF allocate_pages
    <2>2. \/ Return(a)
          \/ /\ \E base : addr1' = [addr1 EXCEPT ![a] = base]
             /\ Goto(a, "second") /\ UNCHANGED <<layout, memory_type, addr2>>
      BY <1>6 DEF allocate_pages, Deliver, ReturnNull
    <2> QED
      BY <1>4, <2>1, <2>2 DEF Goto, HeapTypeOK
  <1>7. CASE allocate_pages_second(a)
    BY <1>7 DEF allocate_pages_second, Goto, HeapTypeOK
  <1> QED
    BY <1>1, <1>2, <1>3, <1>5, <1>6, <1>7, ZenonT(60) DEF Step

\* What an actor holds depends on its local variables.
LEMMA HeldLocal ==
    ASSUME NEW c, alloc_pc'[c] = alloc_pc[c], layout'[c] = layout[c], memory_type'[c] = memory_type[c], addr2'[c] = addr2[c]
    PROVE  Held(c)' = Held(c)
  BY DEF Held, PageAlloc, Allocation

\* x is a new allocation of the size units from base on.
Fresh(x, base, size) ==
    /\ x \in Allocations /\ x \notin fw
    /\ R(x) = Range(base, size) /\ R(x) \subseteq Units
    /\ \A y \in fw : R(x) \cap R(y) = {}

\* A free range makes a new allocation, apart from all others.
LEMMA FreshAllocation ==
    ASSUME HeapTypeOK, NEW kind \in {"pool", "pages"}, NEW ty \in Types,
           NEW base \in Units, NEW size \in Nat \ {0}, IsFree(base, size)
    PROVE  Fresh(Allocation(kind, base, size, ty), base, size)
  <1> DEFINE x == Allocation(kind, base, size, ty)
  <1>1. x \in Allocations /\ x.base = base /\ x.size = size
    BY DEF Allocation, Allocations
  <1> HIDE DEF x
  <1>2. base \in Range(base, size)
    BY DEF Units, Range
  <1>3. Range(base, size) \subseteq Units /\ \A y \in fw : Range(base, size) \cap Range(y.base, y.size) = {}
    BY DEF IsFree
  <1>4. R(x) = Range(base, size)
    BY <1>1 DEF R
  <1>5. x \notin fw
    BY <1>2, <1>3, <1>4 DEF R
  <1>6. \A y \in fw : R(x) \cap R(y) = {}
    BY <1>3, <1>4 DEF R
  <1> QED
    BY <1>1, <1>3, <1>4, <1>5, <1>6, ZenonT(60) DEF Fresh, x

Safe(a, c) ==
    /\ Held(a) \cap Held(c) = {}
    /\ Heap(fw, live, mem, Held(a) \cup Held(c))

\* live gets one more block, apart from the others.
Grows ==
    \E b : /\ GoodBlock(b) /\ live' = live \cup {b}
          /\ \A d \in live : Cells(b) \cap Cells(d) = {}

\* A call that holds nothing obtains the allocation x and returns the block b
\* in it; it writes inside x only.
LEMMA Delivered ==
    ASSUME HeapTypeOK, NEW a, NEW c, Safe(a, c), Held(a) = {}, Held(a)' = {}, Held(c)' = Held(c),
           NEW x \in Allocations, x \notin fw, \A y \in fw : R(x) \cap R(y) = {}, fw' = fw \cup {x},
           NEW b, GoodBlock(b), live' = live \cup {b}, Backs(x, b, mem'),
           \A u \in Cells(b) : mem'[u] = Data,
           \A y \in fw : \A u \in R(y) : mem'[u] = mem[u]
    PROVE  Safe(a, c)' /\ Grows
  <1> DEFINE f == fw \cup {x}
             h == Held(c) \cup {x}
  <1>1. Heap(fw, live, mem, Held(c)) /\ Held(c) \subseteq fw
    BY DEF Safe, Heap
  <1>2. Heap(f, live, mem, h)
    BY <1>1, HoldHeap
  <1>3. f \subseteq Allocations /\ x \in h /\ f \ {x} = fw
    BY DEF HeapTypeOK
  <1> HIDE DEF f, h
  <1>a. PICK n : n = mem'
    OBVIOUS
  <1>b. Backs(x, b, n) /\ Written(b, n) /\ SameBut(x, f, mem, n)
    BY <1>3, <1>a DEF SameBut, Written
  <1>4. /\ Heap(f, live \cup {b}, mem', h \ {x})
        /\ \A d \in live : Cells(b) \cap Cells(d) = {}
    <2>1. Heap(f, live \cup {b}, n, h \ {x}) /\ \A d \in live : Cells(b) \cap Cells(d) = {}
      BY <1>2, <1>3, <1>b, HandHeap, ZenonT(60)
    <2> QED
      BY <1>a, <2>1
  <1>5. h \ {x} = Held(c)
    BY <1>1 DEF h
  <1>6. Heap(fw', live', mem', Held(a)' \cup Held(c)')
    <2>1. Held(a)' \cup Held(c)' = h \ {x}
      BY <1>5
    <2>2. fw' = f
      BY DEF f
    <2> QED
      BY <1>4, <2>1, <2>2, ZenonT(60)
  <1> QED
    BY <1>4, <1>6 DEF Safe, Grows

\* Nothing of the heap changes.
LEMMA HeapUnchanged ==
    ASSUME NEW a, NEW c, Safe(a, c), UNCHANGED <<fw, live, mem>>, Held(a)' = Held(a), Held(c)' = Held(c)
    PROVE  Safe(a, c)'
  BY DEF Safe

\* Outside of allocate_pages' detour an actor holds nothing.
LEMMA HoldsNothing ==
    /\ \A a : alloc_pc[a] \notin {"second", "free_first"} => Held(a) = {}
    /\ \A a : alloc_pc'[a] \notin {"second", "free_first"} => Held(a)' = {}
  BY DEF Held

\* A call that returns null has changed nothing.
LEMMA NullStep ==
    ASSUME HeapTypeOK, NEW a \in Actors, NEW c \in Actors \ {a}, Safe(a, c), Held(c)' = Held(c),
           Held(a) = {}, UNCHANGED fw, ReturnNull(a)
    PROVE  Safe(a, c)' /\ live' = live
  <1>1. alloc_pc'[a] = "idle"
    BY DEF ReturnNull, Return, Goto, HeapTypeOK
  <1>2. Held(a)' = {}
    BY <1>1, HoldsNothing
  <1> QED
    BY <1>2, HeapUnchanged DEF ReturnNull

\* alloc_pool hands out the allocation itself, or nothing.
LEMMA PoolStep ==
    ASSUME HeapTypeOK, NEW a \in Actors, NEW c \in Actors \ {a}, CallInv(a), Safe(a, c), Held(c)' = Held(c),
           alloc_pool(a)
    PROVE  Safe(a, c)' /\ (Grows \/ live' = live)
  <1>1. alloc_pc[a] = "pool" /\ layout[a] \in Layouts /\ Arm(layout[a]) = "pool" /\ memory_type[a] \in Types
    BY DEF alloc_pool, CallInv, HeapTypeOK
  <1>2. layout[a].size \in Nat \ {0} /\ layout[a].align = 1
    BY <1>1 DEF Arm
  <1>3. Held(a) = {}
    BY <1>1, HoldsNothing
  <1>4. CASE UNCHANGED fw /\ ReturnNull(a)
    BY <1>3, <1>4, NullStep, ZenonT(60)
  <1>5. ASSUME NEW base \in fw_pool(layout[a].size),
               fw' = fw \cup {Allocation("pool", base, layout[a].size, memory_type[a])},
               Deliver(a, base, mem)
        PROVE  Safe(a, c)' /\ Grows
    <2> DEFINE x == Allocation("pool", base, layout[a].size, memory_type[a])
               b == Block(base, layout[a])
    <2>1. base \in Units \ {0} /\ IsFree(base, layout[a].size)
      BY DEF fw_pool
    <2>2. /\ x \in Allocations /\ x \notin fw /\ R(x) = Range(base, layout[a].size)
          /\ R(x) \subseteq Units /\ \A y \in fw : R(x) \cap R(y) = {}
      <3>1. Fresh(Allocation("pool", base, layout[a].size, memory_type[a]), base, layout[a].size)
        BY <1>1, <1>2, <2>1, FreshAllocation, ZenonT(60)
      <3> QED
        BY <3>1, ZenonT(60) DEF Fresh
    <2>3. x.base = base /\ x.size = layout[a].size /\ x.kind = "pool" /\ b.ptr = base /\ b.layout = layout[a]
      BY DEF Allocation, Block
    <2>4. b \in Blocks
      BY <1>1, <2>1, ZenonT(60) DEF Block, Blocks
    <2>5. fw' = fw \cup {x} /\ live' = live \cup {b}
      BY <1>5, ZenonT(60) DEF Deliver
    <2>6. mem' = [u \in Units |-> IF u \in R(x) THEN Data ELSE mem[u]]
      BY <1>5, <2>2, ZenonT(60) DEF Deliver
    <2>7. Held(a)' = {}
      <3>1. alloc_pc'[a] = "idle"
        BY <1>5, ZenonT(60) DEF Deliver, Return, Goto, HeapTypeOK
      <3> QED
        BY <3>1, HoldsNothing
    <2> HIDE DEF x, b
    <2>8. GoodBlock(b)
      <3>1. base % 1 = 0
        BY <2>1 DEF Units
      <3> QED
        BY <1>2, <2>1, <2>3, <2>4, <3>1 DEF GoodBlock
    <2>9. Cells(b) = R(x)
      BY <2>3 DEF Cells, R
    <2>10. Backs(x, b, mem')
      BY <1>1, <2>3, <2>9 DEF Backs, R
    <2>11. (\A u \in Cells(b) : mem'[u] = Data) /\ \A y \in fw : \A u \in R(y) : mem'[u] = mem[u]
      BY <2>2, <2>6, <2>9, ZenonT(60) DEF HeapTypeOK, R
    <2> QED
      BY <1>3, <2>2, <2>5, <2>7, <2>8, <2>10, <2>11, Delivered
  <1> QED
    BY <1>4, <1>5 DEF alloc_pool

\* alloc_pool_aligned hands out an aligned block inside its allocation, with the
\* base of the allocation in the unit before the block.
LEMMA AlignedStep ==
    ASSUME HeapTypeOK, NEW a \in Actors, NEW c \in Actors \ {a}, CallInv(a), Safe(a, c), Held(c)' = Held(c),
           alloc_pool_aligned(a)
    PROVE  Safe(a, c)' /\ (Grows \/ live' = live)
  <1> DEFINE size == layout[a].size + layout[a].align
  <1>1. alloc_pc[a] = "aligned" /\ layout[a] \in Layouts /\ Arm(layout[a]) = "aligned" /\ memory_type[a] \in Types
    BY DEF alloc_pool_aligned, CallInv, HeapTypeOK
  <1>2. layout[a].size \in Nat \ {0} /\ layout[a].align \in Nat \ {0} /\ size \in Nat \ {0}
    <2>1. layout[a].size \in Nat \ {0} /\ layout[a].align \in Nat \ {0}
      BY <1>1, Zenon
    <2>2. \A m, n \in Nat \ {0} : m + n \in Nat \ {0}
      OBVIOUS
    <2> QED
      BY <2>1, <2>2, Zenon
  <1>3. Held(a) = {}
    BY <1>1, HoldsNothing
  <1>4. CASE UNCHANGED fw /\ ReturnNull(a)
    BY <1>3, <1>4, NullStep, SMTT(30)
  <1>5. ASSUME NEW base \in fw_pool(size), NEW p, p = base + offset(base, layout[a].align),
               fw' = fw \cup {Allocation("pool", base, size, memory_type[a])},
               Deliver(a, p, [mem EXCEPT ![p - 1] = base])
        PROVE  Safe(a, c)' /\ Grows
    <2> DEFINE x == Allocation("pool", base, size, memory_type[a])
               b == Block(p, layout[a])
    <2>1. base \in Units \ {0} /\ IsFree(base, size) /\ base \in Nat
      <3>1. base \in Units \ {0} /\ IsFree(base, size)
        BY ZenonT(60) DEF fw_pool
      <3> HIDE DEF x, b, size
      <3> QED
        BY <3>1 DEF Units
    <2>2. /\ x \in Allocations /\ x \notin fw /\ R(x) = Range(base, size)
          /\ R(x) \subseteq Units /\ \A y \in fw : R(x) \cap R(y) = {}
      <3> HIDE DEF size
      <3>1. Fresh(Allocation("pool", base, size, memory_type[a]), base, size)
        BY <1>1, <1>2, <2>1, FreshAllocation, ZenonT(60)
      <3> QED
        BY <3>1, ZenonT(60) DEF Fresh
    <2>3. x.base = base /\ x.kind = "pool" /\ b.ptr = p /\ b.layout = layout[a]
      BY ZenonT(60) DEF Allocation, Block
    <2>4. p % layout[a].align = 0 /\ p - base \in 1 .. layout[a].align /\ p \in Nat
      <3> DEFINE o == offset(base, layout[a].align)
      <3>1. p % layout[a].align = 0 /\ o \in 1 .. layout[a].align
        BY <1>2, <1>5, <2>1, RoundedUp, ZenonT(60)
      <3>2. p = base + o
        BY <1>5
      <3> HIDE DEF o, x, b, size
      <3>3. p - base \in 1 .. layout[a].align /\ p \in Nat
        BY <1>2, <2>1, <3>1, <3>2
      <3> QED
        BY <3>1, <3>3
    <2>5. /\ p \in R(x) /\ p - 1 \in R(x) /\ p # 0 /\ base <= p - 1
          /\ Range(p, layout[a].size) \subseteq R(x) /\ p - 1 \notin Range(p, layout[a].size)
      <3>1. /\ p \in Range(base, size) /\ p - 1 \in Range(base, size) /\ p # 0 /\ base <= p - 1
            /\ Range(p, layout[a].size) \subseteq Range(base, size) /\ p - 1 \notin Range(p, layout[a].size)
        BY <1>2, <2>1, <2>4, RangeInside, ZenonT(60)
      <3> HIDE DEF x, size
      <3> QED
        BY <2>2, <3>1, ZenonT(60)
    <2>6. fw' = fw \cup {x} /\ live' = live \cup {b}
      BY <1>5 DEF Deliver
    <2>7. mem' = [u \in Units |-> IF u \in Range(p, layout[a].size) THEN Data ELSE [mem EXCEPT ![p - 1] = base][u]]
      BY <1>5, ZenonT(60) DEF Deliver
    <2>8. Held(a)' = {}
      <3>1. alloc_pc'[a] = "idle"
        BY <1>5, ZenonT(60) DEF Deliver, Return, Goto, HeapTypeOK
      <3> QED
        BY <3>1, HoldsNothing
    <2>9. b \in Blocks
      BY <1>1, <2>2, <2>5, ZenonT(60) DEF Block, Blocks
    <2> HIDE DEF x, b, size
    <2>10. GoodBlock(b)
      BY <2>3, <2>4, <2>5, <2>9, ZenonT(60) DEF GoodBlock
    <2>11. Cells(b) = Range(p, layout[a].size)
      BY <2>3, ZenonT(60) DEF Cells
    <2>12. mem'[p - 1] = base
      BY <2>2, <2>5, <2>7, ZenonT(60) DEF HeapTypeOK
    <2>13. Backs(x, b, mem')
      BY <1>1, <2>3, <2>5, <2>11, <2>12, ZenonT(60) DEF Backs, R
    <2>14. \A u \in Cells(b) : mem'[u] = Data
      BY <2>2, <2>5, <2>7, <2>11, ZenonT(60)
    <2>15. ASSUME NEW y \in fw, NEW u \in R(y) PROVE mem'[u] = mem[u]
      <3>1. u \in Units /\ u \notin R(x)
        BY <2>2, ZenonT(60) DEF HeapTypeOK, R
      <3> QED
        BY <2>5, <2>7, <3>1, ZenonT(60) DEF HeapTypeOK
    <2> QED
      BY <1>3, <2>2, <2>6, <2>8, <2>10, <2>13, <2>14, <2>15, Delivered
  <1> QED
    BY <1>4, <1>5, ZenonT(60) DEF alloc_pool_aligned

\* allocate_pages hands its allocation out, or holds it if it is at address zero.
LEMMA PagesStep ==
    ASSUME HeapTypeOK, NEW a \in Actors, NEW c \in Actors \ {a}, CallInv(a), Safe(a, c), Held(c)' = Held(c),
           allocate_pages(a)
    PROVE  Safe(a, c)' /\ (Grows \/ live' = live)
  <1>1. alloc_pc[a] = "pages" /\ layout[a] \in Layouts /\ Arm(layout[a]) = "pages" /\ memory_type[a] \in Types
    BY ZenonT(60) DEF allocate_pages, CallInv, HeapTypeOK
  <1>2. layout[a].size \in Nat \ {0} /\ layout[a].align = PAGE_SIZE
    BY <1>1, ZenonT(60) DEF Arm, layout_allows_page_alloc_shortcut
  <1>3. Held(a) = {} /\ Held(c) \subseteq fw /\ Heap(fw, live, mem, Held(c))
    BY <1>1, HoldsNothing, ZenonT(60) DEF Safe, Heap
  <1>4. CASE UNCHANGED fw /\ ReturnNull(a)
    BY <1>3, <1>4, NullStep
  <1>5. ASSUME NEW base \in fw_pages(layout[a].size), fw' = fw \cup {PageAlloc(a, base)}
        PROVE  /\ base \in Units /\ base % PAGE_SIZE = 0
               /\ PageAlloc(a, base) \in Allocations /\ PageAlloc(a, base) \notin fw
               /\ R(PageAlloc(a, base)) = Range(base, layout[a].size) /\ R(PageAlloc(a, base)) \subseteq Units
               /\ \A y \in fw : R(PageAlloc(a, base)) \cap R(y) = {}
    <2>1. base \in Units /\ base % PAGE_SIZE = 0 /\ IsFree(base, layout[a].size)
      BY DEF fw_pages
    <2> DEFINE x == PageAlloc(a, base)
    <2>2. x = Allocation("pages", base, layout[a].size, memory_type[a])
      BY ZenonT(60) DEF PageAlloc
    <2> HIDE DEF x
    <2>3. /\ x \in Allocations /\ x \notin fw /\ R(x) = Range(base, layout[a].size)
          /\ R(x) \subseteq Units /\ \A y \in fw : R(x) \cap R(y) = {}
      <3>1. Fresh(Allocation("pages", base, layout[a].size, memory_type[a]), base, layout[a].size)
        BY <1>1, <1>2, <2>1, FreshAllocation, ZenonT(60)
      <3> QED
        BY <2>2, <3>1, ZenonT(60) DEF Fresh
    <2> QED
      BY <2>1, <2>3 DEF x
  <1>6. ASSUME NEW base \in fw_pages(layout[a].size), fw' = fw \cup {PageAlloc(a, base)},
               base # 0, Deliver(a, base, mem)
        PROVE  Safe(a, c)' /\ Grows
    <2> DEFINE x == PageAlloc(a, base)
               b == Block(base, layout[a])
    <2>1. x.base = base /\ x.size = layout[a].size /\ x.kind = "pages" /\ b.ptr = base /\ b.layout = layout[a]
      BY ZenonT(60) DEF PageAlloc, Allocation, Block
    <2>2. b \in Blocks /\ fw' = fw \cup {x} /\ live' = live \cup {b}
      BY <1>1, <1>5, <1>6 DEF Block, Blocks, Deliver
    <2>3. mem' = [u \in Units |-> IF u \in R(x) THEN Data ELSE mem[u]]
      BY <1>5, <1>6, ZenonT(60) DEF Deliver
    <2>4. Held(a)' = {}
      <3>1. alloc_pc'[a] = "idle"
        BY <1>6 DEF Deliver, Return, Goto, HeapTypeOK
      <3> QED
        BY <3>1, HoldsNothing
    <2>5. /\ x \in Allocations /\ x \notin fw /\ R(x) \subseteq Units
          /\ \A y \in fw : R(x) \cap R(y) = {}
      BY <1>5, <1>6, ZenonT(60)
    <2> HIDE DEF x, b
    <2>6. GoodBlock(b)
      BY <1>2, <1>5, <1>6, <2>1, <2>2, ZenonT(60) DEF GoodBlock
    <2>7. Cells(b) = R(x)
      BY <2>1, ZenonT(60) DEF Cells, R
    <2>8. Backs(x, b, mem')
      BY <1>1, <2>1, <2>7 DEF Backs, R
    <2>9. (\A u \in Cells(b) : mem'[u] = Data) /\ \A y \in fw : \A u \in R(y) : mem'[u] = mem[u]
      BY <2>3, <2>5, <2>7 DEF HeapTypeOK, R
    <2> QED
      BY <1>3, <2>2, <2>4, <2>5, <2>6, <2>8, <2>9, Delivered, ZenonT(60)
  <1>7. ASSUME NEW base \in fw_pages(layout[a].size), fw' = fw \cup {PageAlloc(a, base)},
               base = 0, Goto(a, "second"), UNCHANGED <<live, mem, layout, memory_type, addr2>>
        PROVE  Safe(a, c)' /\ live' = live
    <2> DEFINE x == PageAlloc(a, base)
    <2>1. Held(a)' = {x}
      BY <1>7 DEF Held, PageAlloc, Allocation, Goto, HeapTypeOK
    <2>2. x \notin fw /\ (\A y \in fw : R(x) \cap R(y) = {}) /\ fw' = fw \cup {x}
      BY <1>5, <1>7
    <2> HIDE DEF x
    <2>3. Heap(fw \cup {x}, live, mem, Held(c) \cup {x})
      BY <1>3, <2>2, HoldHeap
    <2>4. Held(a)' \cup Held(c)' = Held(c) \cup {x} /\ Held(a)' \cap Held(c)' = {}
      BY <1>3, <2>1, <2>2
    <2>5. Heap(fw', live', mem', Held(a)' \cup Held(c)')
      BY <1>7, <2>2, <2>3, <2>4, ZenonT(60)
    <2> QED
      BY <1>7, <2>4, <2>5, ZenonT(60) DEF Safe
  <1> QED
    BY <1>4, <1>6, <1>7 DEF allocate_pages

\* The second attempt is held next to the first.
LEMMA SecondStep ==
    ASSUME HeapTypeOK, NEW a \in Actors, NEW c \in Actors \ {a}, CallInv(a), Safe(a, c), Held(c)' = Held(c),
           allocate_pages_second(a)
    PROVE  Safe(a, c)' /\ live' = live
  <1>1. alloc_pc[a] = "second" /\ layout[a] \in Layouts /\ memory_type[a] \in Types
    BY DEF allocate_pages_second, CallInv, HeapTypeOK
  <1>2. layout[a].size \in Nat \ {0} /\ UNCHANGED <<live, mem, layout, memory_type>> /\ alloc_pc'[a] = "free_first"
    BY <1>1, ZenonT(60) DEF allocate_pages_second, Goto, HeapTypeOK
  <1>3. /\ Held(a) = {PageAlloc(a, 0)} /\ Held(a) \subseteq fw /\ Held(c) \subseteq fw /\ Held(a) \cap Held(c) = {}
        /\ Heap(fw, live, mem, Held(a) \cup Held(c))
    BY <1>1, ZenonT(60) DEF Safe, Held, Heap
  <1>4. Held(a)' = {PageAlloc(a, 0)} \cup {PageAlloc(a, b) : b \in {addr2'[a]} \ {0}}
    BY <1>2, ZenonT(60) DEF Held, PageAlloc, Allocation
  <1>5. CASE UNCHANGED fw /\ addr2' = [addr2 EXCEPT ![a] = 0]
    <2>1. Held(a)' = Held(a)
      BY <1>3, <1>4, <1>5 DEF HeapTypeOK
    <2> QED
      BY <1>2, <1>5, <2>1, HeapUnchanged, ZenonT(60)
  <1>6. ASSUME NEW base \in fw_pages(layout[a].size), fw' = fw \cup {PageAlloc(a, base)},
               addr2' = [addr2 EXCEPT ![a] = base]
        PROVE  Safe(a, c)'
    <2> DEFINE x == PageAlloc(a, base)
    <2>1. base \in Units /\ IsFree(base, layout[a].size)
      BY ZenonT(60) DEF fw_pages
    <2>2. x \notin fw /\ \A y \in fw : R(x) \cap R(y) = {}
      <3>1. x = Allocation("pages", base, layout[a].size, memory_type[a])
        BY DEF PageAlloc
      <3> HIDE DEF x
      <3>2. Fresh(Allocation("pages", base, layout[a].size, memory_type[a]), base, layout[a].size)
        BY <1>1, <1>2, <2>1, FreshAllocation, ZenonT(60)
      <3> QED
        BY <3>1, <3>2, ZenonT(60) DEF Fresh
    <2>3. base # 0
      BY <1>3, <2>2, ZenonT(60)
    <2>4. Held(a)' = Held(a) \cup {x}
      BY <1>3, <1>4, <1>6, <2>3 DEF HeapTypeOK
    <2>5. fw' = fw \cup {x}
      BY <1>6
    <2> HIDE DEF x
    <2> DEFINE h == Held(a) \cup Held(c)
    <2>6. Heap(fw, live, mem, h)
      BY <1>3, ZenonT(60)
    <2>7. Held(a)' \cup Held(c)' = h \cup {x} /\ Held(a)' \cap Held(c)' = {}
      BY <1>3, <2>2, <2>4
    <2> HIDE DEF h
    <2>8. Heap(fw \cup {x}, live, mem, h \cup {x})
      BY <2>2, <2>6, HoldHeap, ZenonT(60)
    <2>9. Heap(fw', live', mem', Held(a)' \cup Held(c)')
      BY <1>2, <2>5, <2>7, <2>8, ZenonT(60)
    <2> QED
      BY <2>7, <2>9 DEF Safe
  <1> QED
    BY <1>2, <1>5, <1>6, ZenonT(60) DEF allocate_pages_second

\* The first allocation goes back; the second, if there is one, is handed out.
LEMMA FreeFirstStep ==
    ASSUME HeapTypeOK, NEW a \in Actors, NEW c \in Actors \ {a}, CallInv(a), Safe(a, c), Held(c)' = Held(c),
           allocate_pages_free_first(a)
    PROVE  Safe(a, c)' /\ (Grows \/ live' = live)
  <1> DEFINE x == PageAlloc(a, 0)
             h == Held(a) \cup Held(c)
  <1>1. /\ alloc_pc[a] = "free_first" /\ layout[a] \in Layouts /\ memory_type[a] \in Types
        /\ Arm(layout[a]) = "pages" /\ addr1[a] = 0 /\ addr2[a] % PAGE_SIZE = 0
    BY ZenonT(60) DEF allocate_pages_free_first, CallInv, HeapTypeOK
  <1>2. layout[a].size \in Nat \ {0} /\ layout[a].align = PAGE_SIZE
    BY <1>1 DEF Arm, layout_allows_page_alloc_shortcut
  <1>3. Held(a) = {x} \cup {PageAlloc(a, b) : b \in {addr2[a]} \ {0}}
    BY <1>1, ZenonT(60) DEF Held
  <1>4. h \subseteq fw /\ Held(a) \cap Held(c) = {} /\ Heap(fw, live, mem, h) /\ x \in h /\ x \notin Held(c)
    BY <1>3, ZenonT(60) DEF Safe, Heap
  <1>5. Heap(fw \ {x}, live, mem, h \ {x})
    <2> HIDE DEF x, h
    <2> QED
      BY <1>4, DropHeap
  <1>6. fw' = fw \ {x}
    BY <1>1, ZenonT(60) DEF allocate_pages_free_first, without_first
  <1>7. Held(a)' = {}
    <2>1. alloc_pc'[a] = "idle"
      BY DEF allocate_pages_free_first, Deliver, ReturnNull, Return, Goto, HeapTypeOK
    <2> QED
      BY <2>1, HoldsNothing, ZenonT(60)
  <1>8. CASE addr2[a] = 0
    <2>1. UNCHANGED <<live, mem>>
      BY <1>8 DEF allocate_pages_free_first, ReturnNull
    <2>2. h \ {x} = Held(c) /\ Held(a)' \cup Held(c)' = Held(c)
      BY <1>3, <1>4, <1>7, <1>8
    <2> HIDE DEF x, h
    <2>3. Heap(fw', live', mem', Held(a)' \cup Held(c)')
      BY <1>5, <1>6, <2>1, <2>2, ZenonT(60)
    <2> QED
      BY <1>7, <2>1, <2>3, ZenonT(60) DEF Safe
  <1>9. CASE addr2[a] # 0
    <2> DEFINE y == PageAlloc(a, addr2[a])
               b == Block(addr2[a], layout[a])
               g == fw \ {x}
               k == h \ {x}
    <2>1. Deliver(a, addr2[a], mem)
      BY <1>9, ZenonT(60) DEF allocate_pages_free_first
    <2>2. y.base = addr2[a] /\ y.size = layout[a].size /\ y.kind = "pages" /\ b.ptr = addr2[a] /\ b.layout = layout[a]
      BY ZenonT(60) DEF PageAlloc, Allocation, Block
    <2>3. addr2[a] \in Units /\ b \in Blocks /\ live' = live \cup {b}
      BY <1>1, <1>9, <2>1, ZenonT(60) DEF Block, Blocks, Deliver, HeapTypeOK
    <2>4. x # y
      BY <1>9, ZenonT(60) DEF PageAlloc, Allocation
    <2>5. h \ {x} = Held(c) \cup {y} /\ y \notin Held(c) /\ y \in fw
      BY <1>3, <1>4, <1>9, <2>4, ZenonT(60)
    <2>6. y \in k /\ k \ {y} = Held(c) /\ g \subseteq Allocations /\ g \subseteq fw /\ y \in g
      BY <2>4, <2>5, ZenonT(60) DEF HeapTypeOK
    <2>7. mem' = [u \in Units |-> IF u \in R(y) THEN Data ELSE mem[u]]
      BY <2>1, <2>2, ZenonT(60) DEF Deliver, R
    <2>8. Heap(g, live, mem, k) /\ fw' = g
      BY <1>5, <1>6
    <2> HIDE DEF x, h, y, b, g, k
    <2>9. PICK n : n = mem'
      BY ZenonT(60)
    <2>10. GoodBlock(b)
      BY <1>1, <1>2, <1>9, <2>2, <2>3, ZenonT(60) DEF GoodBlock
    <2>11. Cells(b) = R(y)
      BY <2>2, ZenonT(60) DEF Cells, R
    <2>12. Backs(y, b, n)
      BY <1>1, <2>2, <2>11, ZenonT(60) DEF Backs, R
    <2>13. R(y) \subseteq Units /\ \A z \in g \ {y} : R(z) \subseteq Units /\ R(z) \cap R(y) = {}
      BY <2>6, <2>8, ZenonT(60) DEF Heap, R, HeapTypeOK
    <2>14. SameBut(y, g, mem, n) /\ Written(b, n)
      BY <2>7, <2>9, <2>11, <2>13, ZenonT(60) DEF SameBut, Written, HeapTypeOK
    <2>15. Heap(g, live \cup {b}, n, k \ {y}) /\ \A d \in live : Cells(b) \cap Cells(d) = {}
      BY <2>6, <2>8, <2>10, <2>12, <2>14, HandHeap
    <2>16. Heap(fw', live', mem', Held(a)' \cup Held(c)')
      <3>1. Held(a)' \cup Held(c)' = k \ {y}
        BY <1>7, <2>6
      <3> QED
        BY <2>3, <2>8, <2>9, <2>15, <3>1, ZenonT(60)
    <2> QED
      BY <1>7, <2>3, <2>10, <2>15, <2>16, ZenonT(60) DEF Safe, Grows
  <1> QED
    BY <1>8, <1>9, ZenonT(60)

\* The firmware knows exactly one allocation for what dealloc hands to it.
LEMMA DeallocFinds ==
    ASSUME HeapTypeOK, NEW h, Heap(fw, live, mem, h), NEW b \in live
    PROVE  \E x \in fw \ h : Backs(x, b, mem) /\ Freed(b) = {x}
  <1>1. PICK x \in fw \ h : Backs(x, b, mem)
    BY DEF Heap
  <1>2. x.base = actual_alloc_ptr(b)
    BY <1>1 DEF Backs, actual_alloc_ptr
  <1>3. x \in Freed(b)
    BY <1>1, <1>2 DEF Freed, Backs
  <1>4. ASSUME NEW y \in fw, y.base = x.base PROVE y = x
    <2>1. x \in Allocations /\ y \in Allocations
      BY DEF HeapTypeOK
    <2>2. x.base \in R(x) /\ x.base \in R(y)
      BY <1>4, <2>1, SMTT(60) DEF Allocations, Units, R, Range
    <2> QED
      BY <2>2 DEF Heap, R
  <1>5. Freed(b) = {x}
    BY <1>2, <1>3, <1>4 DEF Freed
  <1> QED
    BY <1>1, <1>5

\* dealloc gives back the block and its allocation, or panics without boot services.
LEMMA DeallocStep ==
    ASSUME HeapTypeOK, NEW a \in Actors, NEW c \in Actors \ {a}, Safe(a, c), Held(c)' = Held(c),
           NEW b \in live, dealloc(a, b)
    PROVE  /\ Safe(a, c)'
           /\ \/ active /\ UNCHANGED panicked /\ live' = live \ {b}
              \/ ~ active /\ panicked' = TRUE /\ live' = live
  <1> DEFINE h == Held(a) \cup Held(c)
  <1>1. Heap(fw, live, mem, h) /\ Held(a) \cap Held(c) = {}
    BY DEF Safe
  <1>2. Held(a)' = Held(a)
    <2>1. UNCHANGED <<alloc_pc, layout, memory_type, addr2>>
      BY DEF dealloc, alloc_locals
    <2> QED
      BY <2>1, HeldLocal
  <1>3. PICK x \in fw \ h : Backs(x, b, mem) /\ Freed(b) = {x}
    BY <1>1, DeallocFinds
  <1>4. CASE ~ active
    <2>1. UNCHANGED <<fw, mem, live>> /\ panicked' = TRUE
      BY <1>4 DEF dealloc
    <2>2. Safe(a, c)'
      BY <1>2, <2>1, HeapUnchanged
    <2> QED
      BY <1>4, <2>1, <2>2, ZenonT(60)
  <1>5. CASE active
    <2>1. /\ fw' = fw \ {x} /\ live' = live \ {b} /\ UNCHANGED panicked
          /\ mem' = [u \in Units |-> IF u \in R(x) THEN Data ELSE mem[u]]
      BY <1>3, <1>5 DEF dealloc, R
    <2>2. PICK n : n = mem'
      BY ZenonT(60)
    <2>3. \A y \in fw \ {x} : R(y) \subseteq Units /\ R(y) \cap R(x) = {}
      BY <1>1, <1>3, ZenonT(60) DEF Heap, R, HeapTypeOK
    <2>4. SameBut(x, fw, mem, n)
      BY <2>1, <2>2, <2>3, ZenonT(60) DEF SameBut, HeapTypeOK
    <2>5. fw \subseteq Allocations
      BY DEF HeapTypeOK
    <2> HIDE DEF h
    <2>6. Heap(fw \ {x}, live \ {b}, n, h)
      BY <1>1, <1>3, <2>4, <2>5, FreeHeap
    <2>7. Held(a)' \cup Held(c)' = h
      BY <1>2 DEF h
    <2>8. Heap(fw', live', mem', Held(a)' \cup Held(c)')
      BY <2>1, <2>2, <2>6, <2>7, ZenonT(60)
    <2> QED
      BY <1>1, <1>2, <1>5, <2>1, <2>8 DEF Safe
  <1> QED
    BY <1>4, <1>5, ZenonT(60)

\* The steps of alloc up to its choice of an arm leave the heap alone.
LEMMA QuietStep ==
    ASSUME HeapTypeOK, NEW a \in Actors, NEW c \in Actors \ {a}, Safe(a, c), Held(c)' = Held(c),
           \/ \E l \in Layouts : alloc(a, l)
           \/ get_memory_type_open(a) \/ get_memory_type_close(a) \/ get_memory_type_store(a)
    PROVE  Safe(a, c)' /\ live' = live
  <1>1. UNCHANGED <<fw, live, mem>> /\ alloc_pc[a] \notin {"second", "free_first"} /\ alloc_pc'[a] \notin {"second", "free_first"}
    <2>1. ASSUME NEW l \in Layouts, alloc(a, l)
          PROVE  UNCHANGED <<fw, live, mem>> /\ alloc_pc[a] \notin {"second", "free_first"} /\ alloc_pc'[a] \notin {"second", "free_first"}
      BY <2>1, ZenonT(60) DEF alloc, Starts, Goto, HeapTypeOK, Arm
    <2>2. CASE get_memory_type_open(a) \/ get_memory_type_close(a) \/ get_memory_type_store(a)
      BY <2>2, ZenonT(60) DEF get_memory_type_open, get_memory_type_close, get_memory_type_store, Goto, HeapTypeOK, Arm
    <2> QED
      BY <2>1, <2>2, ZenonT(60)
  <1>2. Held(a) = {} /\ Held(a)' = {}
    BY <1>1, HoldsNothing, ZenonT(60)
  <1> QED
    BY <1>1, <1>2, HeapUnchanged, ZenonT(60)

\* What one step of an actor does to the blocks and to the heap.
LEMMA SafeStep ==
    ASSUME HeapTypeOK, NEW a \in Actors, NEW c \in Actors \ {a}, CallInv(a), Safe(a, c), Step(a)
    PROVE  /\ Safe(a, c)'
           /\ \/ Grows /\ UNCHANGED panicked /\ active /\ ~ panicked
              \/ UNCHANGED <<live, panicked>>
              \/ \E b \in live : live' = live \ {b} /\ UNCHANGED panicked /\ active /\ ~ panicked
              \/ ~ active /\ panicked' = TRUE /\ live' = live
  <1>1. Held(c)' = Held(c)
    BY OthersLocals, HeldLocal, ZenonT(60)
  <1>2. ASSUME NEW b \in live, dealloc(a, b)
        PROVE  /\ Safe(a, c)'
               /\ \/ live' = live \ {b} /\ UNCHANGED panicked /\ active /\ ~ panicked
                  \/ ~ active /\ panicked' = TRUE /\ live' = live
    <2>1. ~ panicked
      BY <1>2 DEF dealloc, Starts, Runs
    <2> QED
      BY <1>1, <1>2, <2>1, DeallocStep, ZenonT(60)
  <1>3. CASE \/ \E l \in Layouts : alloc(a, l)
             \/ get_memory_type_open(a) \/ get_memory_type_close(a) \/ get_memory_type_store(a)
    <2>1. UNCHANGED panicked
      BY <1>3 DEF alloc, get_memory_type_open, get_memory_type_close, get_memory_type_store
    <2> QED
      BY <1>1, <1>3, <2>1, QuietStep
  <1>4. CASE alloc_pool(a) \/ alloc_pool_aligned(a) \/ allocate_pages(a) \/ allocate_pages_free_first(a)
    <2>1. UNCHANGED panicked /\ ~ panicked /\ alloc_pc[a] # "idle"
      BY <1>4, ZenonT(60) DEF alloc_pool, alloc_pool_aligned, allocate_pages, allocate_pages_free_first, Runs
    <2>2. active
      BY <2>1, ZenonT(60) DEF CallInv
    <2>3. Safe(a, c)' /\ (Grows \/ live' = live)
      BY <1>1, <1>4, PoolStep, AlignedStep, PagesStep, FreeFirstStep
    <2> QED
      BY <2>1, <2>2, <2>3, ZenonT(60)
  <1>5. CASE allocate_pages_second(a)
    <2>1. UNCHANGED panicked
      BY <1>5, ZenonT(60) DEF allocate_pages_second
    <2> QED
      BY <1>1, <1>5, <2>1, SecondStep, ZenonT(60)
  <1> QED
    BY <1>2, <1>3, <1>4, <1>5, ZenonT(60) DEF Step

-----------------------------------------------------------------------------
(* Types and the control of a call. *)

HeapTypes ==
    /\ fw \subseteq Allocations /\ \A x \in fw : R(x) \subseteq Units
    /\ live \subseteq Blocks
    /\ mem \in [Units -> Units \cup {Data}]

ControlTypes ==
    /\ MEMORY_TYPE \in Types
    /\ image_open \in {"none", "app"} \cup {a \in Actors : alloc_pc[a] = "close"}
    /\ app_opened \in BOOLEAN /\ active \in BOOLEAN /\ panicked \in BOOLEAN
    /\ alloc_pc \in [Actors -> Labels]
    /\ layout \in [Actors -> Layouts \cup {NoLayout}]
    /\ memory_type \in [Actors -> Types]
    /\ addr1 \in [Actors -> Units \cup {0}] /\ addr2 \in [Actors -> Units \cup {0}]

\* The type invariant in two halves.
LEMMA TypesSplit == HeapTypeOK <=> HeapTypes /\ ControlTypes
  BY DEF HeapTypeOK, HeapTypes, ControlTypes, R

\* A call that returns leaves its local variables in their initial state.
LEMMA ReturnTypes ==
    ASSUME ControlTypes, NEW a \in Actors, alloc_pc[a] # "close", Return(a),
           UNCHANGED <<MEMORY_TYPE, image_open, app_opened, active, panicked>>
    PROVE  ControlTypes' /\ CallInv(a)'
  <1>1. /\ alloc_pc' \in [Actors -> Labels] /\ alloc_pc'[a] = "idle"
        /\ \A d \in Actors : alloc_pc[d] = "close" => alloc_pc'[d] = "close"
    BY DEF Return, Goto, ControlTypes, Labels
  <1>2. /\ layout' \in [Actors -> Layouts \cup {NoLayout}] /\ memory_type' \in [Actors -> Types]
        /\ addr1' \in [Actors -> Units \cup {0}] /\ addr2' \in [Actors -> Units \cup {0}]
    BY ZenonT(60) DEF Return, ControlTypes, Types
  <1>3. CallInv(a)'
    BY <1>1 DEF CallInv
  <1> QED
    BY <1>1, <1>2, <1>3 DEF ControlTypes

\* A step of a call keeps the types of its variables and its control invariant.
LEMMA ControlStep ==
    ASSUME HeapTypeOK, NEW a \in Actors, CallInv(a), Step(a)
    PROVE  ControlTypes' /\ CallInv(a)'
  <1> USE TypesSplit
  <1>1. ASSUME NEW l \in Layouts, alloc(a, l) PROVE ControlTypes' /\ CallInv(a)'
    <2>1. alloc_pc[a] = "idle" /\ active /\ Arm(l) \in Labels /\ alloc_pc'[a] \in {"open", Arm(l)} /\ layout'[a] = l /\ active' = active
      BY <1>1 DEF alloc, Starts, Goto, ControlTypes, Arm, Labels
    <2>2. alloc_pc' \in [Actors -> Labels] /\ \A d \in Actors : alloc_pc[d] = "close" => alloc_pc'[d] = "close"
      BY <1>1, <2>1 DEF alloc, Goto, ControlTypes, Labels
    <2>3. ControlTypes'
      BY <1>1, <2>2, ZenonT(60) DEF alloc, ControlTypes
    <2>4. CallInv(a)'
      BY <2>1 DEF CallInv, Arm
    <2> QED
      BY <2>3, <2>4
  <1>2. CASE get_memory_type_open(a)
    <2>1. alloc_pc[a] = "open" /\ alloc_pc'[a] \in {"close", "store"} /\ layout' = layout /\ active' = active
      BY <1>2 DEF get_memory_type_open, Goto, ControlTypes
    <2>2. alloc_pc' \in [Actors -> Labels] /\ \A d \in Actors : alloc_pc[d] = "close" => alloc_pc'[d] = "close"
      BY <1>2, <2>1 DEF get_memory_type_open, Goto, ControlTypes, Labels
    <2>3. image_open' \in {"none", "app"} \cup {d \in Actors : alloc_pc'[d] = "close"}
      BY <1>2, <2>2 DEF get_memory_type_open, Goto, ControlTypes
    <2>4. memory_type' \in [Actors -> Types]
      BY <1>2 DEF get_memory_type_open, ControlTypes, Types
    <2>5. ControlTypes'
      BY <1>2, <2>2, <2>3, <2>4, ZenonT(60) DEF get_memory_type_open, ControlTypes
    <2>6. CallInv(a)'
      BY <2>1, ZenonT(60) DEF CallInv
    <2> QED
      BY <2>5, <2>6
  <1>3. CASE get_memory_type_close(a)
    <2>1. /\ alloc_pc[a] = "close" /\ alloc_pc'[a] = "store" /\ layout' = layout /\ active' = active
          /\ alloc_pc' \in [Actors -> Labels] /\ memory_type' \in [Actors -> Types]
      BY <1>3 DEF get_memory_type_close, Goto, ControlTypes, Labels, Types
    <2>2. ControlTypes'
      BY <1>3, <2>1, ZenonT(60) DEF get_memory_type_close, ControlTypes
    <2>3. CallInv(a)'
      BY <2>1, ZenonT(60) DEF CallInv
    <2> QED
      BY <2>2, <2>3
  <1>4. CASE get_memory_type_store(a)
    <2>1. /\ alloc_pc[a] = "store" /\ alloc_pc'[a] = Arm(layout[a]) /\ layout' = layout /\ active' = active
          /\ Arm(layout[a]) \in {"pages", "pool", "aligned"}
      BY <1>4, ZenonT(60) DEF get_memory_type_store, Goto, ControlTypes, Arm
    <2>2. alloc_pc' \in [Actors -> Labels] /\ \A d \in Actors : alloc_pc[d] = "close" => alloc_pc'[d] = "close"
      BY <1>4, <2>1 DEF get_memory_type_store, Goto, ControlTypes, Labels
    <2>3. ControlTypes'
      BY <1>4, <2>2, ZenonT(60) DEF get_memory_type_store, stored, ControlTypes
    <2>4. CallInv(a)'
      BY <2>1 DEF CallInv
    <2> QED
      BY <2>3, <2>4
  <1>5. CASE alloc_pool(a) \/ alloc_pool_aligned(a) \/ allocate_pages_free_first(a)
    <2>1. Return(a) /\ UNCHANGED <<MEMORY_TYPE, image_open, app_opened, active, panicked>> /\ alloc_pc[a] # "close"
      BY <1>5, ZenonT(60) DEF alloc_pool, alloc_pool_aligned, allocate_pages_free_first, Deliver, ReturnNull
    <2> QED
      BY <2>1, ReturnTypes, ZenonT(60)
  <1>6. CASE allocate_pages(a)
    <2>1. UNCHANGED <<MEMORY_TYPE, image_open, app_opened, active, panicked>> /\ alloc_pc[a] = "pages"
      BY <1>6, ZenonT(60) DEF allocate_pages
    <2>2. CASE Return(a)
      BY <2>1, <2>2, ReturnTypes
    <2>3. CASE addr1' = [addr1 EXCEPT ![a] = 0] /\ Goto(a, "second") /\ UNCHANGED <<layout, memory_type, addr2>>
      <3>1. /\ alloc_pc'[a] = "second" /\ addr1'[a] = 0 /\ addr1' \in [Actors -> Units \cup {0}]
            /\ alloc_pc' \in [Actors -> Labels] /\ \A d \in Actors : alloc_pc[d] = "close" => alloc_pc'[d] = "close"
        BY <2>1, <2>3 DEF Goto, ControlTypes, Labels
      <3>2. ControlTypes'
        BY <2>1, <2>3, <3>1, ZenonT(60) DEF ControlTypes
      <3>3. CallInv(a)'
        BY <2>1, <2>3, <3>1, ZenonT(60) DEF CallInv
      <3> QED
        BY <3>2, <3>3
    <2> QED
      BY <1>6, <2>2, <2>3, ZenonT(60) DEF allocate_pages, Deliver, ReturnNull
  <1>7. CASE allocate_pages_second(a)
    <2>1. /\ alloc_pc[a] = "second" /\ Goto(a, "free_first")
          /\ UNCHANGED <<MEMORY_TYPE, image_open, app_opened, active, panicked, layout, memory_type, addr1>>
      BY <1>7, ZenonT(60) DEF allocate_pages_second
    <2>2. \E base \in Units \cup {0} : base % PAGE_SIZE = 0 /\ addr2' = [addr2 EXCEPT ![a] = base]
      <3>1. 0 % PAGE_SIZE = 0
        OBVIOUS
      <3> QED
        BY <1>7, <3>1, ZenonT(60) DEF allocate_pages_second, fw_pages
    <2>3. /\ alloc_pc'[a] = "free_first" /\ addr2' \in [Actors -> Units \cup {0}] /\ addr2'[a] % PAGE_SIZE = 0
          /\ alloc_pc' \in [Actors -> Labels] /\ \A d \in Actors : alloc_pc[d] = "close" => alloc_pc'[d] = "close"
      BY <2>1, <2>2 DEF Goto, ControlTypes, Labels
    <2>4. ControlTypes'
      BY <2>1, <2>3, ZenonT(60) DEF ControlTypes
    <2>5. CallInv(a)'
      BY <2>1, <2>3, ZenonT(60) DEF CallInv
    <2> QED
      BY <2>4, <2>5
  <1>8. ASSUME NEW b \in live, dealloc(a, b) PROVE ControlTypes' /\ CallInv(a)'
    <2>1. UNCHANGED <<MEMORY_TYPE, image_open, app_opened, active, alloc_pc, layout, memory_type, addr1, addr2>>
      BY <1>8 DEF dealloc, alloc_locals
    <2>2. panicked' \in BOOLEAN
      BY <1>8, ZenonT(60) DEF dealloc, ControlTypes
    <2> QED
      BY <2>1, <2>2 DEF ControlTypes, CallInv
  <1> QED
    BY <1>1, <1>2, <1>3, <1>4, <1>5, <1>6, <1>7, <1>8 DEF Step

\* Memory is written with Data, or with the base of an allocation.
LEMMA DeliverTypes ==
    ASSUME NEW a, NEW ptr, NEW m \in [Units -> Units \cup {Data}], Deliver(a, ptr, m)
    PROVE  mem' \in [Units -> Units \cup {Data}]
  BY DEF Deliver

\* A step of a call keeps the types of the heap.
LEMMA HeapTypesStep ==
    ASSUME HeapTypeOK, NEW a \in Actors, NEW c \in Actors \ {a}, CallInv(a), Safe(a, c), Step(a)
    PROVE  HeapTypes'
  <1>1. live' \subseteq Blocks
    <2>1. Safe(a, c)'
      BY SafeStep, ZenonT(60)
    <2>2. PICK l, f, m, h : l = live' /\ Heap(f, l, m, h)
      BY <2>1 DEF Safe
    <2> QED
      BY <2>2, ZenonT(60) DEF Heap, GoodBlock
  <1>2. ASSUME NEW kind \in {"pool", "pages"}, NEW base \in Units, NEW size \in Nat \ {0}, IsFree(base, size),
               fw' = fw \cup {Allocation(kind, base, size, memory_type[a])}
        PROVE  fw' \subseteq Allocations /\ \A x \in fw' : R(x) \subseteq Units
    <2> DEFINE x == Allocation(kind, base, size, memory_type[a])
    <2>1. memory_type[a] \in Types
      BY DEF HeapTypeOK
    <2>2. x = Allocation(kind, base, size, memory_type[a])
      OBVIOUS
    <2>3. fw' = fw \cup {x}
      BY <1>2, ZenonT(60)
    <2> HIDE DEF x
    <2>4. x \in Allocations /\ R(x) \subseteq Units
      <3>1. Fresh(Allocation(kind, base, size, memory_type[a]), base, size)
        BY <1>2, <2>1, FreshAllocation, ZenonT(60)
      <3> QED
        BY <2>2, <3>1, ZenonT(60) DEF Fresh
    <2> QED
      BY <2>3, <2>4 DEF HeapTypeOK, R
  <1>3. ASSUME fw' \subseteq fw PROVE fw' \subseteq Allocations /\ \A x \in fw' : R(x) \subseteq Units
    BY <1>3, ZenonT(60) DEF HeapTypeOK, R
  <1>4. alloc_pc[a] # "idle" => layout[a].size \in Nat \ {0} /\ layout[a].align \in Nat \ {0}
    BY DEF CallInv
  <1>5. mem \in [Units -> Units \cup {Data}]
    BY DEF HeapTypeOK
  <1>6. CASE UNCHANGED <<fw, mem>>
    BY <1>1, <1>3, <1>6, ZenonT(60) DEF HeapTypes, HeapTypeOK
  <1>7. CASE alloc_pool(a)
    <2>1. ASSUME NEW base \in fw_pool(layout[a].size),
                 fw' = fw \cup {Allocation("pool", base, layout[a].size, memory_type[a])}, Deliver(a, base, mem)
          PROVE  HeapTypes'
      <3>1. mem' \in [Units -> Units \cup {Data}]
        BY <1>5, <2>1, DeliverTypes, ZenonT(60)
      <3>2. base \in Units /\ IsFree(base, layout[a].size) /\ layout[a].size \in Nat \ {0}
        BY <1>4, <1>7, ZenonT(60) DEF alloc_pool, fw_pool
      <3> QED
        BY <1>1, <1>2, <2>1, <3>1, <3>2, ZenonT(60) DEF HeapTypes
    <2> QED
      BY <1>6, <1>7, <2>1, ZenonT(60) DEF alloc_pool, ReturnNull
  <1>8. CASE alloc_pool_aligned(a)
    <2> DEFINE size == layout[a].size + layout[a].align
    <2>1. ASSUME NEW base \in fw_pool(size), NEW p,
                 fw' = fw \cup {Allocation("pool", base, size, memory_type[a])},
                 Deliver(a, p, [mem EXCEPT ![p - 1] = base])
          PROVE  HeapTypes'
      <3>1. base \in Units /\ IsFree(base, size) /\ size \in Nat \ {0}
        <4>1. base \in Units /\ IsFree(base, size)
          BY ZenonT(60) DEF fw_pool
        <4>2. layout[a].size \in Nat \ {0} /\ layout[a].align \in Nat \ {0}
          BY <1>4, <1>8, ZenonT(60) DEF alloc_pool_aligned
        <4> QED
          BY <4>1, <4>2
      <3>2. [mem EXCEPT ![p - 1] = base] \in [Units -> Units \cup {Data}]
        BY <1>5, <3>1, ZenonT(60)
      <3>3. mem' \in [Units -> Units \cup {Data}]
        BY <2>1, <3>2, DeliverTypes, ZenonT(60)
      <3> HIDE DEF size
      <3> QED
        BY <1>1, <1>2, <2>1, <3>1, <3>3, ZenonT(60) DEF HeapTypes
    <2> QED
      BY <1>6, <1>8, <2>1, ZenonT(60) DEF alloc_pool_aligned, ReturnNull
  <1>9. ASSUME NEW base \in fw_pages(layout[a].size), fw' = fw \cup {PageAlloc(a, base)}, alloc_pc[a] # "idle"
        PROVE  fw' \subseteq Allocations /\ \A x \in fw' : R(x) \subseteq Units
    <2>1. base \in Units /\ IsFree(base, layout[a].size) /\ layout[a].size \in Nat \ {0}
      BY <1>4, <1>9, ZenonT(60) DEF fw_pages
    <2>2. fw' = fw \cup {Allocation("pages", base, layout[a].size, memory_type[a])}
      BY <1>9, ZenonT(60) DEF PageAlloc
    <2> QED
      BY <1>2, <2>1, <2>2, ZenonT(60)
  <1>10. CASE allocate_pages(a)
    <2>1. ASSUME NEW base \in fw_pages(layout[a].size), fw' = fw \cup {PageAlloc(a, base)},
                 Deliver(a, base, mem) \/ UNCHANGED mem
          PROVE  HeapTypes'
      <3>1. mem' \in [Units -> Units \cup {Data}]
        BY <1>5, <2>1, DeliverTypes, ZenonT(60)
      <3>2. alloc_pc[a] # "idle"
        BY <1>10, ZenonT(60) DEF allocate_pages
      <3> QED
        BY <1>1, <1>9, <2>1, <3>1, <3>2, ZenonT(60) DEF HeapTypes
    <2> QED
      BY <1>6, <1>10, <2>1, ZenonT(60) DEF allocate_pages, ReturnNull
  <1>11. CASE allocate_pages_second(a)
    <2>1. UNCHANGED mem /\ alloc_pc[a] # "idle"
      BY <1>11, ZenonT(60) DEF allocate_pages_second
    <2>2. \/ \E base \in fw_pages(layout[a].size) : fw' = fw \cup {PageAlloc(a, base)}
          \/ UNCHANGED fw
      BY <1>11, ZenonT(60) DEF allocate_pages_second
    <2> QED
      BY <1>1, <1>5, <1>6, <1>9, <2>1, <2>2, ZenonT(60) DEF HeapTypes
  <1>12. CASE allocate_pages_free_first(a)
    <2>1. fw' \subseteq fw
      BY <1>12, ZenonT(60) DEF allocate_pages_free_first, without_first
    <2>2. mem' \in [Units -> Units \cup {Data}]
      BY <1>5, <1>12, DeliverTypes, ZenonT(60) DEF allocate_pages_free_first, ReturnNull
    <2> QED
      BY <1>1, <1>3, <2>1, <2>2, ZenonT(60) DEF HeapTypes
  <1>13. ASSUME NEW b \in live, dealloc(a, b) PROVE HeapTypes'
    <2>1. fw' \subseteq fw /\ mem' \in [Units -> Units \cup {Data}]
      BY <1>5, <1>13 DEF dealloc
    <2> QED
      BY <1>1, <1>3, <2>1 DEF HeapTypes
  <1>14. CASE \/ \E l \in Layouts : alloc(a, l)
              \/ get_memory_type_open(a) \/ get_memory_type_close(a) \/ get_memory_type_store(a)
    <2>1. UNCHANGED <<fw, mem>>
      BY <1>14 DEF alloc, get_memory_type_open, get_memory_type_close, get_memory_type_store
    <2> QED
      BY <1>6, <2>1, ZenonT(60)
  <1> QED
    BY <1>7, <1>8, <1>10, <1>11, <1>12, <1>13, <1>14 DEF Step

-----------------------------------------------------------------------------
(* The invariant *)

\* The order of the two actors does not matter.
LEMMA SafeSymmetric ==
    ASSUME NEW a, NEW c
    PROVE  /\ Safe(a, c) <=> Safe(c, a)
           /\ Safe(a, c)' <=> Safe(c, a)'
  <1>1. Held(a) \cup Held(c) = Held(c) \cup Held(a) /\ Held(a) \cap Held(c) = Held(c) \cap Held(a)
    OBVIOUS
  <1>2. Held(a)' \cup Held(c)' = Held(c)' \cup Held(a)' /\ Held(a)' \cap Held(c)' = Held(c)' \cap Held(a)'
    OBVIOUS
  <1>3. Safe(a, c) <=> Safe(c, a)
    BY <1>1 DEF Safe
  <1>4. Safe(a, c)' <=> Safe(c, a)'
    BY <1>2 DEF Safe
  <1> QED
    BY <1>3, <1>4

\* The invariant, with the actors named.
LEMMA InvariantSplit ==
    HeapIInv <=> /\ HeapTypeOK /\ DeallocNeverPanics /\ CallInv("main") /\ CallInv("callback")
                 /\ Safe("main", "callback")
  BY DEF HeapIInv, Safe, Actors

\* The invariant holds before the first allocation.
LEMMA InitInvariant == HeapInit => HeapIInv
  <1> SUFFICES ASSUME HeapInit PROVE HeapIInv
    OBVIOUS
  <1>1. HeapTypeOK
    BY ZenonT(60) DEF HeapInit, HeapTypeOK, Types, Labels
  <1>2. DeallocNeverPanics
    BY DEF HeapInit, DeallocNeverPanics
  <1>3. alloc_pc["main"] = "idle" /\ alloc_pc["callback"] = "idle"
    BY DEF HeapInit, Actors
  <1>4. CallInv("main") /\ CallInv("callback")
    BY <1>3 DEF CallInv
  <1>5. Held("main") = {} /\ Held("callback") = {}
    BY <1>3, HoldsNothing
  <1>6. Safe("main", "callback")
    BY <1>5 DEF HeapInit, Safe, Heap
  <1> QED
    BY <1>1, <1>2, <1>4, <1>6, InvariantSplit

\* Every step of alloc and dealloc, of either actor, keeps the invariant.
LEMMA ActorInvariant ==
    ASSUME HeapIInv, NEW a \in Actors, Step(a)
    PROVE  HeapIInv'
  <1>1. PICK c \in Actors \ {a} : {a, c} = {"main", "callback"}
    BY DEF Actors
  <1>2. HeapTypeOK /\ CallInv(a) /\ CallInv(c) /\ Safe(a, c)
    BY <1>1, InvariantSplit, SafeSymmetric
  <1>3. HeapTypeOK'
    <2>1. HeapTypes' /\ ControlTypes'
      BY <1>2, HeapTypesStep, ControlStep
    <2> QED
      BY <2>1 DEF HeapTypeOK, HeapTypes, ControlTypes, R
  <1>4. CallInv(a)' /\ CallInv(c)'
    <2>1. CallInv(a)'
      BY <1>2, ControlStep, ZenonT(60)
    <2>2. CallInv(c)'
      BY <1>2, OthersLocals, ZenonT(60) DEF CallInv
    <2> QED
      BY <2>1, <2>2
  <1>5. Safe("main", "callback")'
    <2>1. Safe(a, c)'
      BY <1>2, SafeStep, ZenonT(60)
    <2> QED
      BY <1>1, <2>1, SafeSymmetric
  <1>6. DeallocNeverPanics'
    <2>1. active' = active
      BY <1>2, OthersLocals
    <2>2. panicked' = panicked \/ ~ active
      BY <1>2, SafeStep, ZenonT(60)
    <2> QED
      BY <2>1, <2>2, InvariantSplit, ZenonT(60) DEF DeallocNeverPanics
  <1>7. CallInv("main")' /\ CallInv("callback")'
    BY <1>1, <1>4
  <1> QED
    BY <1>3, <1>5, <1>6, <1>7 DEF HeapIInv, Safe, Actors

\* The application opens and closes LoadedImage, or leaves boot services.
LEMMA ApplicationInvariant ==
    ASSUME HeapIInv, app_open_image \/ app_close_image \/ app_exit_boot_services
    PROVE  HeapIInv'
  <1>1. UNCHANGED <<fw, mem, live, MEMORY_TYPE, panicked, alloc_pc, layout, memory_type, addr1, addr2>>
    BY DEF app_open_image, app_close_image, app_exit_boot_services, alloc_locals
  <1>2. alloc_pc["main"] = "idle" /\ alloc_pc["callback"] = "idle"
    BY DEF app_open_image, app_close_image, app_exit_boot_services, Starts, Runs
  <1>3. HeapTypeOK'
    <2>1. HeapTypeOK
      BY InvariantSplit, ZenonT(60)
    <2>2. /\ app_opened' \in BOOLEAN /\ active' \in BOOLEAN
          /\ image_open' \in {"none", "app"} \cup {a \in Actors : alloc_pc'[a] = "close"}
      BY <1>1, <2>1, ZenonT(60) DEF app_open_image, app_close_image, app_exit_boot_services, HeapTypeOK
    <2> QED
      BY <1>1, <2>1, <2>2 DEF HeapTypeOK
  <1>4. DeallocNeverPanics'
    BY <1>1, InvariantSplit DEF app_open_image, app_close_image, app_exit_boot_services, DeallocNeverPanics
  <1>5. CallInv("main")' /\ CallInv("callback")'
    BY <1>1, <1>2 DEF CallInv
  <1>6. Safe("main", "callback")'
    <2>1. Held("main")' = Held("main") /\ Held("callback")' = Held("callback")
      BY <1>1, HeldLocal
    <2> QED
      BY <1>1, <2>1, HeapUnchanged, InvariantSplit
  <1> QED
    BY <1>3, <1>4, <1>5, <1>6 DEF HeapIInv, Safe, Actors

\* A step is one of an actor or one of the application.
LEMMA NextSplit == HeapNext <=> (\E a \in Actors : Step(a)) \/ app_open_image \/ app_close_image \/ app_exit_boot_services
  BY DEF HeapNext, Step

\* The inductive invariant: every allocation of the firmware is behind exactly
\* one block, or held by an allocate_pages under way, and dealloc can find it.
THEOREM AllocatorInvariant == HeapSpec => []HeapIInv
  <1>1. HeapIInv /\ [HeapNext]_heap_vars => HeapIInv'
    <2> SUFFICES ASSUME HeapIInv, [HeapNext]_heap_vars PROVE HeapIInv'
      OBVIOUS
    <2>1. CASE HeapNext
      BY <2>1, NextSplit, ActorInvariant, ApplicationInvariant, SMTT(30)
    <2>2. CASE UNCHANGED heap_vars
      <3>1. UNCHANGED <<fw, mem, live, MEMORY_TYPE, image_open, app_opened, active, panicked,
                        alloc_pc, layout, memory_type, addr1, addr2>>
        BY <2>2, ZenonT(60) DEF heap_vars, alloc_locals
      <3>2. HeapTypeOK'
        BY <3>1, InvariantSplit, ZenonT(60) DEF HeapTypeOK
      <3>3. DeallocNeverPanics' /\ CallInv("main")' /\ CallInv("callback")'
        BY <3>1, InvariantSplit DEF DeallocNeverPanics, CallInv
      <3>4. Safe("main", "callback")'
        BY <3>1, HeldLocal, HeapUnchanged, InvariantSplit
      <3> QED
        BY <3>2, <3>3, <3>4 DEF HeapIInv, Safe, Actors
    <2> QED
      BY <2>1, <2>2
  <1> QED
    BY <1>1, InitInvariant, PTL DEF HeapSpec

-----------------------------------------------------------------------------
(* Its consequences *)

\* Type correctness: allocations and blocks lie in memory, and LoadedImage is
\* held open by get_memory_type (allocator.rs:29) only while it reads the type.
THEOREM AllocatorTypes == HeapSpec => []HeapTypeOK
  BY AllocatorInvariant, PTL DEF HeapIInv

\* As long as boot services are active dealloc (allocator.rs:144) never
\* panics, for every memory, page size and set of layouts.
THEOREM AllocatorNeverPanics == HeapSpec => []DeallocNeverPanics
  BY AllocatorInvariant, PTL DEF HeapIInv

\* Two blocks of a heap lie in different allocations.
LEMMA BlocksApart ==
    ASSUME NEW f, NEW l, NEW m, NEW h, Heap(f, l, m, h), NEW x \in f, NEW b \in l, NEW c \in l \ {b},
           Backs(x, b, m)
    PROVE  Cells(c) \cap R(x) = {}
  <1>1. PICK y \in f : Backs(y, c, m)
    BY ZenonT(60) DEF Heap
  <1>2. y # x /\ c \in Blocks
    <2>1. \A z \in f, d, e \in l : Backs(z, d, m) /\ Backs(z, e, m) => d = e
      BY ZenonT(60) DEF Heap
    <2>2. c \in Blocks
      BY ZenonT(60) DEF Heap, GoodBlock
    <2> QED BY <1>1, <2>1, <2>2, ZenonT(60)
  <1>3. Cells(c) \subseteq R(y)
    BY <1>1, <1>2, FirstCell
  <1>4. R(y) \cap R(x) = {}
    BY <1>2, ZenonT(60) DEF Heap, R
  <1> QED
    BY <1>3, <1>4

\* Blocks are never null, aligned, inside one allocation and disjoint, and no
\* pointer hidden by alloc_pool_aligned is in one.
THEOREM AllocatorBlocksExclusive == HeapSpec => []BlocksExclusive
  <1>1. HeapIInv => BlocksExclusive
    <2> SUFFICES ASSUME HeapIInv, NEW b \in live
                 PROVE  /\ b.ptr # 0 /\ b.ptr % b.layout.align = 0
                        /\ \E x \in fw : Cells(b) \subseteq Range(x.base, x.size)
                        /\ \A c \in live \ {b} : Cells(b) \cap Cells(c) = {}
                        /\ \A u \in Cells(b) : mem[u] = Data
      BY DEF BlocksExclusive
    <2> DEFINE h == Held("main") \cup Held("callback")
    <2>1. Heap(fw, live, mem, h)
      BY DEF HeapIInv
    <2> HIDE DEF h
    <2>2. GoodBlock(b) /\ \A u \in Cells(b) : mem[u] = Data
      BY <2>1 DEF Heap
    <2>3. PICK x \in fw : Backs(x, b, mem)
      BY <2>1, ZenonT(60) DEF Heap
    <2>4. Cells(b) \subseteq R(x)
      BY <2>2, <2>3, FirstCell DEF GoodBlock
    <2>5. \A c \in live \ {b} : Cells(c) \cap R(x) = {}
      BY <2>1, <2>3, BlocksApart
    <2> QED
      BY <2>2, <2>4, <2>5, ZenonT(60) DEF GoodBlock, R
  <1> QED
    BY <1>1, AllocatorInvariant, PTL

\* Between calls every allocation of the firmware is behind exactly one block:
\* none is lost, the one at address zero that allocate_pages replaces included.
THEOREM AllocatorNoLeak == HeapSpec => []NoLeak
  <1>1. HeapIInv => NoLeak
    <2> SUFFICES ASSUME HeapIInv, Idle, NEW x \in fw
                 PROVE  \E b \in live : /\ Cells(b) \subseteq Range(x.base, x.size)
                                       /\ \A c \in live \ {b} : Cells(c) \cap Range(x.base, x.size) = {}
      BY DEF NoLeak
    <2>1. Held("main") = {} /\ Held("callback") = {}
      BY HoldsNothing DEF Idle, Actors
    <2>2. Heap(fw, live, mem, {})
      BY <2>1, SMTT(30) DEF HeapIInv
    <2>3. PICK b \in live : Backs(x, b, mem)
      BY <2>2, ZenonT(60) DEF Heap
    <2>4. b \in Blocks
      BY <2>2 DEF Heap, GoodBlock
    <2>5. Cells(b) \subseteq R(x)
      BY <2>3, <2>4, FirstCell
    <2>6. \A c \in live \ {b} : Cells(c) \cap R(x) = {}
      BY <2>2, <2>3, BlocksApart
    <2> QED
      BY <2>5, <2>6 DEF R
  <1> QED
    BY <1>1, AllocatorInvariant, PTL

\* The allocator implements BlockStore: its users see a store of disjoint,
\* aligned blocks that can all be given back until boot services end.
THEOREM AllocatorStoresBlocks == HeapSpec => StoresBlocks
  <1>1. HeapInit => Store!Init
    BY DEF HeapInit, Store!Init
  <1>2. HeapIInv /\ [HeapNext]_heap_vars => [Store!Next]_(Store!vars)
    <2> SUFFICES ASSUME HeapIInv, [HeapNext]_heap_vars PROVE Store!Next \/ UNCHANGED <<live, active, panicked>>
      BY DEF Store!vars
    <2>1. ASSUME NEW a \in Actors, Step(a) PROVE Store!Next \/ UNCHANGED <<live, active, panicked>>
      <3>1. PICK c \in Actors \ {a} : {a, c} = {"main", "callback"}
        BY DEF Actors
      <3>2. HeapTypeOK /\ CallInv(a) /\ Safe(a, c)
        BY <3>1, InvariantSplit, SafeSymmetric, SMTT(30)
      <3>3. active' = active
        BY <2>1, <3>2, OthersLocals
      <3>4. CASE Grows /\ UNCHANGED panicked /\ active /\ ~ panicked
        <4>1. PICK b : /\ GoodBlock(b) /\ live' = live \cup {b}
                       /\ \A d \in live : Cells(b) \cap Cells(d) = {}
          BY <3>4 DEF Grows
        <4>2. b = [ptr |-> b.ptr, layout |-> b.layout] /\ b.ptr \in Units \ {0} /\ b.layout \in Layouts
          BY <4>1, ZenonT(60) DEF GoodBlock, Blocks
        <4>3. b \in [ptr : Units \ {0}, layout : Layouts] /\ b \in live'
          BY <4>1, <4>2
        <4>4. \A d \in live : Store!Apart(b, d)
          BY <4>1, ZenonT(60) DEF Store!Apart, Store!Cells, Cells, Range
        <4>5. Store!Take(b)
          BY <3>3, <3>4, <4>1, <4>3, <4>4 DEF Store!Take, GoodBlock
        <4> QED
          BY <4>3, <4>5 DEF Store!Next
      <3>5. ASSUME NEW b \in live, live' = live \ {b}, UNCHANGED panicked, active, ~ panicked
            PROVE  Store!Next
        BY <3>3, <3>5 DEF Store!Next, Store!GiveBack
      <3>6. CASE ~ active /\ panicked' = TRUE /\ live' = live
        BY <3>3, <3>6, ZenonT(60) DEF Store!Next, Store!Panic
      <3> QED
        BY <2>1, <3>2, <3>3, <3>4, <3>5, <3>6, SafeStep, ZenonT(60)
    <2>2. CASE app_exit_boot_services
      BY <2>2, ZenonT(60) DEF app_exit_boot_services, Starts, Runs, Store!Next, Store!Exit
    <2>3. CASE app_open_image \/ app_close_image
      BY <2>3 DEF app_open_image, app_close_image
    <2>4. CASE UNCHANGED heap_vars
      BY <2>4, ZenonT(60) DEF heap_vars
    <2> QED
      BY <2>1, <2>2, <2>3, <2>4, NextSplit
  <1> QED
    BY <1>1, <1>2, AllocatorInvariant, PTL DEF HeapSpec, StoresBlocks, Store!Spec

-----------------------------------------------------------------------------
(* The cache of the memory type *)

\* Until the application opens LoadedImage itself only a callback falls back
\* to LOADER_DATA, and it does so while the main program has LoadedImage open,
\* so that the main program stores the right type after it.
FallbackInv ==
    ~ app_opened =>
        /\ image_open # "app"
        /\ alloc_pc["main"] = "store" => memory_type["main"] = DATA_TYPE
        /\ alloc_pc["callback"] = "store" => memory_type["callback"] = DATA_TYPE \/ alloc_pc["main"] = "close"
        /\ MEMORY_TYPE = LOADER_DATA => alloc_pc["main"] \in {"close", "store"}

\* Every step of alloc and dealloc keeps FallbackInv.
LEMMA FallbackStep ==
    ASSUME HeapIInv, FallbackInv, NEW a \in Actors, Step(a)
    PROVE  FallbackInv'
  <1> SUFFICES ASSUME ~ app_opened'
               PROVE  /\ image_open' # "app"
                      /\ alloc_pc'["main"] = "store" => memory_type'["main"] = DATA_TYPE
                      /\ alloc_pc'["callback"] = "store" => memory_type'["callback"] = DATA_TYPE \/ alloc_pc'["main"] = "close"
                      /\ MEMORY_TYPE' = LOADER_DATA => alloc_pc'["main"] \in {"close", "store"}
    BY DEF FallbackInv
  <1>1. HeapTypeOK /\ {a} \subseteq {"main", "callback"} /\ Actors = {"main", "callback"}
    BY ZenonT(60) DEF HeapIInv, Actors
  <1>2. Runs(a)
    BY ZenonT(60) DEF Step, alloc, get_memory_type_open, get_memory_type_close, get_memory_type_store, alloc_pool,
           alloc_pool_aligned, allocate_pages, allocate_pages_second, allocate_pages_free_first, dealloc, Starts
  <1>3. /\ image_open \in {"none", "app"} \cup {d \in Actors : alloc_pc[d] = "close"}
        /\ alloc_pc \in [Actors -> Labels] /\ memory_type \in [Actors -> Types]
    BY <1>1, ZenonT(60) DEF HeapTypeOK
  <1>4. \A d \in Actors \ {a} : alloc_pc'[d] = alloc_pc[d] /\ memory_type'[d] = memory_type[d]
    BY <1>1, OthersLocals, ZenonT(60)
  <1>5. CASE get_memory_type_open(a)
    <2>1. /\ alloc_pc[a] = "open" /\ UNCHANGED <<app_opened, MEMORY_TYPE>>
          /\ \/ image_open = "none" /\ image_open' = a /\ alloc_pc'[a] = "close"
             \/ image_open # "none" /\ image_open' = image_open /\ alloc_pc'[a] = "store"
      BY <1>3, <1>5 DEF get_memory_type_open, Goto
    <2>2. a = "main" => image_open = "none"
      BY <1>1, <1>2, <1>3, <2>1 DEF Runs, FallbackInv
    <2>3. image_open # "none" => a = "callback" /\ alloc_pc["main"] = "close"
      BY <1>1, <1>3, <2>1, <2>2, ZenonT(60) DEF FallbackInv
    <2> QED
      BY <1>1, <1>4, <2>1, <2>2, <2>3, ZenonT(60) DEF FallbackInv
  <1>6. CASE get_memory_type_close(a)
    <2>1. /\ alloc_pc[a] = "close" /\ UNCHANGED <<app_opened, MEMORY_TYPE>>
          /\ image_open' = "none" /\ alloc_pc'[a] = "store" /\ memory_type'[a] = DATA_TYPE
      BY <1>3, <1>6 DEF get_memory_type_close, Goto
    <2>2. a = "main" => alloc_pc["callback"] = "idle"
      BY <1>2, ZenonT(60) DEF Runs
    <2> QED
      BY <1>1, <1>4, <2>1, <2>2 DEF FallbackInv
  <1>7. CASE get_memory_type_store(a)
    <2>1. /\ alloc_pc[a] = "store" /\ UNCHANGED <<app_opened, image_open>>
          /\ MEMORY_TYPE' = memory_type[a] /\ alloc_pc'[a] \notin {"close", "store"}
      BY <1>3, <1>7 DEF get_memory_type_store, stored, Goto, Arm
    <2>2. a = "main" => alloc_pc["callback"] = "idle"
      BY <1>2 DEF Runs
    <2>3. LOADER_DATA # DATA_TYPE
      OBVIOUS
    <2> QED
      BY <1>1, <1>4, <2>1, <2>2, <2>3, ZenonT(60) DEF FallbackInv
  <1>8. CASE ~ (get_memory_type_open(a) \/ get_memory_type_close(a) \/ get_memory_type_store(a))
    <2>1. /\ UNCHANGED <<app_opened, image_open, MEMORY_TYPE>>
          /\ \/ alloc_pc[a] \notin {"close", "store"} /\ alloc_pc'[a] \notin {"close", "store"}
             \/ UNCHANGED <<alloc_pc, memory_type>>
      <3>1. ASSUME NEW l \in Layouts, alloc(a, l)
            PROVE  /\ UNCHANGED <<app_opened, image_open, MEMORY_TYPE>>
                   /\ alloc_pc[a] \notin {"close", "store"} /\ alloc_pc'[a] \notin {"close", "store"}
        BY <1>3, <3>1, ZenonT(60) DEF alloc, Starts, Goto, Arm
      <3>2. CASE alloc_pool(a) \/ alloc_pool_aligned(a) \/ allocate_pages_free_first(a)
        BY <1>3, <3>2, ZenonT(60) DEF alloc_pool, alloc_pool_aligned, allocate_pages_free_first, Deliver, ReturnNull, Return, Goto
      <3>3. CASE allocate_pages(a) \/ allocate_pages_second(a)
        BY <1>3, <3>3, SMTT(30) DEF allocate_pages, allocate_pages_second, Deliver, ReturnNull, Return, Goto
      <3>4. ASSUME NEW b \in live, dealloc(a, b)
            PROVE  UNCHANGED <<app_opened, image_open, MEMORY_TYPE, alloc_pc, memory_type>>
        BY <3>4 DEF dealloc, alloc_locals
      <3> QED
        BY <1>8, <3>1, <3>2, <3>3, <3>4 DEF Step
    <2>2. (a = "main" => alloc_pc["callback"] = "idle")
      BY <1>2 DEF Runs
    <2> QED
      BY <1>1, <1>4, <2>1, <2>2, ZenonT(60) DEF FallbackInv
  <1> QED
    BY <1>5, <1>6, <1>7, <1>8, ZenonT(60)

\* The LOADER_DATA a callback falls back to never stays in MEMORY_TYPE once
\* the main program's lookup (allocator.rs:37) is over.
THEOREM AllocatorFallback == HeapSpec => []FallbackDoesNotStick
  <1>1. HeapInit => FallbackInv
    BY ReservedAssumption DEF HeapInit, FallbackInv, Actors, RESERVED
  <1>2. HeapIInv /\ FallbackInv /\ [HeapNext]_heap_vars => FallbackInv'
    <2> SUFFICES ASSUME HeapIInv, FallbackInv, [HeapNext]_heap_vars PROVE FallbackInv'
      BY ZenonT(60)
    <2>1. CASE app_open_image \/ app_close_image \/ app_exit_boot_services
      BY <2>1, ZenonT(60) DEF app_open_image, app_close_image, app_exit_boot_services, alloc_locals, FallbackInv
    <2>2. CASE UNCHANGED heap_vars
      BY <2>2, ZenonT(60) DEF heap_vars, alloc_locals, FallbackInv
    <2> QED
      BY <2>1, <2>2, NextSplit, FallbackStep
  <1>3. HeapIInv /\ FallbackInv => FallbackDoesNotStick
    BY DEF HeapIInv, HeapTypeOK, Types, FallbackInv, FallbackDoesNotStick, Idle, Actors
  <1> QED
    BY <1>1, <1>2, <1>3, AllocatorInvariant, PTL DEF HeapSpec
=============================================================================
