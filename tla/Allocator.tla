------------------------------ MODULE Allocator ------------------------------
(***************************************************************************)
(* The global allocator (uefi/src/allocator.rs) on top of allocate_pool,   *)
(* allocate_pages and their counterparts (uefi/src/boot.rs).               *)
(*                                                                         *)
(* Memory is an array of units of eight bytes, the alignment the firmware  *)
(* gives and the size of a pointer; sizes and alignments count units, so   *)
(* alignment 1 stands for all alignments up to eight bytes.  mem holds the *)
(* pointers the allocator writes before aligned blocks, Data elsewhere.    *)
(*                                                                         *)
(* Event notification functions may interrupt the main program between any *)
(* two of its firmware calls, run to completion and use the same allocator *)
(* (the actor "callback").                                                 *)
(***************************************************************************)
EXTENDS Integers, FiniteSets

CONSTANTS
    MemUnits,       \* bound: units of memory
    PAGE_SIZE,      \* units of one page
    Layouts,        \* bound: [size, align] of the blocks requested
    MaxLive,        \* bound: blocks held at a time
    LOADER_DATA, DATA_TYPE      \* memory types: the default, the image's own

ASSUME MemAssumption == MemUnits \in Nat /\ PAGE_SIZE \in Nat \ {0}
ASSUME LayoutsAssumption == Layouts \subseteq [size : Nat \ {0}, align : Nat \ {0}]
ASSUME TypesAssumption == LOADER_DATA # DATA_TYPE
ASSUME ReservedAssumption == "RESERVED" \notin {LOADER_DATA, DATA_TYPE}
ASSUME MaxLiveAssumption == MaxLive \in Nat

Actors == {"main", "callback"}
RESERVED == "RESERVED"
Data == -1

VARIABLES
    fw,             \* the firmware's allocations: [base, size, kind, ty]
    mem,            \* unit -> pointer stored there, or Data
    live,           \* blocks handed out: [ptr, layout]
    MEMORY_TYPE,    \* the static of get_memory_type
    image_open,     \* who has LoadedImage open exclusively
    app_opened,     \* history: the application has opened LoadedImage itself
    active,         \* boot services active
    panicked,
    alloc_pc, layout, memory_type, addr1, addr2     \* per actor: alloc in progress

alloc_locals == <<alloc_pc, layout, memory_type, addr1, addr2>>
heap_vars == <<fw, mem, live, MEMORY_TYPE, image_open, app_opened, active, panicked, alloc_locals>>

Units == 0 .. MemUnits - 1
Range(base, size) == base .. base + size - 1
Block(ptr, l) == [ptr |-> ptr, layout |-> l]
Cells(b) == Range(b.ptr, b.layout.size)
NoLayout == [size |-> 0, align |-> 0]

-----------------------------------------------------------------------------
(* The firmware: it hands out any free range, or fails. *)

IsFree(base, size) ==
    /\ Range(base, size) \subseteq Units
    /\ \A a \in fw : Range(base, size) \cap Range(a.base, a.size) = {}

Allocation(kind, base, size, ty) == [kind |-> kind, base |-> base, size |-> size, ty |-> ty]

\* AllocatePool never returns address zero, AllocatePages may.
fw_pool(size) == {b \in Units \ {0} : IsFree(b, size)}
fw_pages(size) == {b \in Units : b % PAGE_SIZE = 0 /\ IsFree(b, size)}

-----------------------------------------------------------------------------
HeapInit ==
    /\ fw = {} /\ live = {}
    /\ mem = [u \in Units |-> Data]
    /\ MEMORY_TYPE = RESERVED /\ image_open = "none"
    /\ app_opened = FALSE /\ active = TRUE /\ panicked = FALSE
    /\ alloc_pc = [a \in Actors |-> "idle"]
    /\ layout = [a \in Actors |-> NoLayout]
    /\ memory_type = [a \in Actors |-> RESERVED]
    /\ addr1 = [a \in Actors |-> 0] /\ addr2 = [a \in Actors |-> 0]

\* The main program only runs while no callback does.
Runs(a) == ~ panicked /\ (a = "main" => alloc_pc["callback"] = "idle")

\* A callback only interrupts a main program that is inside an allocation;
\* at other times it is indistinguishable from the main program itself.
Starts(a) == Runs(a) /\ alloc_pc[a] = "idle" /\ (a = "callback" => alloc_pc["main"] # "idle")

Goto(a, label) == alloc_pc' = [alloc_pc EXCEPT ![a] = label]

layout_allows_page_alloc_shortcut(l) == l.size % PAGE_SIZE = 0 /\ l.align = PAGE_SIZE

\* Which of the three arms of `match` takes a layout
Arm(l) == IF layout_allows_page_alloc_shortcut(l) THEN "pages"
          ELSE IF l.align = 1 THEN "pool" ELSE "aligned"

-----------------------------------------------------------------------------
(* alloc.  After exit_boot_services it returns null and changes nothing. *)

\* Mutated form: the boot services are not asked for.
alloc_after_exit(a, l) ==
    /\ Starts(a)
    /\ Cardinality(live) < MaxLive
    /\ layout' = [layout EXCEPT ![a] = l]
    /\ memory_type' = [memory_type EXCEPT ![a] = MEMORY_TYPE]
    /\ Goto(a, IF MEMORY_TYPE = RESERVED THEN "open" ELSE Arm(l))
    /\ UNCHANGED <<fw, mem, live, MEMORY_TYPE, image_open, app_opened, active, panicked, addr1, addr2>>

alloc(a, l) ==
    /\ Starts(a) /\ active
    /\ Cardinality(live) < MaxLive
    /\ layout' = [layout EXCEPT ![a] = l]
    /\ memory_type' = [memory_type EXCEPT ![a] = MEMORY_TYPE]
    /\ Goto(a, IF MEMORY_TYPE = RESERVED THEN "open" ELSE Arm(l))
    /\ UNCHANGED <<fw, mem, live, MEMORY_TYPE, image_open, app_opened, active, panicked, addr1, addr2>>

\* get_memory_type: open LoadedImage exclusively, which fails while anyone
\* has it open like that.
get_memory_type_open(a) ==
    /\ Runs(a) /\ alloc_pc[a] = "open"
    /\ IF image_open = "none"
       THEN image_open' = a /\ Goto(a, "close") /\ UNCHANGED memory_type
       ELSE /\ memory_type' = [memory_type EXCEPT ![a] = LOADER_DATA]
            /\ Goto(a, "store") /\ UNCHANGED image_open
    /\ UNCHANGED <<fw, mem, live, MEMORY_TYPE, app_opened, active, panicked, layout, addr1, addr2>>

\* data_type(), and the drop of loaded_image
get_memory_type_close(a) ==
    /\ Runs(a) /\ alloc_pc[a] = "close"
    /\ memory_type' = [memory_type EXCEPT ![a] = DATA_TYPE]
    /\ image_open' = "none"
    /\ Goto(a, "store")
    /\ UNCHANGED <<fw, mem, live, MEMORY_TYPE, app_opened, active, panicked, layout, addr1, addr2>>

\* Mutated form: the first value stored wins.
StoredFirstWins(a) == IF MEMORY_TYPE = RESERVED THEN memory_type[a] ELSE MEMORY_TYPE

stored(a) == memory_type[a]

get_memory_type_store(a) ==
    /\ Runs(a) /\ alloc_pc[a] = "store"
    /\ MEMORY_TYPE' = stored(a)
    /\ Goto(a, Arm(layout[a]))
    /\ UNCHANGED <<fw, mem, live, image_open, app_opened, active, panicked, layout, memory_type, addr1, addr2>>

\* alloc returns, and its local variables are gone.
Return(a) ==
    /\ Goto(a, "idle")
    /\ layout' = [layout EXCEPT ![a] = NoLayout]
    /\ memory_type' = [memory_type EXCEPT ![a] = RESERVED]
    /\ addr1' = [addr1 EXCEPT ![a] = 0] /\ addr2' = [addr2 EXCEPT ![a] = 0]

\* The block is handed out and its owner writes to it.
Deliver(a, ptr, m) ==
    /\ live' = live \cup {Block(ptr, layout[a])}
    /\ mem' = [u \in Units |-> IF u \in Range(ptr, layout[a].size) THEN Data ELSE m[u]]
    /\ Return(a)

ReturnNull(a) == Return(a) /\ UNCHANGED <<live, mem>>

alloc_pool(a) ==
    /\ Runs(a) /\ alloc_pc[a] = "pool"
    /\ \/ \E base \in fw_pool(layout[a].size) :
             /\ fw' = fw \cup {Allocation("pool", base, layout[a].size, memory_type[a])}
             /\ Deliver(a, base, mem)
       \/ UNCHANGED fw /\ ReturnNull(a)
    /\ UNCHANGED <<MEMORY_TYPE, image_open, app_opened, active, panicked>>

\* align_offset, increased to align when it is zero
offset(base, align) == align - (base % align)

alloc_pool_aligned(a) ==
    /\ Runs(a) /\ alloc_pc[a] = "aligned"
    /\ LET size == layout[a].size + layout[a].align
       IN  \/ \E base \in fw_pool(size) :
                LET aligned_ptr == base + offset(base, layout[a].align)
                IN  /\ fw' = fw \cup {Allocation("pool", base, size, memory_type[a])}
                    /\ Deliver(a, aligned_ptr, [mem EXCEPT ![aligned_ptr - 1] = base])
           \/ UNCHANGED fw /\ ReturnNull(a)
    /\ UNCHANGED <<MEMORY_TYPE, image_open, app_opened, active, panicked>>

(* allocate_pages(AnyPages): an allocation at address zero is replaced. *)
PageAlloc(a, base) == Allocation("pages", base, layout[a].size, memory_type[a])

allocate_pages(a) ==
    /\ Runs(a) /\ alloc_pc[a] = "pages"
    /\ \/ \E base \in fw_pages(layout[a].size) :
             /\ fw' = fw \cup {PageAlloc(a, base)}
             /\ IF base # 0 THEN Deliver(a, base, mem)
                ELSE /\ addr1' = [addr1 EXCEPT ![a] = base]
                     /\ Goto(a, "second")
                     /\ UNCHANGED <<live, mem, layout, memory_type, addr2>>
       \/ UNCHANGED fw /\ ReturnNull(a)
    /\ UNCHANGED <<MEMORY_TYPE, image_open, app_opened, active, panicked>>

\* The second attempt; addr2 keeps its initial 0 when it fails.
allocate_pages_second(a) ==
    /\ Runs(a) /\ alloc_pc[a] = "second"
    /\ \/ \E base \in fw_pages(layout[a].size) :
             /\ fw' = fw \cup {PageAlloc(a, base)}
             /\ addr2' = [addr2 EXCEPT ![a] = base]
       \/ UNCHANGED fw /\ addr2' = [addr2 EXCEPT ![a] = 0]
    /\ Goto(a, "free_first")
    /\ UNCHANGED <<mem, live, MEMORY_TYPE, image_open, app_opened, active, panicked, layout, memory_type, addr1>>

\* Mutated form: the allocation at address zero is kept when the second
\* attempt fails.
FirstKeptOnError(a) == IF addr2[a] = 0 THEN fw ELSE fw \ {PageAlloc(a, addr1[a])}

without_first(a) == fw \ {PageAlloc(a, addr1[a])}

\* The first allocation is freed, then the second one returned.
allocate_pages_free_first(a) ==
    /\ Runs(a) /\ alloc_pc[a] = "free_first"
    /\ fw' = without_first(a)
    /\ IF addr2[a] # 0 THEN Deliver(a, addr2[a], mem) ELSE ReturnNull(a)
    /\ UNCHANGED <<MEMORY_TYPE, image_open, app_opened, active, panicked>>

-----------------------------------------------------------------------------
(* dealloc *)

\* The address dealloc hands to the firmware; Data stands for garbage.
actual_alloc_ptr(b) == IF Arm(b.layout) = "aligned" THEN mem[b.ptr - 1] ELSE b.ptr

\* The allocations free_pages or free_pool accept for a block
Freed(b) == {x \in fw : /\ x.base = actual_alloc_ptr(b)
                        /\ IF Arm(b.layout) = "pages"
                           THEN x.kind = "pages" /\ x.size = b.layout.size
                           ELSE x.kind = "pool"}

\* An error of the firmware, and boot services that are gone, panic.
dealloc(a, b) ==
    /\ Starts(a) /\ b \in live
    /\ IF active /\ Freed(b) # {}
       THEN /\ fw' = fw \ Freed(b)
            /\ mem' = [u \in Units |-> IF \E x \in Freed(b) : u \in Range(x.base, x.size)
                                       THEN Data ELSE mem[u]]
            /\ live' = live \ {b}
            /\ UNCHANGED panicked
       ELSE panicked' = TRUE /\ UNCHANGED <<fw, mem, live>>
    /\ UNCHANGED <<MEMORY_TYPE, image_open, app_opened, active, alloc_locals>>

-----------------------------------------------------------------------------
(* The rest of the application *)

\* bound: the application opens LoadedImage once
app_open_image ==
    /\ Starts("main") /\ active /\ image_open = "none" /\ ~ app_opened
    /\ image_open' = "app" /\ app_opened' = TRUE
    /\ UNCHANGED <<fw, mem, live, MEMORY_TYPE, active, panicked, alloc_locals>>

app_close_image ==
    /\ Starts("main") /\ active /\ image_open = "app"
    /\ image_open' = "none"
    /\ UNCHANGED <<fw, mem, live, MEMORY_TYPE, app_opened, active, panicked, alloc_locals>>

app_exit_boot_services ==
    /\ Starts("main") /\ active
    /\ active' = FALSE
    /\ UNCHANGED <<fw, mem, live, MEMORY_TYPE, image_open, app_opened, panicked, alloc_locals>>

HeapNext ==
    \/ \E a \in Actors :
          \/ \E l \in Layouts : alloc(a, l)
          \/ get_memory_type_open(a) \/ get_memory_type_close(a) \/ get_memory_type_store(a)
          \/ alloc_pool(a) \/ alloc_pool_aligned(a)
          \/ allocate_pages(a) \/ allocate_pages_second(a) \/ allocate_pages_free_first(a)
          \/ \E b \in live : dealloc(a, b)
    \/ app_open_image \/ app_close_image \/ app_exit_boot_services

HeapSpec == HeapInit /\ [][HeapNext]_heap_vars

-----------------------------------------------------------------------------
Types == {RESERVED, LOADER_DATA, DATA_TYPE}
Labels == {"idle", "open", "close", "store", "pool", "aligned", "pages", "second", "free_first"}
Allocations == [kind : {"pool", "pages"}, base : Units, size : Nat \ {0}, ty : Types]
Blocks == [ptr : Units, layout : Layouts]

\* Types: allocations and blocks lie in memory; LoadedImage is held open by
\* an actor of get_memory_type exactly while it reads the type.
HeapTypeOK ==
    /\ fw \subseteq Allocations /\ \A x \in fw : Range(x.base, x.size) \subseteq Units
    /\ live \subseteq Blocks
    /\ mem \in [Units -> Units \cup {Data}]
    /\ MEMORY_TYPE \in Types
    /\ image_open \in {"none", "app"} \cup {a \in Actors : alloc_pc[a] = "close"}
    /\ app_opened \in BOOLEAN /\ active \in BOOLEAN /\ panicked \in BOOLEAN
    /\ alloc_pc \in [Actors -> Labels]
    /\ layout \in [Actors -> Layouts \cup {NoLayout}]
    /\ memory_type \in [Actors -> Types]
    /\ addr1 \in [Actors -> Units \cup {0}] /\ addr2 \in [Actors -> Units \cup {0}]

Idle == \A a \in Actors : alloc_pc[a] = "idle"

\* A block from alloc (allocator.rs:110) is never null and has its layout's
\* alignment; its cells lie in one allocation of the firmware and in no
\* other block; and no stored pointer (alloc_pool_aligned) is in a block.
BlocksExclusive ==
    \A b \in live :
        /\ b.ptr # 0 /\ b.ptr % b.layout.align = 0
        /\ \E x \in fw : Cells(b) \subseteq Range(x.base, x.size)
        /\ \A c \in live \ {b} : Cells(b) \cap Cells(c) = {}
        /\ \A u \in Cells(b) : mem[u] = Data

\* As long as boot services are active dealloc (allocator.rs:144) never
\* panics: whatever was allocated and freed in between, it gives the
\* firmware an address, and a page count, the firmware knows.
DeallocNeverPanics == panicked => ~ active

\* The firmware's allocations are exactly those behind the blocks handed
\* out: none leaks, not even the one at address zero that allocate_pages
\* replaces (boot.rs:148), and no two blocks share one.
NoLeak ==
    Idle => \A x \in fw : \E b \in live :
                /\ Cells(b) \subseteq Range(x.base, x.size)
                /\ \A c \in live \ {b} : Cells(c) \cap Range(x.base, x.size) = {}

\* A callback that allocates while the main program looks up the memory type
\* finds LoadedImage taken and falls back to LOADER_DATA; that value does
\* not stay in MEMORY_TYPE (allocator.rs:37) once the main program is done.
FallbackDoesNotStick ==
    Idle /\ ~ app_opened => MEMORY_TYPE \in {RESERVED, DATA_TYPE}

Store == INSTANCE BlockStore WITH Addresses <- Units \ {0}

\* To its users the allocator is a store of disjoint, aligned blocks: none of
\* the three ways of allocating, nor the pointers hidden before blocks, nor a
\* callback in the middle of an allocation shows.
StoresBlocks == Store!Spec

-----------------------------------------------------------------------------
(* The inductive invariant behind the safety properties. *)

\* The allocation x is the one dealloc finds for the block b in memory m.
Backs(x, b, m) ==
    /\ Cells(b) \subseteq Range(x.base, x.size)
    /\ x.kind = IF Arm(b.layout) = "pages" THEN "pages" ELSE "pool"
    /\ IF Arm(b.layout) = "aligned" THEN x.base <= b.ptr - 1 /\ m[b.ptr - 1] = x.base ELSE x.base = b.ptr
    /\ Arm(b.layout) = "pages" => x.size = b.layout.size

GoodBlock(b) == b \in Blocks /\ b.ptr # 0 /\ b.ptr % b.layout.align = 0

\* Allocations f, blocks l, memory m and the allocations h that a call in
\* progress holds without having handed out a block yet.
Heap(f, l, m, h) ==
    /\ \A x, y \in f : x # y => Range(x.base, x.size) \cap Range(y.base, y.size) = {}
    /\ h \subseteq f
    /\ \A b \in l : /\ GoodBlock(b)
                    /\ \E x \in f \ h : Backs(x, b, m)
                    /\ \A u \in Cells(b) : m[u] = Data
    /\ \A x \in f \ h : \E b \in l : Backs(x, b, m)
    /\ \A x \in f, b, c \in l : Backs(x, b, m) /\ Backs(x, c, m) => b = c

\* What allocate_pages holds while it replaces an allocation at address zero
Held(a) ==
    IF alloc_pc[a] = "second" THEN {PageAlloc(a, 0)}
    ELSE IF alloc_pc[a] = "free_first" THEN {PageAlloc(a, 0)} \cup {PageAlloc(a, b) : b \in {addr2[a]} \ {0}}
    ELSE {}

CallInv(a) ==
    /\ alloc_pc[a] # "idle" => active /\ layout[a] \in Layouts
    /\ alloc_pc[a] \in {"pool", "aligned", "pages"} => Arm(layout[a]) = alloc_pc[a]
    /\ alloc_pc[a] \in {"second", "free_first"} => Arm(layout[a]) = "pages" /\ addr1[a] = 0
    /\ alloc_pc[a] = "free_first" => addr2[a] % PAGE_SIZE = 0

HeapIInv ==
    /\ HeapTypeOK
    /\ DeallocNeverPanics
    /\ \A a \in Actors : CallInv(a)
    /\ Held("main") \cap Held("callback") = {}
    /\ Heap(fw, live, mem, Held("main") \cup Held("callback"))

-----------------------------------------------------------------------------
\* Layouts for TLC: a pool block, a block aligned to 16 bytes, one page, and
\* a page-aligned block that is not a whole page.
MCLayouts == {[size |-> 1, align |-> 1], [size |-> 2, align |-> 2],
              [size |-> 4, align |-> 4], [size |-> 1, align |-> 4]}
=============================================================================
