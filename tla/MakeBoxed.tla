------------------------------ MODULE MakeBoxed ------------------------------
(***************************************************************************)
(* make_boxed (uefi/src/mem/util.rs): a firmware structure of a size not   *)
(* known beforehand is fetched twice, once with an empty buffer to learn   *)
(* its size and once into memory of that size, which becomes a Box.        *)
(*                                                                         *)
(* What is fetched may change between the two calls.                       *)
(***************************************************************************)
EXTENDS Integers, FiniteSets, FiniteSetsExt

CONSTANT Blocks     \* the names of heap blocks

VARIABLES
    heap,   \* the allocated blocks, with the layout asked for
    call,   \* the operation under way: [op, pc, required, ptr]
    box,    \* a Box the application holds: its block and layout, or NoBox
    ret     \* what the last operation returned: [status, value]

Idle == [op |-> "none", pc |-> "idle", required |-> 0, ptr |-> 0]
NoBox == [ptr |-> 0, size |-> 0]
Nothing == <<>>
Return(status, value) == [status |-> status, value |-> value]

FetchInit == heap = {} /\ call = Idle /\ box = NoBox /\ ret = Return("none", Nothing)

\* Layout::pad_to_align and Align::round_up_to_alignment
offset_up_to_alignment(align, val) == IF val % align = 0 THEN 0 ELSE align - (val % align)
round_up_to_alignment(align, val) == val + offset_up_to_alignment(align, val)

Block(ptr) == CHOOSE b \in heap : b.ptr = ptr
FreeBlocks == Blocks \ {b.ptr : b \in heap}

Begin(op) == /\ call.pc = "idle"
             /\ call' = [Idle EXCEPT !.op = op, !.pc = "size"]
             /\ ret' = Return("none", Nothing)
             /\ UNCHANGED <<heap, box>>

\* An operation without make_boxed returns.
Leave(status, value) == call' = Idle /\ ret' = Return(status, value)

\* The fetch with an empty buffer answered res, and the memory is allocated.
\* res is [status, size, value]; only BUFFER_TOO_SMALL carries a size.
make_boxed(res, align) ==
    /\ call.pc = "size"
    /\ IF res.status = "BUFFER_TOO_SMALL"
       THEN \/ /\ FreeBlocks # {}
               /\ heap' = heap \union {[ptr |-> Min(FreeBlocks), size |-> round_up_to_alignment(align, res.size)]}
               /\ call' = [call EXCEPT !.pc = "fill", !.required = res.size, !.ptr = Min(FreeBlocks)]
               /\ UNCHANGED ret
            \/ Leave("OUT_OF_RESOURCES", Nothing) /\ UNCHANGED heap
       ELSE /\ Leave(IF res.status = "SUCCESS" THEN "UNSUPPORTED" ELSE res.status, Nothing)
            /\ UNCHANGED heap
    /\ UNCHANGED box

\* The fetch into the memory answered res.  The size of the Box is that of
\* the data, not that of the memory.
make_boxed_fill(res, align) ==
    /\ call.pc = "fill"
    /\ IF res.status = "SUCCESS"
       THEN /\ box' = [ptr |-> call.ptr, size |-> round_up_to_alignment(align, res.size)]
            /\ Leave("SUCCESS", res.value)
            /\ UNCHANGED heap
       ELSE /\ heap' = heap \ {Block(call.ptr)}
            /\ Leave(res.status, Nothing)
            /\ UNCHANGED box

\* The application drops the Box.
drop_box ==
    /\ box # NoBox /\ call.pc = "idle"
    /\ heap' = heap \ {Block(box.ptr)}
    /\ box' = NoBox /\ ret' = Return("none", Nothing)
    /\ UNCHANGED call

\* Every block belongs to a Box or to the call under way: none leaks when the
\* second fetch fails, and none is freed twice.
BoxesOwnHeap ==
    /\ {b.ptr : b \in heap} = {p \in {box.ptr, call.ptr} : p # 0}
    /\ box.ptr # 0 => box.ptr # call.ptr
=============================================================================
