----------------------------- MODULE BlockStore ------------------------------
(***************************************************************************)
(* What a global allocator promises to the program that uses it: blocks    *)
(* that do not overlap, aligned as their layouts ask, never at address     *)
(* zero, and each of them can be given back as long as boot services are   *)
(* active.  An allocation that fails leaves no trace.                      *)
(***************************************************************************)
EXTENDS Integers

CONSTANTS
    Addresses,  \* where a block may start
    Layouts     \* [size, align]

VARIABLES
    live,       \* the blocks handed out: [ptr, layout]
    active,     \* whether boot services are active
    panicked

vars == <<live, active, panicked>>

Cells(b) == b.ptr .. b.ptr + b.layout.size - 1
Apart(b, c) == Cells(b) \cap Cells(c) = {}

Init == live = {} /\ active = TRUE /\ panicked = FALSE

Take(b) ==
    /\ active /\ ~ panicked
    /\ b \in [ptr : Addresses, layout : Layouts]
    /\ b.ptr % b.layout.align = 0
    /\ \A c \in live : Apart(b, c)
    /\ live' = live \cup {b}
    /\ UNCHANGED <<active, panicked>>

GiveBack(b) ==
    /\ active /\ ~ panicked
    /\ live' = live \ {b}
    /\ UNCHANGED <<active, panicked>>

Exit ==
    /\ active /\ ~ panicked
    /\ active' = FALSE
    /\ UNCHANGED <<live, panicked>>

\* Nothing can be given back to boot services that are gone.
Panic ==
    /\ ~ active
    /\ panicked' = TRUE
    /\ UNCHANGED <<live, active>>

Next ==
    \/ \E b \in live' : Take(b)
    \/ \E b \in live : GiveBack(b)
    \/ Exit \/ Panic

Spec == Init /\ [][Next]_vars
=============================================================================
