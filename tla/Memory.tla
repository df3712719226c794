------------------------------- MODULE Memory --------------------------------
(***************************************************************************)
(* Memory of an application: the memory maps it asks for and the exit of   *)
(* the boot services, the sort of a map, and the global allocator.  They   *)
(* share no state of the crate; `part` is the one in use.                  *)
(***************************************************************************)
EXTENDS BootServices, MemoryMapSort, Allocator

VARIABLE part

memoryvars == <<part, vars, sort_vars, heap_vars>>

MemoryInit ==
    /\ part \in {"boot", "sort", "heap"}
    /\ Init /\ (part # "boot" => len = 1)
    /\ SortInit /\ (part # "sort" => map_len = 0 /\ pivot = CHOOSE a \in Addrs : TRUE)
    /\ HeapInit

MemoryNext ==
    \/ part = "boot" /\ Next /\ UNCHANGED <<part, sort_vars, heap_vars>>
    \/ part = "sort" /\ SortNext /\ UNCHANGED <<part, vars, heap_vars>>
    \/ part = "heap" /\ HeapNext /\ UNCHANGED <<part, vars, sort_vars>>

\* A call that has started goes on; nothing obliges the application to start
\* one, nor the environment to act.
MemorySpec ==
    /\ MemoryInit /\ [][MemoryNext]_memoryvars
    /\ WF_memoryvars(part = "boot" /\ Continue /\ UNCHANGED <<part, sort_vars, heap_vars>>)
    /\ WF_memoryvars(part = "sort" /\ Sorting /\ UNCHANGED <<part, vars, heap_vars>>)
=============================================================================
