---------------------------- MODULE ExchangeSort -----------------------------
(***************************************************************************)
(* What MemoryMapMut::sort promises to the owner of a memory map, whatever *)
(* the algorithm.  An owner rewrites entries and sorts; a sort in progress *)
(* exchanges entries, but never moves a larger address in front of a       *)
(* smaller one, and returns when the map is in order.                      *)
(***************************************************************************)
EXTENDS Integers

CONSTANTS MaxLen, Addrs

VARIABLES
    len,        \* number of entries
    addr,       \* the physical address of every descriptor
    map,        \* the buffer: index -> descriptor
    phase       \* "idle", "sorting", "done", "panic"

vars == <<len, addr, map, phase>>

Indices == 0 .. len - 1
At(i) == addr[map[i]]
InOrder == \A i, j \in Indices : i < j => At(i) <= At(j)

Init ==
    /\ len \in 0 .. MaxLen
    /\ addr \in [Indices -> Addrs]
    /\ map = [i \in Indices |-> i]
    /\ phase = "idle"

\* The owner rewrites one entry, between two sorts.
Rewrite ==
    /\ phase \in {"idle", "done"}
    /\ \E i \in Indices, a \in Addrs : addr' = [addr EXCEPT ![map[i]] = a]
    /\ phase' = "idle"
    /\ UNCHANGED <<len, map>>

Begin ==
    /\ phase \in {"idle", "done"}
    /\ phase' = "sorting"
    /\ UNCHANGED <<len, addr, map>>

\* Equal entries may change places: the sort is not stable.
Exchange ==
    /\ phase = "sorting"
    /\ \E i, j \in Indices :
          /\ i < j /\ At(i) >= At(j)
          /\ map' = [map EXCEPT ![i] = map[j], ![j] = map[i]]
    /\ UNCHANGED <<len, addr, phase>>

End ==
    /\ phase = "sorting" /\ InOrder
    /\ phase' = "done"
    /\ UNCHANGED <<len, addr, map>>

\* len - 1 has no value for an empty map.
Fail ==
    /\ len = 0 /\ phase # "panic"
    /\ phase' = "panic"
    /\ UNCHANGED <<len, addr, map>>

Next == Rewrite \/ Begin \/ Exchange \/ End \/ Fail

Spec == Init /\ [][Next]_vars
=============================================================================
