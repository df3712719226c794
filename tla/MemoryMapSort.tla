---------------------------- MODULE MemoryMapSort ----------------------------
(***************************************************************************)
(* The in-place sort of a memory map: MemoryMapMut::sort on a              *)
(* MemoryMapRefMut (uefi/src/mem/memory_map/impl_.rs), a recursive         *)
(* quicksort with the Hoare partition scheme over raw descriptors.         *)
(*                                                                         *)
(* A descriptor is a model identity (its index in the map the firmware     *)
(* delivered); addr gives its phys_start, the only field the sort reads.   *)
(* map[i] is the descriptor stored at index i of the buffer.  A step is    *)
(* one iteration of one of the loops of `partition`, so that every index   *)
(* the code passes to get_element_phys_addr is a state of its own.         *)
(*                                                                         *)
(* stack holds the pending calls of qsort, the running one first.  While   *)
(* `partition` runs its frame stays at the head.  depth is the recursion   *)
(* depth of the call, which the 128 KiB firmware stack has to bear.        *)
(***************************************************************************)
EXTENDS Integers, Sequences

CONSTANTS
    MaxMapLen,  \* bound: the longest map considered
    Addrs,      \* bound: the physical addresses a descriptor may have
    USIZE_MAX   \* the largest usize

ASSUME MaxMapLenAssumption == MaxMapLen \in Nat
ASSUME AddrsAssumption == Addrs \subseteq Nat /\ Addrs # {}
ASSUME UsizeAssumption == USIZE_MAX \in Nat /\ MaxMapLen < USIZE_MAX

VARIABLES
    map_len,    \* number of entries, meta.entry_count()
    addr,       \* phys_start of every descriptor
    map,        \* the buffer: index -> descriptor
    stack,      \* pending calls of qsort, [low, high, depth]
    pivot, left_index, right_index,     \* locals of partition
    sort_pc

sort_vars == <<map_len, addr, map, stack, pivot, left_index, right_index, sort_pc>>
partition_locals == <<pivot, left_index, right_index>>

Indices == 0 .. map_len - 1
Frames == [low : 0 .. USIZE_MAX, high : 0 .. USIZE_MAX, depth : Nat]
Frame(l, h, d) == [low |-> l, high |-> h, depth |-> d]

wrapping_add_1(i) == IF i = USIZE_MAX THEN 0 ELSE i + 1
wrapping_sub_1(i) == IF i = 0 THEN USIZE_MAX ELSE i - 1

\* phys_start of the descriptor at index i; guarded by `index < len` below.
get_element_phys_addr(i) == addr[map[i]]

\* Mutated form: three entries rotate in place of two that change places.
SwappedByRotation(i, j) == [map EXCEPT ![i] = map[j], ![j] = map[i + 1], ![i + 1] = map[i]]

Swapped(i, j) == [map EXCEPT ![i] = map[j], ![j] = map[i]]

\* MemoryMap::is_sorted: neighbouring entries are in order.
is_sorted == \A i \in 0 .. map_len - 2 :
                 get_element_phys_addr(i) <= get_element_phys_addr(i + 1)

SortInit ==
    /\ map_len \in 0 .. MaxMapLen
    /\ addr \in [0 .. map_len - 1 -> Addrs]
    /\ map = [i \in 0 .. map_len - 1 |-> i]
    /\ stack = << >>
    /\ pivot \in Addrs /\ left_index = 0 /\ right_index = 0
    /\ sort_pc = "idle"

-----------------------------------------------------------------------------
(* Mutated forms: plausible mistakes in the code below. *)

\* The partition starts over after an exchange that was made on a copy.
swap_restarts ==
    /\ sort_pc = "compare"
    /\ left_index < right_index
    /\ left_index' = wrapping_sub_1(Head(stack).low)
    /\ right_index' = wrapping_add_1(Head(stack).high)
    /\ sort_pc' = "left"
    /\ UNCHANGED <<map_len, addr, map, stack, pivot>>

-----------------------------------------------------------------------------
\* MemoryMapMut::get_mut / IndexMut: the owner of the map rewrites an entry.
get_mut ==
    /\ sort_pc \in {"idle", "done"}
    /\ \E i \in Indices, a \in Addrs : addr' = [addr EXCEPT ![map[i]] = a]
    /\ sort_pc' = "idle"
    /\ UNCHANGED <<map_len, map, stack, partition_locals>>

\* self.qsort(0, self.len - 1): on an empty map the subtraction panics in a
\* build with overflow checks and wraps in one without.
sort ==
    /\ sort_pc \in {"idle", "done"}
    /\ \/ /\ stack' = << Frame(0, wrapping_sub_1(map_len), 0) >>
          /\ sort_pc' = "qsort"
       \/ /\ map_len = 0
          /\ sort_pc' = "panic"
          /\ UNCHANGED stack
    /\ UNCHANGED <<map_len, addr, map, partition_locals>>

\* `if low >= high { return; }`: the caller's next pending call follows.
qsort_return ==
    /\ sort_pc = "qsort" /\ stack # << >>
    /\ Head(stack).low >= Head(stack).high
    /\ stack' = Tail(stack)
    /\ UNCHANGED <<map_len, addr, map, partition_locals, sort_pc>>

\* The outermost call has returned.
sort_return ==
    /\ sort_pc = "qsort" /\ stack = << >>
    /\ sort_pc' = "done"
    /\ UNCHANGED <<map_len, addr, map, stack, partition_locals>>

\* low + (high - low) / 2
Middle(f) == f.low + (f.high - f.low) \div 2

\* partition up to its loop; get_element_phys_addr asserts index < len.
partition ==
    /\ sort_pc = "qsort" /\ stack # << >>
    /\ LET f == Head(stack)
           mid == Middle(f)
       IN  /\ f.low < f.high
           /\ \/ /\ mid < map_len
                 /\ pivot' = get_element_phys_addr(mid)
                 /\ left_index' = wrapping_sub_1(f.low)
                 /\ right_index' = wrapping_add_1(f.high)
                 /\ sort_pc' = "left"
              \/ /\ mid >= map_len
                 /\ sort_pc' = "panic"
                 /\ UNCHANGED partition_locals
    /\ UNCHANGED <<map_len, addr, map, stack>>

LeftContinues(i) == get_element_phys_addr(i) < pivot
RightContinues(i) == get_element_phys_addr(i) > pivot

\* One iteration of the first inner loop.
scan_left ==
    /\ sort_pc = "left"
    /\ left_index' = wrapping_add_1(left_index)
    /\ \/ /\ left_index' < map_len
          /\ sort_pc' = IF LeftContinues(left_index') THEN "left" ELSE "right"
       \/ /\ left_index' >= map_len
          /\ sort_pc' = "panic"
    /\ UNCHANGED <<map_len, addr, map, stack, pivot, right_index>>

\* One iteration of the second inner loop.
scan_right ==
    /\ sort_pc = "right"
    /\ right_index' = wrapping_sub_1(right_index)
    /\ \/ /\ right_index' < map_len
          /\ sort_pc' = IF RightContinues(right_index') THEN "right" ELSE "compare"
       \/ /\ right_index' >= map_len
          /\ sort_pc' = "panic"
    /\ UNCHANGED <<map_len, addr, map, stack, pivot, left_index>>

\* self.swap(left_index, right_index); its two assertions were established by
\* the scans, which read both entries.
swap ==
    /\ sort_pc = "compare"
    /\ left_index < right_index
    /\ map' = Swapped(left_index, right_index)
    /\ sort_pc' = "left"
    /\ UNCHANGED <<map_len, addr, stack, partition_locals>>

\* The two recursive calls that follow partition's return value p.
Split(f, p) ==
    << Frame(f.low, p, f.depth + 1), Frame(p + 1, f.high, f.depth + 1) >>

\* partition returns right_index and qsort recurses.
partition_return ==
    /\ sort_pc = "compare"
    /\ left_index >= right_index
    /\ stack' = Split(Head(stack), right_index) \o Tail(stack)
    /\ sort_pc' = "qsort"
    /\ UNCHANGED <<map_len, addr, map, partition_locals>>

Sorting == \/ qsort_return \/ sort_return \/ partition
           \/ scan_left \/ scan_right \/ swap \/ partition_return

SortNext == get_mut \/ sort \/ Sorting

SortSpec == SortInit /\ [][SortNext]_sort_vars

\* sort runs on the single boot processor without yielding, so its steps go on.
FairSortSpec == SortSpec /\ WF_sort_vars(Sorting)

-----------------------------------------------------------------------------
SortTypeOK ==
    /\ map_len \in 0 .. MaxMapLen
    /\ addr \in [Indices -> Addrs]
    /\ map \in [Indices -> Indices]
    /\ stack \in Seq(Frames)
    /\ pivot \in Addrs
    /\ left_index \in 0 .. USIZE_MAX
    /\ right_index \in 0 .. USIZE_MAX
    /\ sort_pc \in {"idle", "qsort", "left", "right", "compare", "done", "panic"}

\* When sort has returned, the map is in the order MemoryMap::is_sorted tests,
\* whatever the number of equal addresses and however often it was sorted and
\* rewritten before.
SortCorrect == sort_pc = "done" => is_sorted

\* Sorting loses and duplicates no descriptor, at no intermediate step either:
\* the buffer always holds every descriptor the firmware delivered, once.
SortPermutes == \A i, j \in Indices : map[i] = map[j] => i = j

\* On a map with entries, no assertion of get_element_phys_addr or swap fails:
\* both scans of partition, which test no bound themselves, meet an entry that
\* stops them inside the map, also when low - 1 wraps below index 0.
NoPanic == map_len > 0 => sort_pc # "panic"

\* The recursion of qsort is never deeper than the map is long, because
\* partition never returns `high`.
DepthBounded == map_len > 0 => \A k \in DOMAIN stack : stack[k].depth < map_len

\* is_sorted for any two entries, which is the same by transitivity.
Ordered == \A i, j \in Indices :
               i < j => get_element_phys_addr(i) <= get_element_phys_addr(j)

\* A second sort does not disturb a sorted map, not even between two steps:
\* only equal entries are exchanged.
SortedStaysSorted == [][Sorting /\ Ordered => Ordered']_sort_vars

\* A sort that has begun comes to its end.
SortTerminates == (sort_pc = "qsort") ~> (sort_pc \in {"done", "panic"})

\* What the owner of the map can tell of a sort in progress
Phase == IF sort_pc \in {"idle", "done", "panic"} THEN sort_pc ELSE "sorting"

Exchanges == INSTANCE ExchangeSort WITH
    MaxLen <- MaxMapLen, len <- map_len, phase <- Phase

\* sort is an exchange sort: whatever qsort and partition do, it only swaps two
\* entries of which the second does not belong behind the first, it returns
\* only on a sorted map, and it fails only on an empty one.
SortsByExchanges == Exchanges!Spec

-----------------------------------------------------------------------------
(* The inductive invariant behind the safety properties. *)

\* The value partition compares at index i.
V(i) == get_element_phys_addr(i)

\* Pending calls are non-empty intervals of the map, from left to right, and
\* every level of recursion costs at least one entry.
Nested(s, n) ==
    /\ \A k \in DOMAIN s : /\ s[k].low <= s[k].high
                           /\ s[k].high < n
                           /\ s[k].depth + s[k].high - s[k].low < n
    /\ \A k, l \in DOMAIN s : k < l => s[k].high < s[l].low

FramesInv == Nested(stack, map_len)

\* Entries are in order unless one pending call still covers both.
OrderInv ==
    sort_pc \notin {"idle", "panic"} =>
        \A i, j \in Indices : i < j =>
            \/ V(i) <= V(j)
            \/ \E k \in DOMAIN stack : stack[k].low <= i /\ j <= stack[k].high

\* Hoare's partition of low .. high: what lies behind the two scans, and the
\* entries that stop them.  right_index = high + 1 only before the first
\* exchange.  n is the index the first scan reads next.
ScanLeftInv(low, high, n) ==
    /\ low <= n /\ n <= right_index /\ right_index <= high + 1
    /\ \A i \in low .. n - 1 : V(i) <= pivot
    /\ \A i \in right_index .. high : pivot <= V(i)
    /\ \E i \in n .. high : pivot <= V(i) /\ i <= right_index
    /\ \E i \in low .. right_index - 1 : V(i) <= pivot
    /\ right_index = high + 1 => \E i \in n .. high - 1 : pivot <= V(i)

ScanRightInv(low, high) ==
    /\ low <= left_index /\ left_index <= high
    /\ left_index <= right_index /\ right_index <= high + 1
    /\ pivot <= V(left_index)
    /\ \A i \in low .. left_index - 1 : V(i) <= pivot
    /\ \A i \in right_index .. high : pivot <= V(i)
    /\ \E i \in low .. right_index - 1 : V(i) <= pivot
    /\ right_index = high + 1 => left_index < high

CompareInv(low, high) ==
    /\ low <= left_index /\ left_index <= high
    /\ low <= right_index /\ right_index <= high
    /\ pivot <= V(left_index) /\ V(right_index) <= pivot
    /\ \A i \in low .. left_index - 1 : V(i) <= pivot
    /\ \A i \in right_index + 1 .. high : pivot <= V(i)
    /\ right_index = high => left_index < high

PartitionInv ==
    /\ sort_pc \in {"idle", "done"} => stack = << >>
    /\ sort_pc \in {"left", "right", "compare"} =>
           stack # << >> /\ Head(stack).low < Head(stack).high
    /\ sort_pc = "left" => ScanLeftInv(Head(stack).low, Head(stack).high,
                                  wrapping_add_1(left_index))
    /\ sort_pc = "right" => ScanRightInv(Head(stack).low, Head(stack).high)
    /\ sort_pc = "compare" => CompareInv(Head(stack).low, Head(stack).high)

\* An empty map never gets past the assertion in get_element_phys_addr.
EmptyInv ==
    /\ sort_pc \in {"idle", "qsort", "panic"}
    /\ sort_pc = "qsort" => stack = << Frame(0, USIZE_MAX, 0) >>

SortIInv == /\ SortTypeOK
            /\ SortPermutes
            /\ map_len = 0 => EmptyInv
            /\ map_len > 0 => FramesInv /\ OrderInv /\ PartitionInv /\ sort_pc # "panic"
=============================================================================
