------------------------- MODULE MemoryMapSortProofs -------------------------
(***************************************************************************)
(* Correctness of the memory map sort for maps of every length and every   *)
(* set of addresses.  SortIInv, the inductive invariant, says              *)
(* that pending calls of qsort cover disjoint intervals, that two entries  *)
(* not covered by one call are already in order, and what the two scans of *)
(* Hoare's partition have left behind them.                                *)
(***************************************************************************)
EXTENDS MemoryMapSort, SequenceTheorems, TLAPS

USE MaxMapLenAssumption, AddrsAssumption, UsizeAssumption

-----------------------------------------------------------------------------
(* Facts about the stack of pending calls. *)

\* The running call is the first element of a non-empty stack.
LEMMA HeadFacts ==
    ASSUME NEW s \in Seq(Frames), s # << >>
    PROVE  /\ Head(s) = s[1] /\ 1 \in DOMAIN s
           /\ Head(s) \in Frames
  OBVIOUS

\* Returning from the running call keeps the others, one place nearer.
LEMMA TailFacts ==
    ASSUME NEW s \in Seq(Frames), s # << >>
    PROVE  /\ Tail(s) \in Seq(Frames)
           /\ \A k \in DOMAIN Tail(s) : /\ k + 1 \in DOMAIN s
                                        /\ Tail(s)[k] = s[k + 1]
           /\ \A k \in DOMAIN s : k # 1 => /\ k - 1 \in DOMAIN Tail(s)
                                           /\ Tail(s)[k - 1] = s[k]
  OBVIOUS

\* Two recursive calls take the place of the running one: n has the calls a and
\* b where s has its first, and the rest of s.
Replaced(s, n, a, b) ==
    /\ n \in Seq(Frames)
    /\ 1 \in DOMAIN n /\ n[1] = a
    /\ 2 \in DOMAIN n /\ n[2] = b
    /\ \A k \in DOMAIN n : k = 1 \/ k = 2 \/ (k \in Nat /\ k > 2)
    /\ \A k \in DOMAIN n : k > 2 => k - 1 \in DOMAIN s /\ n[k] = s[k - 1]
    /\ \A k \in DOMAIN s : k > 1 => k + 1 \in DOMAIN n /\ n[k + 1] = s[k]

\* Two new frames before the tail of the stack replace its first frame.
LEMMA ConcatTail ==
    ASSUME NEW s \in Seq(Frames), s # << >>, NEW t \in Seq(Frames), Len(t) = 2
    PROVE  Replaced(s, t \o Tail(s), t[1], t[2])
  <1>1. /\ Tail(s) \in Seq(Frames) /\ Len(Tail(s)) = Len(s) - 1
        /\ \A i \in 1 .. Len(s) - 1 : Tail(s)[i] = s[i + 1]
        /\ Len(s) \in Nat /\ Len(s) >= 1 /\ DOMAIN s = 1 .. Len(s)
    <2>1. Len(s) \in Nat /\ Len(s) >= 1 /\ DOMAIN s = 1 .. Len(s)
      OBVIOUS
    <2> QED
      BY <2>1, HeadTailProperties
  <1> DEFINE n == t \o Tail(s)
  <1>2. /\ n \in Seq(Frames) /\ Len(n) = Len(s) + 1
        /\ \A i \in 1 .. Len(s) + 1 :
              n[i] = IF i <= 2 THEN t[i] ELSE Tail(s)[i - 2]
    <2> DEFINE u == Tail(s)
    <2>1. u \in Seq(Frames) /\ Len(u) = Len(s) - 1
      BY <1>1
    <2> HIDE DEF u
    <2>2. /\ t \o u \in Seq(Frames)
          /\ Len(t \o u) = Len(t) + Len(u)
          /\ \A i \in 1 .. Len(t) + Len(u) : (t \o u)[i] =
                     IF i <= Len(t) THEN t[i] ELSE u[i - Len(t)]
      BY <2>1, ConcatProperties, ZenonT(60)
    <2>3. Len(t) + Len(u) = Len(s) + 1
      BY <1>1, <2>1
    <2> QED
      BY <2>2, <2>3 DEF u
  <1>3. DOMAIN n = 1 .. Len(s) + 1
    <2> HIDE DEF n
    <2> QED
      BY <1>2
  <1> HIDE DEF n
  <1>4. n[1] = t[1] /\ n[2] = t[2] /\ 1 \in DOMAIN n /\ 2 \in DOMAIN n
    BY <1>1, <1>2, <1>3
  <1>5. ASSUME NEW k \in DOMAIN n, k > 2
        PROVE  k - 1 \in DOMAIN s /\ n[k] = s[k - 1]
    <2>1. k - 2 \in 1 .. Len(s) - 1 /\ n[k] = Tail(s)[k - 2]
      BY <1>1, <1>2, <1>3, <1>5
    <2>2. Tail(s)[k - 2] = s[k - 2 + 1] /\ k - 2 + 1 = k - 1
      BY <1>1, <1>3, <2>1
    <2> QED
      BY <1>1, <2>1, <2>2
  <1>6. ASSUME NEW k \in DOMAIN s, k > 1
        PROVE  k + 1 \in DOMAIN n /\ n[k + 1] = s[k]
    <2>1. k - 1 \in 1 .. Len(s) - 1 /\ k - 1 + 1 = k
      BY <1>1, <1>6
    <2>2. Tail(s)[k - 1] = s[k]
      BY <1>1, <2>1
    <2>3. k + 1 \in 1 .. Len(s) + 1 /\ k + 1 > 2 /\ k + 1 - 2 = k - 1
      BY <1>1, <1>6
    <2> QED
      BY <1>2, <1>3, <2>2, <2>3
  <1>7. \A k \in DOMAIN n : k = 1 \/ k = 2 \/ (k \in Nat /\ k > 2)
    BY <1>1, <1>3
  <1> QED
    BY <1>2, <1>4, <1>5, <1>6, <1>7, SMTT(30) DEF Replaced, n

\* Splitting the running call keeps the pending calls inside a map of length m,
\* in order and apart.
LEMMA SplitNested ==
    ASSUME NEW m \in Nat,
           NEW s \in Seq(Frames), 1 \in DOMAIN s, Nested(s, m),
           NEW a \in Frames, NEW b \in Frames, NEW n, Replaced(s, n, a, b),
           a.low = s[1].low, b.low = a.high + 1, b.high = s[1].high,
           a.low <= a.high, b.low <= b.high,
           a.depth = s[1].depth + 1, b.depth = s[1].depth + 1
    PROVE  Nested(n, m)
  <1>0. \A g \in Frames : g.low \in Nat /\ g.high \in Nat /\ g.depth \in Nat
    BY DEF Frames
  <1>1. \A k \in DOMAIN s : s[k] \in Frames
    OBVIOUS
  <1> DEFINE f == s[1]
  <1>2. /\ f.low \in Nat /\ f.high \in Nat /\ f.depth \in Nat
        /\ a.low \in Nat /\ a.high \in Nat /\ a.depth \in Nat
        /\ b.low \in Nat /\ b.high \in Nat /\ b.depth \in Nat
    BY <1>0, <1>1
  <1>3. f.high < m /\ f.depth + f.high - f.low < m
    BY DEF Nested
  <1>a. /\ a.low = f.low /\ b.low = a.high + 1 /\ b.high = f.high
        /\ a.depth = f.depth + 1 /\ b.depth = f.depth + 1
    OBVIOUS
  <1> HIDE DEF f
  <1>4. /\ a.high < m /\ a.depth + a.high - a.low < m
        /\ b.high < m /\ b.depth + b.high - b.low < m
    <2>1. \A m1, low, p, high, d \in Nat :
             low <= p /\ p + 1 <= high /\ high < m1 /\ d + high - low < m1
             => /\ p < m1 /\ d + 1 + p - low < m1
                /\ d + 1 + high - (p + 1) < m1
      OBVIOUS
    <2>2. f.low <= a.high /\ a.high + 1 <= f.high
      BY <1>a
    <2>3. /\ a.high < m /\ f.depth + 1 + a.high - f.low < m
          /\ f.depth + 1 + f.high - (a.high + 1) < m
      BY <1>2, <1>3, <2>1, <2>2, ZenonT(60)
    <2> QED
      BY <1>3, <1>a, <2>3
  <1>5. ASSUME NEW k \in DOMAIN n
        PROVE  /\ n[k].low <= n[k].high /\ n[k].high < m
               /\ n[k].depth + n[k].high - n[k].low < m
    <2>1. CASE k = 1
      BY <2>1, <1>4 DEF Replaced
    <2>2. CASE k = 2
      BY <2>2, <1>4 DEF Replaced
    <2>3. CASE k > 2
      BY <2>3 DEF Replaced, Nested
    <2> QED
      BY <2>1, <2>2, <2>3 DEF Replaced
  <1>6. ASSUME NEW k \in DOMAIN n, k > 2
        PROVE  f.high < n[k].low /\ n[k].low \in Nat
    <2>1. k - 1 \in DOMAIN s /\ n[k] = s[k - 1] /\ k \in Nat
      BY <1>6 DEF Replaced
    <2>2. 1 < k - 1
      BY <1>6, <2>1
    <2> QED
      BY <2>1, <2>2, <1>0, <1>1, SMTT(30) DEF Nested, f
  <1>7. ASSUME NEW k \in DOMAIN n, NEW l \in DOMAIN n, k < l
        PROVE  n[k].high < n[l].low
    <2>1. CASE k = 1 /\ l = 2
      BY <2>1, <1>2 DEF Replaced
    <2>2. CASE k = 1 /\ l > 2
      BY <2>2, <1>2, <1>6, SMTT(60) DEF Replaced, f
    <2>3. CASE k = 2 /\ l > 2
      BY <2>3, <1>2, <1>6 DEF Replaced, f
    <2>4. CASE k > 2 /\ l > 2
      <3>1. k - 1 < l - 1 /\ k - 1 \in DOMAIN s /\ l - 1 \in DOMAIN s
        BY <2>4, <1>7, SMTT(30) DEF Replaced
      <3> QED
        BY <2>4, <3>1, SMTT(30) DEF Nested, Replaced
    <2> QED
      BY <1>7, <2>1, <2>2, <2>3, <2>4 DEF Replaced
  <1> QED
    BY <1>5, <1>7 DEF Nested

-----------------------------------------------------------------------------
\* The invariant holds before the first sort.
LEMMA InitIInv == SortInit => SortIInv
  <1> SUFFICES ASSUME SortInit PROVE SortIInv
    OBVIOUS
  <1>1. SortTypeOK
    BY DEF SortInit, SortTypeOK, Indices
  <1>2. SortPermutes
    BY DEF SortInit, SortPermutes, Indices
  <1>3. FramesInv /\ OrderInv
    BY DEF SortInit, FramesInv, Nested, OrderInv
  <1>4. PartitionInv
    BY DEF SortInit, PartitionInv
  <1> QED
    BY <1>1, <1>2, <1>3, <1>4 DEF SortInit, SortIInv, EmptyInv

\* While partition runs, its interval is inside the map.
LEMMA RunningCall ==
    ASSUME SortIInv, map_len > 0, stack # << >>
    PROVE  LET f == Head(stack)
           IN  /\ f \in Frames /\ f = stack[1] /\ 1 \in DOMAIN stack
               /\ f.low \in Nat /\ f.high \in Nat /\ f.depth \in Nat
               /\ f.low <= f.high /\ f.high < map_len
               /\ f.depth + f.high - f.low < map_len
  <1>1. stack \in Seq(Frames) /\ FramesInv
    BY DEF SortIInv, SortTypeOK
  <1>2. Head(stack) = stack[1] /\ 1 \in DOMAIN stack /\ Head(stack) \in Frames
    BY <1>1, HeadFacts
  <1>3. \A f \in Frames : f.low \in Nat /\ f.high \in Nat /\ f.depth \in Nat
    BY DEF Frames
  <1> QED
    BY <1>1, <1>2, <1>3 DEF FramesInv, Nested

\* Every value the sort compares is a physical address.
LEMMA ValueType == ASSUME SortTypeOK, NEW i \in Indices PROVE V(i) \in Nat /\ V(i) \in Addrs
  BY ZenonT(60) DEF SortTypeOK, V, get_element_phys_addr

\* Where partition runs, its interval is known.
LEMMA Partitioning ==
    ASSUME SortIInv, sort_pc \in {"left", "right", "compare"}
    PROVE  LET f == Head(stack)
           IN  /\ map_len > 0 /\ map_len \in Nat /\ stack # << >>
               /\ f \in Frames /\ f = stack[1] /\ 1 \in DOMAIN stack
               /\ f.low \in Nat /\ f.high \in Nat /\ f.depth \in Nat
               /\ f.low < f.high /\ f.high < map_len
               /\ f.depth + f.high - f.low < map_len
               /\ pivot \in Nat /\ left_index \in Nat /\ right_index \in Nat
               /\ left_index <= USIZE_MAX /\ right_index <= USIZE_MAX
  <1>1. map_len > 0 /\ map_len \in Nat
    BY DEF SortIInv, SortTypeOK, EmptyInv
  <1>2. stack # << >> /\ Head(stack).low < Head(stack).high
    BY <1>1 DEF SortIInv, PartitionInv
  <1>3. /\ pivot \in Nat /\ left_index \in Nat /\ right_index \in Nat
        /\ left_index <= USIZE_MAX /\ right_index <= USIZE_MAX
    BY DEF SortIInv, SortTypeOK
  <1> QED
    BY <1>1, <1>2, <1>3, RunningCall

\* What partition returns splits its interval in two non-empty ones.
LEMMA ReturnedIndex ==
    ASSUME SortIInv, sort_pc = "compare", left_index >= right_index
    PROVE  LET f == Head(stack)
           IN  /\ f.low <= right_index /\ right_index < f.high
               /\ \A i \in f.low .. right_index : V(i) <= pivot
               /\ \A i \in right_index + 1 .. f.high : pivot <= V(i)
  <1> DEFINE f == Head(stack)
  <1>1. /\ f.low \in Nat /\ f.high \in Nat /\ map_len > 0
        /\ left_index \in Nat /\ right_index \in Nat
    BY Partitioning
  <1>2. CompareInv(f.low, f.high)
    BY <1>1 DEF SortIInv, PartitionInv
  <1> HIDE DEF f
  <1>3. f.low <= right_index /\ right_index < f.high
    BY <1>1, <1>2 DEF CompareInv
  <1>4. \A i \in f.low .. right_index : V(i) <= pivot
    BY <1>1, <1>2 DEF CompareInv
  <1>5. \A i \in right_index + 1 .. f.high : pivot <= V(i)
    BY <1>2 DEF CompareInv
  <1> QED
    BY <1>3, <1>4, <1>5 DEF f

\* The two recursive calls and the pending ones, after partition has returned.
LEMMA ReturnSplits ==
    ASSUME SortIInv, partition_return
    PROVE  \E a, b \in Frames :
              /\ Replaced(stack, stack', a, b)
              /\ a.low = stack[1].low /\ a.high = right_index
              /\ b.low = right_index + 1 /\ b.high = stack[1].high
              /\ a.depth = stack[1].depth + 1 /\ b.depth = stack[1].depth + 1
  <1> DEFINE f == stack[1]
             t == Split(f, right_index)
  <1>0. sort_pc = "compare" /\ left_index >= right_index
    BY DEF partition_return
  <1>1. /\ stack # << >> /\ f = Head(stack) /\ stack \in Seq(Frames)
        /\ f.low \in Nat /\ f.high \in Nat /\ f.depth \in Nat
        /\ f.high < map_len /\ right_index \in Nat /\ map_len \in Nat
    BY <1>0, Partitioning DEF SortIInv, SortTypeOK
  <1>2. f.low <= right_index /\ right_index < f.high
    BY <1>0, <1>1, ReturnedIndex
  <1>3. map_len < USIZE_MAX
    BY DEF SortIInv, SortTypeOK
  <1>4. stack' = t \o Tail(stack)
    BY <1>1 DEF partition_return
  <1> DEFINE a == Frame(f.low, right_index, f.depth + 1)
             b == Frame(right_index + 1, f.high, f.depth + 1)
  <1> HIDE DEF f
  <1>5. a \in Frames /\ b \in Frames
    <2>1. /\ f.low \in 0 .. USIZE_MAX /\ f.high \in 0 .. USIZE_MAX
          /\ right_index \in 0 .. USIZE_MAX /\ right_index + 1 \in 0 .. USIZE_MAX
          /\ f.depth + 1 \in Nat
      BY <1>1, <1>2, <1>3, SMTT(30)
    <2> QED
      BY <2>1 DEF Frame, Frames
  <1>6. /\ a.low = f.low /\ a.high = right_index /\ a.depth = f.depth + 1
        /\ b.low = right_index + 1 /\ b.high = f.high /\ b.depth = f.depth + 1
    BY DEF Frame
  <1>7. t = << a, b >>
    BY DEF Split
  <1> HIDE DEF a, b, t
  <1>8. t \in Seq(Frames) /\ Len(t) = 2 /\ t[1] = a /\ t[2] = b
    BY <1>5, <1>7
  <1>9. Replaced(stack, stack', a, b)
    BY <1>1, <1>4, <1>8, ConcatTail
  <1> QED
    BY <1>5, <1>6, <1>9 DEF f

\* Types are kept; the split of an interval stays below USIZE_MAX because the
\* scan has just read index right_index.
LEMMA NextType == SortIInv /\ [SortNext]_sort_vars => SortTypeOK'
  <1> SUFFICES ASSUME SortIInv, [SortNext]_sort_vars PROVE SortTypeOK'
    OBVIOUS
  <1> USE DEF SortIInv, SortTypeOK, Indices, partition_locals
  <1>1. CASE get_mut
    BY <1>1, SMTT(30) DEF get_mut
  <1>2. CASE sort
    <2>1. Frame(0, wrapping_sub_1(map_len), 0) \in Frames
      BY DEF Frame, Frames, wrapping_sub_1
    <2> QED
      <3> DEFINE g == Frame(0, wrapping_sub_1(map_len), 0)
      <3>1. g \in Frames
        BY <2>1
      <3> HIDE DEF g
      <3>2. << g >> \in Seq(Frames)
        BY <3>1
      <3>3. stack' \in Seq(Frames)
        BY <1>2, <3>2, ZenonT(60) DEF sort, g
      <3> QED
        BY <1>2, <3>3 DEF sort
  <1>3. CASE qsort_return
    BY <1>3, TailFacts DEF qsort_return
  <1>4. CASE sort_return
    BY <1>4 DEF sort_return
  <1>5. CASE partition
    <2> DEFINE f == Head(stack)
    <2>1. f \in Frames
      BY <1>5, HeadFacts DEF partition
    <2>2. Middle(f) \in Nat
      <3>1. f.low \in Nat /\ f.high \in Nat /\ f.low < f.high
        BY <1>5, <2>1, SMTT(30) DEF partition, Frames
      <3> QED
        BY <3>1, SMTT(60) DEF Middle
    <2>3. wrapping_sub_1(f.low) \in 0 .. USIZE_MAX
      BY <2>1 DEF Frames, wrapping_sub_1
    <2>4. wrapping_add_1(f.high) \in 0 .. USIZE_MAX
      BY <2>1 DEF Frames, wrapping_add_1
    <2>5. Middle(f) < map_len => V(Middle(f)) \in Addrs
      BY <2>2, SMTT(60) DEF V, get_element_phys_addr
    <2> QED
      BY <1>5, <2>2, <2>3, <2>4, <2>5, SMTT(60) DEF partition, V
  <1>6. CASE scan_left
    <2>1. wrapping_add_1(left_index) \in 0 .. USIZE_MAX
      BY DEF wrapping_add_1
    <2> QED
      BY <1>6, <2>1 DEF scan_left
  <1>7. CASE scan_right
    <2>1. wrapping_sub_1(right_index) \in 0 .. USIZE_MAX
      BY DEF wrapping_sub_1
    <2> QED
      BY <1>7, <2>1 DEF scan_right
  <1>8. CASE swap
    <2>1. left_index \in Indices /\ right_index \in Indices
      BY <1>8, Partitioning, SMTT(30) DEF swap, PartitionInv, CompareInv
    <2> QED
      BY <1>8, <2>1, ZenonT(60) DEF swap, Swapped
  <1>9. CASE partition_return
    <2>1. stack' \in Seq(Frames)
      BY <1>9, ReturnSplits DEF Replaced
    <2> QED
      BY <1>9, <2>1 DEF partition_return
  <1>10. CASE UNCHANGED sort_vars
    BY <1>10 DEF sort_vars
  <1> QED
    BY <1>1, <1>2, <1>3, <1>4, <1>5, <1>6, <1>7, <1>8, <1>9, <1>10, ZenonT(60)
       DEF SortNext, Sorting

-----------------------------------------------------------------------------
\* Only an exchange moves descriptors, and it exchanges two of the map.
LEMMA NextPermutes == SortIInv /\ [SortNext]_sort_vars => SortPermutes'
  <1> SUFFICES ASSUME SortIInv, [SortNext]_sort_vars PROVE SortPermutes'
    OBVIOUS
  <1>1. CASE swap
    <2>1. left_index \in Indices /\ right_index \in Indices
      <3>1. CompareInv(Head(stack).low, Head(stack).high)
        BY <1>1, Partitioning DEF swap, SortIInv, PartitionInv
      <3> QED
        BY <1>1, <3>1, Partitioning DEF swap, CompareInv, Indices
    <2>2. map \in [Indices -> Indices] /\ SortPermutes
      BY DEF SortIInv, SortTypeOK
    <2>3. Indices' = Indices
      BY <1>1 DEF swap, Indices
    <2> QED
      BY <1>1, <2>1, <2>2, <2>3 DEF swap, Swapped, SortPermutes
  <1>2. CASE UNCHANGED <<map_len, map>>
    BY <1>2 DEF SortIInv, SortPermutes, Indices
  <1> QED
    BY <1>1, <1>2, ZenonT(60) DEF SortNext, Sorting, get_mut, sort, qsort_return, sort_return,
       partition, scan_left, scan_right, partition_return, sort_vars

\* An empty map never gets past the assertion of get_element_phys_addr.
LEMMA NextEmpty == SortIInv /\ [SortNext]_sort_vars => (map_len = 0 => EmptyInv)'
  <1> SUFFICES ASSUME SortIInv, [SortNext]_sort_vars, map_len' = 0 PROVE EmptyInv'
    OBVIOUS
  <1>1. map_len = 0 /\ EmptyInv
    BY ZenonT(60) DEF SortIInv, SortNext, Sorting, get_mut, sort, qsort_return, sort_return,
       partition, scan_left, scan_right, swap, partition_return, sort_vars
  <1>2. sort_pc = "qsort" => /\ stack # << >>
                             /\ Head(stack).low = 0 /\ Head(stack).high = USIZE_MAX
    BY <1>1 DEF EmptyInv, Frame
  <1>3. USIZE_MAX > 0
    OBVIOUS
  <1>4. CASE sort
    BY <1>1, <1>4 DEF sort, EmptyInv, wrapping_sub_1
  <1>5. CASE partition
    <2>1. Middle(Head(stack)) \in Nat
      BY <1>2, <1>3, <1>5 DEF partition, Middle
    <2> QED
      BY <1>1, <1>5, <2>1 DEF partition, EmptyInv
  <1>6. CASE get_mut
    BY <1>6 DEF get_mut, EmptyInv
  <1>7. CASE UNCHANGED sort_vars
    BY <1>1, <1>7 DEF sort_vars, EmptyInv
  <1>8. ~ qsort_return /\ ~ sort_return
    BY <1>2, <1>3 DEF qsort_return, sort_return
  <1> QED
    BY <1>1, <1>4, <1>5, <1>6, <1>7, <1>8, ZenonT(60) DEF EmptyInv, SortNext, Sorting,
       scan_left, scan_right, swap, partition_return

\* No operation changes the number of entries.
LEMMA LenConstant == [SortNext]_sort_vars => map_len' = map_len
  BY ZenonT(60) DEF SortNext, Sorting, get_mut, sort, qsort_return, sort_return, partition,
     scan_left, scan_right, swap, partition_return, sort_vars

\* Both scans stop inside the map, and the pivot lies in it.
LEMMA NextNoPanic == SortIInv /\ [SortNext]_sort_vars => NoPanic'
  <1> SUFFICES ASSUME SortIInv, [SortNext]_sort_vars, map_len' > 0 PROVE sort_pc' # "panic"
    BY DEF NoPanic
  <1>0. map_len \in Nat
    BY DEF SortIInv, SortTypeOK
  <1>1. map_len > 0 /\ sort_pc # "panic" /\ map_len \in Nat
    BY <1>0, LenConstant DEF SortIInv
  <1>2. CASE partition
    <2> DEFINE f == Head(stack)
    <2>1. f.low \in Nat /\ f.high \in Nat /\ f.low < f.high /\ f.high < map_len
      BY <1>1, <1>2, RunningCall DEF partition
    <2>2. Middle(f) \in Nat /\ Middle(f) < map_len
      BY <1>1, <2>1 DEF Middle
    <2> QED
      BY <1>1, <1>2, <2>2 DEF partition
  <1>3. CASE scan_left
    <2>1. wrapping_add_1(left_index) \in Nat
      BY <1>3, Partitioning DEF scan_left, wrapping_add_1
    <2>2. wrapping_add_1(left_index) < map_len
      BY <1>1, <1>3, <2>1, Partitioning
         DEF scan_left, SortIInv, PartitionInv, ScanLeftInv
    <2> QED
      BY <1>1, <1>3, <2>1, <2>2 DEF scan_left
  <1>4. CASE scan_right
    <2>1. right_index > 0 /\ right_index - 1 < map_len
      BY <1>1, <1>4, Partitioning, SMTT(60)
         DEF scan_right, SortIInv, PartitionInv, ScanRightInv
    <2> QED
      BY <1>1, <1>4, <2>1, Partitioning, SMTT(30) DEF scan_right, wrapping_sub_1
  <1>5. CASE sort
    BY <1>1, <1>5 DEF sort
  <1> QED
    BY <1>1, <1>2, <1>3, <1>4, <1>5, ZenonT(60) DEF SortNext, Sorting, get_mut, qsort_return,
       sort_return, swap, partition_return, sort_vars

\* Pending calls stay inside the map, in order and apart.
LEMMA NextFrames == SortIInv /\ map_len > 0 /\ [SortNext]_sort_vars => FramesInv'
  <1> SUFFICES ASSUME SortIInv, map_len > 0, [SortNext]_sort_vars PROVE FramesInv'
    OBVIOUS
  <1>1. FramesInv /\ stack \in Seq(Frames) /\ map_len \in Nat /\ map_len' = map_len
    BY LenConstant DEF SortIInv, SortTypeOK
  <1>2. CASE sort
    <2>1. map_len # 0 /\ wrapping_sub_1(map_len) = map_len - 1
      BY <1>1 DEF wrapping_sub_1
    <2>2. stack' = << Frame(0, map_len - 1, 0) >>
      BY <1>2, <2>1 DEF sort
    <2> QED
      BY <1>1, <2>2 DEF FramesInv, Nested, Frame
  <1>3. CASE qsort_return
    <2>1. stack # << >> /\ stack' = Tail(stack)
      BY <1>3 DEF qsort_return
    <2>2. \A k \in DOMAIN stack' : /\ k \in Nat /\ k + 1 \in DOMAIN stack
                                   /\ stack'[k] = stack[k + 1]
      BY <1>1, <2>1, TailFacts
    <2>3. \A k, l \in DOMAIN stack' : k < l => k + 1 < l + 1
      BY <2>2
    <2> QED
      BY <1>1, <2>2, <2>3 DEF FramesInv, Nested
  <1>4. CASE partition_return
    <2>1. PICK a \in Frames, b \in Frames :
              /\ Replaced(stack, stack', a, b)
              /\ a.low = stack[1].low /\ a.high = right_index
              /\ b.low = right_index + 1 /\ b.high = stack[1].high
              /\ a.depth = stack[1].depth + 1 /\ b.depth = stack[1].depth + 1
      BY <1>4, ReturnSplits
    <2>2. /\ Head(stack) = stack[1] /\ 1 \in DOMAIN stack
          /\ right_index \in Nat /\ stack[1].high \in Nat
      BY <1>4, Partitioning DEF partition_return
    <2>3. stack[1].low <= right_index /\ right_index < stack[1].high
      BY <1>4, <2>2, ReturnedIndex DEF partition_return
    <2>4. a.low <= a.high /\ b.low <= b.high /\ b.low = a.high + 1
      BY <2>1, <2>2, <2>3
    <2>5. Nested(stack', map_len)
      BY <1>1, <2>1, <2>2, <2>4, SplitNested DEF FramesInv
    <2> QED
      BY <1>1, <2>5 DEF FramesInv
  <1>5. CASE UNCHANGED stack
    BY <1>1, <1>5 DEF FramesInv
  <1> QED
    BY <1>2, <1>3, <1>4, <1>5 DEF SortNext, Sorting, get_mut, sort_return, partition,
       scan_left, scan_right, swap, sort_vars

-----------------------------------------------------------------------------
\* Comparisons see the same values unless descriptors or addresses change.
LEMMA ValuesUnchanged ==
    ASSUME UNCHANGED <<map_len, addr, map>>
    PROVE  Indices' = Indices /\ \A i \in Indices : V(i)' = V(i)
  BY DEF Indices, V, get_element_phys_addr

\* An exchange permutes the compared values and nothing else.
LEMMA ValuesSwapped ==
    ASSUME SortIInv, swap
    PROVE  /\ Indices' = Indices
           /\ left_index \in Indices /\ right_index \in Indices
           /\ V(left_index)' = V(right_index)
           /\ V(right_index)' = V(left_index)
           /\ \A i \in Indices \ {left_index, right_index} : V(i)' = V(i)
  <1>1. CompareInv(Head(stack).low, Head(stack).high) /\ left_index < right_index
    BY Partitioning DEF swap, SortIInv, PartitionInv
  <1>2. left_index \in Indices /\ right_index \in Indices
    BY <1>1, Partitioning DEF swap, CompareInv, Indices
  <1>3. map \in [Indices -> Indices] /\ Indices' = Indices
    BY SMTT(30) DEF SortIInv, SortTypeOK, swap, Indices
  <1>4. left_index' = left_index /\ right_index' = right_index /\ addr' = addr
    BY DEF swap, partition_locals
  <1>5. /\ map'[left_index] = map[right_index]
        /\ map'[right_index] = map[left_index]
        /\ \A i \in Indices \ {left_index, right_index} : map'[i] = map[i]
    BY <1>1, <1>2, <1>3 DEF swap, Swapped
  <1> QED
    BY <1>2, <1>3, <1>4, <1>5 DEF V, get_element_phys_addr

\* Two entries are in order or one pending call covers both.
LEMMA NextOrder == SortIInv /\ map_len > 0 /\ [SortNext]_sort_vars => OrderInv'
  <1> SUFFICES ASSUME SortIInv, map_len > 0, [SortNext]_sort_vars PROVE OrderInv'
    OBVIOUS
  <1>1. FramesInv /\ OrderInv /\ stack \in Seq(Frames) /\ map_len \in Nat /\ map_len' = map_len
    BY LenConstant DEF SortIInv, SortTypeOK
  <1>2. sort_pc # "panic"
    BY DEF SortIInv
  <1>3. CASE get_mut
    BY <1>3 DEF get_mut, OrderInv
  <1>4. CASE sort
    <2>1. map_len # 0 /\ wrapping_sub_1(map_len) = map_len - 1
      BY <1>1 DEF wrapping_sub_1
    <2>2. stack' = << Frame(0, map_len - 1, 0) >>
      BY <1>4, <2>1 DEF sort
    <2>3. 1 \in DOMAIN stack' /\ stack'[1].low = 0 /\ stack'[1].high = map_len - 1
      BY <2>2 DEF Frame
    <2> QED
      BY <1>1, <2>3 DEF OrderInv, Indices
  <1>5. CASE qsort_return
    <2>1. /\ stack # << >> /\ stack' = Tail(stack) /\ sort_pc = "qsort"
          /\ UNCHANGED <<map_len, addr, map>>
      BY <1>5 DEF qsort_return
    <2>2. \A k \in DOMAIN stack : k # 1 => /\ k - 1 \in DOMAIN stack'
                                           /\ stack'[k - 1] = stack[k]
      BY <1>1, <2>1, TailFacts
    <2>3. /\ stack[1].low \in Nat /\ stack[1].high \in Nat
          /\ stack[1].low >= stack[1].high
      BY <1>5, <2>1, RunningCall DEF qsort_return
    <2>4. ASSUME NEW i \in Indices', NEW j \in Indices', i < j, ~ (V(i) <= V(j))'
          PROVE  \E k \in DOMAIN stack' : stack'[k].low <= i /\ j <= stack'[k].high
      <3>1. i \in Indices /\ j \in Indices /\ ~ (V(i) <= V(j)) /\ i \in Nat /\ j \in Nat
        BY <2>1, <2>4, ValuesUnchanged DEF Indices
      <3>2. PICK k \in DOMAIN stack : stack[k].low <= i /\ j <= stack[k].high
        BY <1>1, <2>1, <2>4, <3>1 DEF OrderInv
      <3>3. k # 1
        BY <2>3, <2>4, <3>1, <3>2
      <3> QED
        BY <2>2, <3>2, <3>3
    <2> QED
      BY <2>4 DEF OrderInv
  <1>6. CASE sort_return
    <2>1. UNCHANGED <<map_len, addr, map, stack>> /\ sort_pc = "qsort"
      BY <1>6 DEF sort_return
    <2> QED
      BY <1>1, <2>1, ValuesUnchanged DEF OrderInv
  <1>7. CASE partition \/ scan_left \/ scan_right \/ UNCHANGED sort_vars
    <2>1. UNCHANGED <<map_len, addr, map, stack>> /\ (sort_pc \in {"idle", "panic"} => sort_pc' = sort_pc)
      BY <1>7 DEF partition, scan_left, scan_right, sort_vars
    <2> QED
      BY <1>1, <2>1, ValuesUnchanged DEF OrderInv
  <1>8. CASE partition_return
    <2>0. sort_pc = "compare" /\ left_index >= right_index /\ UNCHANGED <<map_len, addr, map>>
      BY <1>8 DEF partition_return
    <2>1. PICK a \in Frames, b \in Frames :
              /\ Replaced(stack, stack', a, b)
              /\ a.low = stack[1].low /\ a.high = right_index
              /\ b.low = right_index + 1 /\ b.high = stack[1].high
              /\ a.depth = stack[1].depth + 1 /\ b.depth = stack[1].depth + 1
      BY <1>8, ReturnSplits
    <2>2. /\ Head(stack) = stack[1] /\ right_index \in Nat /\ pivot \in Nat
          /\ stack[1].high \in Nat /\ stack[1].low \in Nat
      BY <2>0, Partitioning
    <2>3. /\ \A i \in stack[1].low .. right_index : V(i) <= pivot
          /\ \A i \in right_index + 1 .. stack[1].high : pivot <= V(i)
      BY <2>0, <2>2, ReturnedIndex
    <2>4. ASSUME NEW i \in Indices', NEW j \in Indices', i < j, ~ (V(i) <= V(j))'
          PROVE  \E k \in DOMAIN stack' : stack'[k].low <= i /\ j <= stack'[k].high
      <3>1. i \in Indices /\ j \in Indices /\ ~ (V(i) <= V(j)) /\ i \in Nat /\ j \in Nat
        BY <2>0, <2>4, ValuesUnchanged DEF Indices
      <3>2. V(i) \in Nat /\ V(j) \in Nat
        BY <3>1, ValueType DEF SortIInv
      <3>3. PICK k \in DOMAIN stack : stack[k].low <= i /\ j <= stack[k].high
        BY <1>1, <2>0, <2>4, <3>1 DEF OrderInv
      <3>4. CASE k = 1
        <4>1. CASE j <= right_index
          BY <2>1, <3>3, <3>4, <4>1 DEF Replaced
        <4>2. CASE i >= right_index + 1
          BY <2>1, <3>3, <3>4, <4>2 DEF Replaced
        <4>3. CASE i <= right_index /\ j >= right_index + 1
          <5>1. V(i) <= pivot /\ pivot <= V(j)
            BY <2>2, <2>3, <3>1, <3>3, <3>4, <4>3
          <5> QED
            BY <2>2, <3>1, <3>2, <5>1
        <4> QED
          BY <2>2, <3>1, <4>1, <4>2, <4>3
      <3>5. CASE k # 1
        <4>1. k > 1
          BY <1>1, <3>5
        <4>2. k + 1 \in DOMAIN stack' /\ stack'[k + 1] = stack[k]
          BY <2>1, <4>1 DEF Replaced
        <4> QED
          BY <3>3, <4>2
      <3> QED
        BY <3>4, <3>5
    <2> QED
      BY <2>4 DEF OrderInv
  <1>9. CASE swap
    <2> DEFINE f == stack[1]
    <2>0. /\ sort_pc = "compare" /\ left_index < right_index
          /\ UNCHANGED <<map_len, addr, stack, left_index, right_index>>
      BY <1>9 DEF swap, partition_locals
    <2>1. /\ Head(stack) = f /\ 1 \in DOMAIN stack
          /\ f.low \in Nat /\ f.high \in Nat
      BY <2>0, Partitioning
    <2>2. /\ f.low <= left_index /\ left_index <= f.high
          /\ f.low <= right_index /\ right_index <= f.high
      BY <2>0, <2>1 DEF SortIInv, PartitionInv, CompareInv
    <2>3. \A k \in DOMAIN stack : k = 1 \/ f.high < stack[k].low
      <3>1. \A k \in DOMAIN stack : k = 1 \/ 1 < k
        BY <1>1
      <3> QED
        BY <1>1, <2>1, <3>1 DEF FramesInv, Nested
    <2>4. \A k \in DOMAIN stack : stack[k].low \in Nat
      <3>1. \A k \in DOMAIN stack : stack[k] \in Frames
        BY <1>1
      <3>2. \A g \in Frames : g.low \in Nat
        BY DEF Frames
      <3> QED
        BY <3>1, <3>2
    <2> HIDE DEF f
    <2>5. ASSUME NEW i \in Indices, NEW j \in Indices, i < j,
                 \A k \in DOMAIN stack : ~ (stack[k].low <= i /\ j <= stack[k].high)
          PROVE  (V(i) <= V(j))'
      <3> DEFINE Here(x) == f.low <= x /\ x <= f.high
      <3>0. i \in Nat /\ j \in Nat /\ ~ (Here(i) /\ Here(j))
        BY <2>1, <2>5 DEF Indices, f
      <3>1. ASSUME NEW x \in Indices, Here(x)
            PROVE  \E y \in Indices : Here(y) /\ V(x)' = V(y)
        <4>1. CASE x = left_index
          <5>1. right_index \in Indices /\ V(x)' = V(right_index)
            BY <1>9, <2>0, <4>1, ValuesSwapped
          <5> QED
            BY <2>2, <5>1
        <4>2. CASE x = right_index
          <5>1. left_index \in Indices /\ V(x)' = V(left_index)
            BY <1>9, <2>0, <4>2, ValuesSwapped
          <5> QED
            BY <2>2, <5>1
        <4>3. CASE x \notin {left_index, right_index}
          BY <1>9, <3>1, <4>3, ValuesSwapped
        <4> QED
          BY <4>1, <4>2, <4>3
      <3>2. \A x \in Indices : ~ Here(x) => V(x)' = V(x)
        BY <1>9, <2>2, ValuesSwapped
      <3>3. ASSUME NEW x \in Indices, NEW y \in Indices, x < y, ~ (Here(x) /\ Here(y)),
                   Here(x) \/ Here(y)
            PROVE  V(x) <= V(y)
        <4>0. x \in Nat /\ y \in Nat
          BY DEF Indices
        <4>1. ASSUME NEW k \in DOMAIN stack, stack[k].low <= x, y <= stack[k].high
              PROVE  FALSE
          <5>1. CASE k = 1
            BY <2>1, <3>3, <4>0, <4>1, <5>1 DEF f
          <5>2. CASE f.high < stack[k].low
            BY <2>1, <2>4, <3>3, <4>0, <4>1, <5>2
          <5> QED
            BY <2>3, <5>1, <5>2
        <4> QED
          BY <1>1, <2>0, <3>3, <4>1 DEF OrderInv
      <3>4. CASE ~ Here(i) /\ ~ Here(j)
        <4>1. V(i) <= V(j)
          BY <1>1, <2>0, <2>5 DEF OrderInv
        <4> QED
          BY <3>2, <3>4, <4>1
      <3>5. CASE Here(i) /\ ~ Here(j)
        <4>1. PICK y \in Indices : Here(y) /\ V(i)' = V(y)
          BY <3>1, <3>5
        <4>2. y < j
          BY <2>1, <2>5, <3>0, <3>5, <4>1 DEF Indices
        <4> QED
          BY <3>2, <3>3, <3>5, <4>1, <4>2
      <3>6. CASE ~ Here(i) /\ Here(j)
        <4>1. PICK y \in Indices : Here(y) /\ V(j)' = V(y)
          BY <3>1, <3>6
        <4>2. i < y
          BY <2>1, <2>5, <3>0, <3>6, <4>1 DEF Indices
        <4> QED
          BY <3>2, <3>3, <3>6, <4>1, <4>2
      <3> QED
        BY <3>0, <3>4, <3>5, <3>6
    <2>6. Indices' = Indices /\ stack' = stack
      BY <1>9, <2>0, ValuesSwapped
    <2> QED
      BY <2>5, <2>6 DEF OrderInv
  <1> QED
    BY <1>3, <1>4, <1>5, <1>6, <1>7, <1>8, <1>9 DEF SortNext, Sorting

-----------------------------------------------------------------------------
\* Hoare's invariant of partition.
LEMMA NextPartition == SortIInv /\ map_len > 0 /\ [SortNext]_sort_vars => PartitionInv'
  <1> SUFFICES ASSUME SortIInv, map_len > 0, [SortNext]_sort_vars PROVE PartitionInv'
    OBVIOUS
  <1> DEFINE f == Head(stack)
  <1>1. PartitionInv /\ SortTypeOK /\ map_len \in Nat /\ map_len' = map_len
    BY LenConstant DEF SortIInv, SortTypeOK
  <1>a. map_len <= MaxMapLen /\ map_len < USIZE_MAX
    BY DEF SortIInv, SortTypeOK
  <1>2. CASE get_mut
    BY <1>1, <1>2 DEF get_mut, PartitionInv
  <1>3. CASE sort
    BY <1>1, <1>3 DEF sort, PartitionInv
  <1>4. CASE qsort_return
    BY <1>4 DEF qsort_return, PartitionInv
  <1>5. CASE sort_return
    BY <1>5 DEF sort_return, PartitionInv
  <1>6. CASE partition_return
    BY <1>6, SMTT(60) DEF partition_return, PartitionInv
  <1>7. CASE UNCHANGED sort_vars
    <2>1. UNCHANGED <<map_len, addr, map, stack, pivot, left_index, right_index, sort_pc>>
      BY <1>7 DEF sort_vars
    <2> QED
      BY <1>1, <2>1 DEF PartitionInv, ScanLeftInv, ScanRightInv, CompareInv,
         V, get_element_phys_addr, wrapping_add_1
  <1>8. CASE partition
    <2>1. PICK l \in Nat, h \in Nat :
             /\ l = f.low /\ h = f.high /\ l < h /\ h < map_len /\ stack # << >>
      BY <1>8, RunningCall DEF partition
    <2>2. PICK m \in Nat : m = Middle(f) /\ l <= m /\ m < h
      <3>1. Middle(f) = l + (h - l) \div 2
        BY <2>1 DEF Middle
      <3>2. l + (h - l) \div 2 \in Nat /\ l <= l + (h - l) \div 2 /\ l + (h - l) \div 2 < h
        BY <2>1, SMTT(60)
      <3> QED
        BY <3>1, <3>2
    <2>3. h < USIZE_MAX /\ m \in Indices
      BY <1>1, <1>a, <2>1, <2>2 DEF Indices
    <2>4. /\ pivot' = V(m) /\ sort_pc' = "left"
          /\ left_index' = wrapping_sub_1(l)
          /\ right_index' = wrapping_add_1(h)
          /\ UNCHANGED <<map_len, addr, map, stack>>
      <3>1. m < map_len /\ ~ (m >= map_len)
        BY <1>1, <2>1, <2>2
      <3> QED
        BY <1>8, <2>1, <2>2, <3>1 DEF partition, V
    <2>5. wrapping_add_1(left_index') = l /\ right_index' = h + 1
      BY <2>1, <2>3, <2>4 DEF wrapping_add_1, wrapping_sub_1
    <2>6. V(m)' = V(m) /\ V(m) \in Nat
      BY <1>1, <2>3, <2>4, ValuesUnchanged, ValueType
    <2>7. ScanLeftInv(l, h, l)'
      <3>1. pivot' = V(m)' /\ pivot' \in Nat
        BY <2>4, <2>6
      <3>2. /\ l <= l /\ l <= right_index' /\ right_index' <= h + 1
            /\ m \in l .. h /\ m <= right_index'
            /\ m \in l .. right_index' - 1 /\ m \in l .. h - 1
        BY <2>1, <2>2, <2>5
      <3>3. l .. l - 1 = {} /\ right_index' .. h = {}
        BY <2>1, <2>5
      <3> QED
        BY <3>1, <3>2, <3>3 DEF ScanLeftInv
    <2>8. Head(stack)'.low = l /\ Head(stack)'.high = h
      BY <2>1, <2>4
    <2> QED
      BY <2>1, <2>4, <2>5, <2>7, <2>8 DEF PartitionInv
  <1>9. CASE scan_left
    <2>0. sort_pc = "left"
      BY <1>9 DEF scan_left
    <2>1. PICK l \in Nat, h \in Nat :
             /\ l = f.low /\ h = f.high /\ l < h /\ h < map_len /\ stack # << >>
      BY <2>0, Partitioning, SMTT(30)
    <2>2. PICK n \in Nat : n = wrapping_add_1(left_index)
      BY <2>0, Partitioning DEF wrapping_add_1
    <2>3. /\ right_index \in Nat /\ pivot \in Nat /\ pivot' = pivot
          /\ ScanLeftInv(l, h, n)
      BY <1>1, <1>9, <2>0, <2>1, <2>2, Partitioning DEF PartitionInv, scan_left
    <2>4. n <= h /\ n \in Indices /\ n < USIZE_MAX
      <3>1. n <= h
        BY <2>1, <2>3 DEF ScanLeftInv
      <3> QED
        BY <1>1, <1>a, <2>1, <3>1 DEF Indices
    <2>5. /\ left_index' = n /\ sort_pc' = IF V(n) < pivot THEN "left" ELSE "right"
          /\ UNCHANGED <<map_len, addr, map, stack, right_index>>
      <3>1. n < map_len /\ ~ (n >= map_len)
        BY <1>1, <2>4 DEF Indices
      <3> QED
        BY <1>9, <2>2, <3>1 DEF scan_left, LeftContinues, V
    <2>6. \A i \in Indices : V(i)' = V(i) /\ V(i) \in Nat
      BY <1>1, <2>5, ValuesUnchanged, ValueType
    <2>7. l .. h \subseteq Indices
      BY <1>1, <2>1 DEF Indices
    <2>8. Head(stack)'.low = l /\ Head(stack)'.high = h /\ stack' # << >>
      BY <2>1, <2>5
    <2>9. CASE V(n) < pivot
      <3>1. wrapping_add_1(left_index') = n + 1
        BY <2>4, <2>5 DEF wrapping_add_1
      <3>2. \A i \in l .. n : V(i) <= pivot
        BY <2>1, <2>3, <2>4, <2>6, <2>7, <2>9 DEF ScanLeftInv
      <3>3. \A i \in n .. h : pivot <= V(i) => i >= n + 1
        BY <2>4, <2>6, <2>7, <2>9, <2>1, <2>3
      <3>4. ScanLeftInv(l, h, n + 1)
        BY <2>1, <2>3, <2>4, <3>2, <3>3, SMTT(60) DEF ScanLeftInv
      <3>5. ScanLeftInv(l, h, n + 1)'
        BY <2>3, <2>5, <3>4 DEF ScanLeftInv, V, get_element_phys_addr
      <3> QED
        BY <2>1, <2>5, <2>8, <2>9, <3>1, <3>5 DEF PartitionInv
    <2>10. CASE ~ (V(n) < pivot)
      <3>1. pivot <= V(n)
        BY <2>3, <2>4, <2>6, <2>10
      <3>2. ScanRightInv(l, h)'
        <4>1. /\ l <= n /\ n <= h /\ n <= right_index /\ right_index <= h + 1
              /\ right_index = h + 1 => n < h
          BY <2>1, <2>3, <2>4 DEF ScanLeftInv
        <4> QED
          BY <2>3, <2>5, <3>1, <4>1
             DEF ScanLeftInv, ScanRightInv, V, get_element_phys_addr
      <3> QED
        BY <2>1, <2>5, <2>8, <2>10, <3>2 DEF PartitionInv
    <2> QED
      BY <2>9, <2>10
  <1>10. CASE scan_right
    <2>0. sort_pc = "right"
      BY <1>10 DEF scan_right
    <2>1. PICK l \in Nat, h \in Nat :
             /\ l = f.low /\ h = f.high /\ l < h /\ h < map_len /\ stack # << >>
      BY <2>0, Partitioning
    <2>2. /\ left_index \in Nat /\ right_index \in Nat /\ pivot \in Nat
          /\ ScanRightInv(l, h)
      BY <1>1, <2>0, <2>1, Partitioning DEF PartitionInv
    <2>3. right_index >= 1 /\ right_index - 1 >= l /\ right_index - 1 <= h
      BY <2>1, <2>2 DEF ScanRightInv
    <2>4. PICK n \in Nat : n = right_index - 1 /\ n = wrapping_sub_1(right_index)
      BY <2>2, <2>3 DEF wrapping_sub_1
    <2>5. n \in Indices /\ l <= n /\ n <= h
      BY <1>1, <2>1, <2>2, <2>3, <2>4 DEF Indices
    <2>6. /\ right_index' = n /\ sort_pc' = IF V(n) > pivot THEN "right" ELSE "compare"
          /\ UNCHANGED <<map_len, addr, map, stack, pivot, left_index>>
      <3>1. n < map_len /\ ~ (n >= map_len)
        BY <1>1, <2>5 DEF Indices
      <3> QED
        BY <1>10, <2>4, <3>1 DEF scan_right, RightContinues, V
    <2>7. V(n) \in Nat
      BY <1>1, <2>5, ValueType
    <2>8. Head(stack)'.low = l /\ Head(stack)'.high = h /\ stack' # << >>
      BY <2>1, <2>6
    <2>9. /\ l <= left_index /\ left_index <= h
          /\ pivot <= V(left_index)
          /\ \A i \in l .. left_index - 1 : V(i) <= pivot
          /\ \A i \in n + 1 .. h : pivot <= V(i)
          /\ n = h => left_index < h
      BY <2>1, <2>2, <2>4 DEF ScanRightInv
    <2>10. CASE V(n) > pivot
      <3>1. \E i \in l .. n - 1 : V(i) <= pivot
        <4>1. PICK i \in l .. right_index - 1 : V(i) <= pivot
          BY <2>2 DEF ScanRightInv
        <4>2. i # n
          BY <2>2, <2>7, <2>10, <4>1
        <4> QED
          BY <2>1, <2>2, <2>4, <4>1, <4>2
      <3>2. left_index <= n
        <4>1. left_index <= right_index
          BY <2>2 DEF ScanRightInv
        <4>2. left_index # right_index
          <5>1. left_index = right_index => n \in l .. left_index - 1
            BY <2>1, <2>2, <2>4, <2>5
          <5> QED
            BY <2>2, <2>7, <2>9, <2>10, <5>1
        <4> QED
          BY <2>2, <2>4, <4>1, <4>2
      <3>3. \A i \in n .. h : pivot <= V(i)
        BY <2>1, <2>2, <2>7, <2>9, <2>10
      <3>4. n # h + 1 /\ n <= h + 1
        BY <2>1, <2>5
      <3>5. ScanRightInv(l, h)'
        BY <2>6, <2>9, <3>1, <3>2, <3>3, <3>4
           DEF ScanRightInv, V, get_element_phys_addr
      <3> QED
        BY <2>1, <2>6, <2>8, <2>10, <3>5 DEF PartitionInv
    <2>11. CASE ~ (V(n) > pivot)
      <3>1. V(n) <= pivot
        BY <2>2, <2>7, <2>11
      <3>2. CompareInv(l, h)'
        BY <2>5, <2>6, <2>9, <3>1 DEF CompareInv, V, get_element_phys_addr
      <3> QED
        BY <2>1, <2>6, <2>8, <2>11, <3>2 DEF PartitionInv
    <2> QED
      BY <2>10, <2>11
  <1>11. CASE swap
    <2>0. sort_pc = "compare" /\ sort_pc' = "left" /\ left_index < right_index
      BY <1>11 DEF swap
    <2>1. PICK l \in Nat, h \in Nat :
             /\ l = f.low /\ h = f.high /\ l < h /\ h < map_len /\ stack # << >>
      BY <2>0, Partitioning
    <2>2. PICK i0 \in Nat, j0 \in Nat : i0 = left_index /\ j0 = right_index
      BY <2>0, Partitioning
    <2>3. CompareInv(l, h) /\ pivot \in Nat
      BY <1>1, <2>0, <2>1, Partitioning DEF PartitionInv
    <2>4. UNCHANGED <<map_len, addr, stack, pivot, left_index, right_index>>
      BY <1>11 DEF swap, partition_locals
    <2>5. /\ l <= i0 /\ i0 < j0 /\ j0 <= h /\ i0 < USIZE_MAX
          /\ i0 \in Indices /\ j0 \in Indices
      <3>1. l <= i0 /\ i0 < j0 /\ j0 <= h
        BY <2>0, <2>2, <2>3 DEF CompareInv
      <3> QED
        BY <1>1, <1>a, <2>1, <3>1 DEF Indices
    <2>6. wrapping_add_1(left_index') = i0 + 1
      BY <2>2, <2>4, <2>5 DEF wrapping_add_1
    <2>7. /\ map'[i0] = map[j0] /\ map'[j0] = map[i0]
          /\ \A i \in Indices : i # i0 /\ i # j0 => map'[i] = map[i]
      BY <1>1, <1>11, <2>2, <2>5 DEF swap, Swapped, SortTypeOK
    <2>8. /\ V(i0)' = V(j0) /\ V(j0)' = V(i0)
          /\ \A i \in Indices : i # i0 /\ i # j0 => V(i)' = V(i)
      BY <2>4, <2>7 DEF V, get_element_phys_addr
    <2>9. /\ pivot <= V(i0) /\ V(j0) <= pivot
          /\ \A i \in l .. i0 - 1 : V(i) <= pivot
          /\ \A i \in j0 + 1 .. h : pivot <= V(i)
      BY <2>2, <2>3 DEF CompareInv
    <2>10. \A i \in l .. i0 : V(i)' <= pivot
      <3> SUFFICES ASSUME NEW i \in l .. i0 PROVE V(i)' <= pivot
        OBVIOUS
      <3>1. i = i0 \/ (i \in l .. i0 - 1 /\ i \in Indices /\ i # j0)
        BY <1>1, <2>1, <2>5 DEF Indices
      <3> QED
        BY <2>8, <2>9, <3>1
    <2>11. \A i \in j0 .. h : pivot <= V(i)'
      <3> SUFFICES ASSUME NEW i \in j0 .. h PROVE pivot <= V(i)'
        OBVIOUS
      <3>1. i = j0 \/ (i \in j0 + 1 .. h /\ i \in Indices /\ i # i0)
        BY <1>1, <2>1, <2>5 DEF Indices
      <3> QED
        BY <2>8, <2>9, <3>1
    <2>12. /\ i0 \in l .. i0 /\ j0 \in j0 .. h /\ j0 \in i0 + 1 .. h
           /\ i0 \in l .. j0 - 1 /\ i0 + 1 - 1 = i0 /\ j0 # h + 1
           /\ l <= i0 + 1 /\ i0 + 1 <= j0 /\ j0 <= h + 1 /\ j0 <= j0
      BY <2>1, <2>5
    <2>13. ScanLeftInv(l, h, i0 + 1)'
      <3>1. pivot' = pivot /\ right_index' = j0
        BY <2>2, <2>4
      <3>2. \E i \in i0 + 1 .. h : pivot <= V(i)' /\ i <= j0
        BY <2>11, <2>12
      <3>3. \E i \in l .. j0 - 1 : V(i)' <= pivot
        BY <2>10, <2>12
      <3> QED
        BY <2>10, <2>11, <2>12, <3>1, <3>2, <3>3 DEF ScanLeftInv
    <2>14. Head(stack)'.low = l /\ Head(stack)'.high = h /\ stack' # << >>
      BY <2>1, <2>4
    <2> QED
      BY <2>0, <2>1, <2>6, <2>13, <2>14 DEF PartitionInv
  <1> QED
    BY <1>2, <1>3, <1>4, <1>5, <1>6, <1>7, <1>8, <1>9, <1>10, <1>11 DEF SortNext, Sorting

-----------------------------------------------------------------------------
\* SortIInv is an inductive invariant of the sort.
THEOREM SortInvariance == SortSpec => []SortIInv
  <1>1. SortInit => SortIInv
    BY InitIInv
  <1>2. SortIInv /\ [SortNext]_sort_vars => SortIInv'
    <2> SUFFICES ASSUME SortIInv, [SortNext]_sort_vars PROVE SortIInv'
      OBVIOUS
    <2>1. SortTypeOK' /\ SortPermutes' /\ (map_len = 0 => EmptyInv)' /\ NoPanic'
      BY NextType, NextPermutes, NextEmpty, NextNoPanic
    <2>2. map_len' > 0 => FramesInv' /\ OrderInv' /\ PartitionInv'
      BY LenConstant, NextFrames, NextOrder, NextPartition
    <2> QED
      BY <2>1, <2>2 DEF SortIInv, NoPanic
  <1> QED
    BY <1>1, <1>2, PTL DEF SortSpec

\* Types are preserved by every step of the sort.
THEOREM SortTypeCorrect == SortSpec => []SortTypeOK
  <1>1. SortIInv => SortTypeOK
    BY DEF SortIInv
  <1> QED
    BY <1>1, SortInvariance, PTL

\* For every map, sort returns with is_sorted true.
THEOREM SortIsCorrect == SortSpec => []SortCorrect
  <1>1. SortIInv => SortCorrect
    <2> SUFFICES ASSUME SortIInv, sort_pc = "done" PROVE is_sorted
      BY DEF SortCorrect
    <2>1. map_len > 0 /\ map_len \in Nat /\ stack = << >> /\ OrderInv
      BY DEF SortIInv, SortTypeOK, EmptyInv, PartitionInv
    <2>2. \A i, j \in Indices : i < j => V(i) <= V(j)
      BY <2>1 DEF OrderInv
    <2>3. \A i \in 0 .. map_len - 2 : i \in Indices /\ i + 1 \in Indices /\ i < i + 1
      BY <2>1 DEF Indices
    <2> QED
      BY <2>2, <2>3 DEF is_sorted, V
  <1> QED
    BY <1>1, SortInvariance, PTL

\* For every map, no descriptor is lost or duplicated at any step.
THEOREM SortPermutesCorrect == SortSpec => []SortPermutes
  <1>1. SortIInv => SortPermutes
    BY DEF SortIInv
  <1> QED
    BY <1>1, SortInvariance, PTL

\* No index assertion of the sort fails on a map with entries.
THEOREM SortNoPanic == SortSpec => []NoPanic
  <1>1. SortIInv => NoPanic
    BY DEF SortIInv, NoPanic
  <1> QED
    BY <1>1, SortInvariance, PTL

\* The recursion is less deep than the map is long.
THEOREM SortDepthBounded == SortSpec => []DepthBounded
  <1>1. SortIInv => DepthBounded
    <2> SUFFICES ASSUME SortIInv, map_len > 0, NEW k \in DOMAIN stack
                 PROVE  stack[k].depth < map_len
      BY DEF DepthBounded
    <2>1. stack[k] \in Frames /\ map_len \in Nat
      BY DEF SortIInv, SortTypeOK
    <2>2. stack[k].low \in Nat /\ stack[k].high \in Nat /\ stack[k].depth \in Nat
      BY <2>1 DEF Frames
    <2>3. /\ stack[k].low <= stack[k].high
          /\ stack[k].depth + stack[k].high - stack[k].low < map_len
      BY DEF SortIInv, FramesInv, Nested
    <2> QED
      BY <2>1, <2>2, <2>3
  <1> QED
    BY <1>1, SortInvariance, PTL

\* A sorted map stays sorted at every step of a further sort.
THEOREM SortedStable == SortSpec => SortedStaysSorted
  <1>1. SortIInv /\ [SortNext]_sort_vars => [Sorting /\ Ordered => Ordered']_sort_vars
    <2> SUFFICES ASSUME SortIInv, Sorting, Ordered PROVE Ordered'
      OBVIOUS
    <2>1. CASE swap
      <3>1. /\ pivot \in Nat /\ left_index < right_index
            /\ pivot <= V(left_index) /\ V(right_index) <= pivot
        BY <2>1, Partitioning DEF swap, SortIInv, PartitionInv, CompareInv
      <3>2. /\ left_index \in Indices /\ right_index \in Indices
            /\ V(left_index) \in Nat /\ V(right_index) \in Nat
        BY <2>1, ValuesSwapped, ValueType DEF SortIInv
      <3>3. V(left_index) <= V(right_index)
        BY <3>1, <3>2 DEF Ordered, V
      <3>4. V(left_index) = V(right_index)
        BY <3>1, <3>2, <3>3
      <3>5. left_index' = left_index /\ right_index' = right_index
        BY <2>1 DEF swap, partition_locals
      <3>6. Indices' = Indices /\ \A i \in Indices : V(i)' = V(i)
        BY <2>1, <3>2, <3>4, <3>5, ValuesSwapped DEF V, get_element_phys_addr
      <3> QED
        BY <3>6 DEF Ordered, V, get_element_phys_addr
    <2>2. CASE UNCHANGED <<map_len, addr, map>>
      BY <2>2 DEF Ordered, Indices, get_element_phys_addr
    <2> QED
      BY <2>1, <2>2, ZenonT(60) DEF Sorting, qsort_return, sort_return, partition, scan_left,
         scan_right, partition_return
  <1> QED
    BY <1>1, SortInvariance, PTL DEF SortSpec, SortedStaysSorted

\* The quicksort implements the abstract sort: seen from outside, every step of
\* qsort, partition and swap is an exchange of two entries that ExchangeSort
\* allows, the return on a map in order, or nothing.
THEOREM SortImplements == SortSpec => SortsByExchanges
  <1>1. SortInit => Exchanges!Init
    BY DEF SortInit, Exchanges!Init, Exchanges!Indices, Phase
  <1>2. SortIInv /\ [SortNext]_sort_vars => [Exchanges!Next]_(Exchanges!vars)
    <2> SUFFICES ASSUME SortIInv, [SortNext]_sort_vars
                 PROVE  Exchanges!Next \/ UNCHANGED <<map_len, addr, map, Phase>>
      BY DEF Exchanges!vars
    <2>0. Exchanges!Indices = Indices /\ \A i : Exchanges!At(i) = V(i)
      BY DEF Exchanges!Indices, Exchanges!At, Indices, V, get_element_phys_addr
    <2>1. CASE get_mut
      <3>1. Phase \in {"idle", "done"} /\ Phase' = "idle"
        BY <2>1 DEF get_mut, Phase
      <3>2. Exchanges!Rewrite
        BY <2>0, <2>1, <3>1, ZenonT(60) DEF get_mut, Exchanges!Rewrite
      <3> QED
        BY <3>2 DEF Exchanges!Next
    <2>2. CASE sort
      <3>1. Phase \in {"idle", "done"} /\ UNCHANGED <<map_len, addr, map>>
        BY <2>2 DEF sort, Phase
      <3>2. Phase' = "sorting" \/ (map_len = 0 /\ Phase' = "panic")
        BY <2>2 DEF sort, Phase
      <3>3. CASE Phase' = "sorting"
        BY <3>1, <3>3 DEF Exchanges!Next, Exchanges!Begin
      <3>4. CASE map_len = 0 /\ Phase' = "panic"
        BY <3>1, <3>4 DEF Exchanges!Next, Exchanges!Fail
      <3> QED
        BY <3>2, <3>3, <3>4
    <2>3. CASE sort_return
      <3>1. /\ Phase = "sorting" /\ Phase' = "done" /\ UNCHANGED <<map_len, addr, map>>
            /\ sort_pc = "qsort" /\ stack = << >>
        BY <2>3 DEF sort_return, Phase
      <3>2. map_len > 0 /\ OrderInv
        BY <3>1 DEF SortIInv, EmptyInv, SortTypeOK
      <3>3. Exchanges!InOrder
        BY <2>0, <3>1, <3>2 DEF OrderInv, Exchanges!InOrder
      <3> QED
        BY <3>1, <3>3 DEF Exchanges!Next, Exchanges!End
    <2>4. CASE swap
      <3>1. /\ pivot \in Nat /\ left_index < right_index
            /\ pivot <= V(left_index) /\ V(right_index) <= pivot
        BY <2>4, Partitioning DEF swap, SortIInv, PartitionInv, CompareInv
      <3>2. /\ left_index \in Indices /\ right_index \in Indices
            /\ V(left_index) \in Nat /\ V(right_index) \in Nat
        BY <2>4, ValuesSwapped, ValueType DEF SortIInv
      <3>3. V(left_index) >= V(right_index)
        BY <3>1, <3>2
      <3>4. Phase = "sorting" /\ Phase' = "sorting" /\ UNCHANGED <<map_len, addr>>
        BY <2>4 DEF swap, Phase
      <3>5. map' = [map EXCEPT ![left_index] = map[right_index], ![right_index] = map[left_index]]
        BY <2>4 DEF swap, Swapped
      <3>6. Exchanges!Exchange
        BY <2>0, <3>1, <3>2, <3>3, <3>4, <3>5, ZenonT(60) DEF Exchanges!Exchange
      <3> QED
        BY <3>6, SMTT(30) DEF Exchanges!Next
    <2>5. CASE partition \/ scan_left \/ scan_right
      <3>1. Phase = "sorting" /\ UNCHANGED <<map_len, addr, map>>
        BY <2>5 DEF partition, scan_left, scan_right, Phase
      <3>2. Phase' = "sorting" \/ sort_pc' = "panic"
        BY <2>5 DEF partition, scan_left, scan_right, Phase
      <3>3. sort_pc' = "panic" => map_len = 0 /\ Phase' = "panic"
        BY <3>1, NextNoPanic DEF NoPanic, SortIInv, SortTypeOK, Phase
      <3>4. CASE sort_pc' = "panic"
        BY <3>1, <3>3, <3>4 DEF Exchanges!Next, Exchanges!Fail
      <3> QED
        BY <3>1, <3>2, <3>4
    <2>6. CASE qsort_return \/ partition_return
      BY <2>6, ZenonT(60) DEF qsort_return, partition_return, Phase
    <2>7. CASE UNCHANGED sort_vars
      BY <2>7 DEF sort_vars, Phase
    <2> QED
      BY <2>1, <2>2, <2>3, <2>4, <2>5, <2>6, <2>7 DEF SortNext, Sorting
  <1> QED
    BY <1>1, <1>2, SortInvariance, PTL DEF SortSpec, SortsByExchanges, Exchanges!Spec

=============================================================================
