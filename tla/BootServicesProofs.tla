------------------------- MODULE BootServicesProofs -------------------------
(***************************************************************************)
(* The safety properties of BootServices, for every number of buffers,     *)
(* every amount of slack and every bound.                                  *)
(***************************************************************************)
EXTENDS BootServices, TLAPS

Assumptions == /\ EXTRA_ENTRIES \in Nat
               /\ AllocGrowth \in Nat /\ AllocGrowth <= EXTRA_ENTRIES
               /\ MaxLen \in Nat \ {0}
               /\ MaxKey \in Nat

\* Groups of definitions the leaves below expand.
USE DEF MaxTries

\* The assumptions on the constants, in one fact.
LEMMA Constants == Assumptions
BY ExtraEntriesAssumption, AllocGrowthAssumption, SlackAssumption, MaxLenAssumption, MaxKeyAssumption
   DEF Assumptions

\* The initial states satisfy the inductive invariant.
LEMMA InitIInv == Init => IInv
<1> SUFFICES ASSUME Init PROVE IInv
  OBVIOUS
<1> USE DEF Init, PoolHolders
<1>1. TypeOK
  <2>1. snap \in Snapshots
    BY DEF Snapshots
  <2>2. /\ bootServices \in BOOLEAN /\ exitCalled \in BOOLEAN /\ loggerSet \in BOOLEAN
        /\ writer \in BOOLEAN /\ fault \in BOOLEAN
    BY Zenon
  <2>3. /\ allocs \in SUBSET Bufs /\ owned \in SUBSET Maps
        /\ calls \in SUBSET (BootCalls \cup RuntimeCalls)
    OBVIOUS
  <2>4. /\ systemTable \in {"null"} \cup Modes /\ addressing \in Modes /\ pc \in PCs
        /\ buf \in Bufs \cup {NoBuf} /\ len \in Lens
        /\ key \in Nat /\ cap \in Nat /\ tries \in 0..MaxTries /\ changes \in Nat
    BY DEF Modes, PCs, NoBuf
  <2> QED BY <2>1, <2>2, <2>3, <2>4, Zenon DEF TypeOK
<1>2. ControlInv /\ SnapInv /\ RetryInv
  BY DEF ControlInv, SnapInv, RetryInv, are_boot_services_active
<1>3. BackingMemoryExact /\ FinalMapExact /\ TableMatchesMode
  BY DEF BackingMemoryExact, FinalMapExact, TableMatchesMode
<1> QED BY <1>1, <1>2, <1>3 DEF IInv

\* A pool operation of the firmware leaves a well-formed memory map.
LEMMA PoolStepType ==
    ASSUME NEW A \in SUBSET Bufs, key \in Nat, len \in Lens, PoolStep(A)
    PROVE  key' = key + 1 /\ key' \in Nat /\ len' \in Lens /\ allocs' = A
BY SMTT(60) DEF PoolStep, Lens

\* Every step preserves the type invariant: no local variable of memory_map
\* and exit_boot_services ever holds a value of the wrong kind, and the loop
\* of exit_boot_services makes at most two rounds.
LEMMA NextType == IInv /\ [Next]_vars => TypeOK'
<1> SUFFICES ASSUME IInv, [Next]_vars PROVE TypeOK'
  OBVIOUS
<1> USE Constants DEF Assumptions, TypeOK, Modes, PCs, PoolHolders, BootCalls, RuntimeCalls,
        fwVars, mapVars, logVars, locals, historyVars
<1>0. TypeOK /\ ControlInv /\ RetryInv
  BY DEF IInv
<1>s. Snapshot \in Snapshots
  BY <1>0 DEF Snapshot, Snapshots, Lens
<1>l. log \in SUBSET (BootCalls \cup RuntimeCalls)
  BY DEF log
<1>1. CASE entry
  BY <1>0, <1>1 DEF entry
<1>2. CASE helpers_init
  BY <1>0, <1>2, ZenonT(60) DEF helpers_init, Panic
<1>3. CASE log_record
  BY <1>0, <1>3, <1>l DEF log_record
<1>4. CASE print
  BY <1>0, <1>4, <1>l DEF print
<1>5. CASE memory_map
  BY <1>0, <1>5 DEF memory_map, memory_map_size, safe_allocation_size_hint, Panic, Lens
<1>6. ASSUME NEW m \in owned, drop_memory_map(m)
      PROVE  TypeOK'
  <2>1. CASE are_boot_services_active
    BY <1>0, <1>6, <2>1, PoolStepType DEF drop_memory_map
  <2>2. CASE ~are_boot_services_active
    BY <1>0, <1>6, <2>2, <1>l, ZenonT(60) DEF drop_memory_map
  <2> QED BY <2>1, <2>2
<1>7. CASE exit_boot_services
  <2>1. writer' \in BOOLEAN
    BY <1>7, ZenonT(60) DEF exit_boot_services
  <2>2. pc' \in PCs /\ tries' \in 0..MaxTries /\ calls' \in SUBSET (BootCalls \cup RuntimeCalls)
    BY <1>7 DEF exit_boot_services
  <2> QED BY <1>0, <1>7, <2>1, <2>2 DEF exit_boot_services
<1>8. CASE set_virtual_address_map
  <2>1. systemTable' \in {"null"} \cup Modes /\ addressing' \in Modes
    BY <1>0, <1>8 DEF set_virtual_address_map
  <2>2. pc' \in PCs /\ calls' \in SUBSET (BootCalls \cup RuntimeCalls)
    BY <1>0, <1>8 DEF set_virtual_address_map, Panic
  <2> QED BY <1>0, <1>8, <2>1, <2>2 DEF set_virtual_address_map
<1>9. CASE memory_map_alloc
  <2>1. ASSUME NEW b \in Bufs \ allocs, buf' = b, PoolStep(allocs \cup {b}),
               calls' = {"AllocatePool"}, pc' = "mm_get"
        PROVE  TypeOK'
    <3>1. key' \in Nat /\ len' \in Lens /\ allocs' = allocs \cup {b}
      BY <1>0, <2>1, PoolStepType
    <3> QED BY <1>0, <1>9, <2>1, <3>1 DEF memory_map_alloc
  <2>2. CASE AllocFails /\ pc' = "run"
    BY <1>0, <1>9, <2>2 DEF memory_map_alloc, AllocFails
  <2> QED BY <1>9, <2>1, <2>2, ZenonT(60) DEF memory_map_alloc, AllocBacking
<1>10. CASE memory_map_get
  <2>1. buf \in Bufs
    BY <1>0, <1>10 DEF memory_map_get, ControlInv
  <2>2. CASE PoolStep(allocs \ {buf}) /\ calls' = {"GetMemoryMap", "FreePool"}
             /\ buf' = NoBuf /\ pc' = "run" /\ UNCHANGED <<owned, snap>>
    <3>1. key' \in Nat /\ len' \in Lens /\ allocs' = allocs \ {buf}
      BY <1>0, <2>2, PoolStepType
    <3> QED BY <1>0, <1>10, <2>2, <3>1 DEF memory_map_get
  <2>3. CASE len <= cap /\ calls' = {"GetMemoryMap"} /\ snap' = Snapshot
             /\ owned' = owned \cup {[buf |-> buf, map |-> Snapshot, final |-> FALSE]}
             /\ buf' = NoBuf /\ pc' = "run" /\ UNCHANGED mapVars
    <3>1. [buf |-> buf, map |-> Snapshot, final |-> FALSE] \in Maps
      BY <2>1, <1>s DEF Maps
    <3> QED BY <1>0, <1>s, <1>10, <2>3, <3>1, ZenonT(60) DEF memory_map_get
  <2>4. CASE calls' = {"GetMemoryMap"} /\ Panic /\ UNCHANGED <<mapVars, owned, snap, buf>>
    BY <1>0, <1>10, <2>4 DEF memory_map_get, Panic
  <2> QED BY <1>10, <2>2, <2>3, <2>4 DEF memory_map_get
<1>11. CASE exit_backing_size
  <2>1. cap' \in Nat /\ pc' \in PCs /\ changes' \in Nat
        /\ calls' \in SUBSET (BootCalls \cup RuntimeCalls)
    BY <1>0, <1>11 DEF exit_backing_size, memory_map_size, safe_allocation_size_hint, Panic,
                       Lens
  <2>2. fault' \in BOOLEAN
    BY <1>11, ZenonT(60) DEF exit_backing_size
  <2> QED BY <1>0, <1>11, <2>1, <2>2 DEF exit_backing_size
<1>12. CASE exit_backing_alloc
  <2>1. ASSUME NEW b \in Bufs \ allocs, buf' = b, PoolStep(allocs \cup {b}),
               calls' = {"AllocatePool"}, pc' = "ebs_get"
        PROVE  TypeOK'
    <3>1. key' \in Nat /\ len' \in Lens /\ allocs' = allocs \cup {b}
      BY <1>0, <2>1, PoolStepType
    <3> QED BY <1>0, <1>12, <2>1, <3>1 DEF exit_backing_alloc
  <2>2. CASE AllocFails /\ Panic
    BY <1>0, <1>12, <2>2 DEF exit_backing_alloc, AllocFails, Panic
  <2> QED BY <1>12, <2>1, <2>2, ZenonT(60) DEF exit_backing_alloc, AllocBacking
<1>13. CASE exit_get_memory_map
  <2>1. tries < MaxTries
    BY <1>0, <1>13 DEF RetryInv, exit_get_memory_map
  <2>2. snap' \in Snapshots /\ fault' \in BOOLEAN
    BY <1>0, <1>13, <1>s, ZenonT(60) DEF exit_get_memory_map
  <2>3. tries' \in 0..MaxTries /\ pc' \in PCs
    BY <1>0, <1>13, <2>1 DEF exit_get_memory_map, RoundFails
  <2>4. calls' \in SUBSET (BootCalls \cup RuntimeCalls)
    BY <1>13, <1>l, ZenonT(60) DEF exit_get_memory_map, RoundFails
  <2> QED BY <1>0, <1>13, <2>2, <2>3, <2>4 DEF exit_get_memory_map
<1>14. CASE exit_call
  <2>1. tries < MaxTries /\ buf \in Bufs
    BY <1>0, <1>14 DEF RetryInv, ControlInv, exit_call
  <2>2. [buf |-> buf, map |-> snap, final |-> TRUE] \in Maps
    BY <1>0, <2>1 DEF Maps
  <2>3. owned' \in SUBSET Maps /\ buf' \in Bufs \cup {NoBuf}
    BY <1>0, <1>14, <2>2, ZenonT(60) DEF exit_call
  <2>4. bootServices' \in BOOLEAN /\ fault' \in BOOLEAN /\ exitCalled' \in BOOLEAN
    BY <1>0, <1>14, ZenonT(60) DEF exit_call
  <2>5. tries' \in 0..MaxTries /\ pc' \in PCs
    BY <1>0, <1>14, <2>1 DEF exit_call, RoundFails
  <2>6. calls' \in SUBSET (BootCalls \cup RuntimeCalls)
    BY <1>14, <1>l, ZenonT(60) DEF exit_call, RoundFails
  <2> QED BY <1>0, <1>14, <2>3, <2>4, <2>5, <2>6 DEF exit_call
<1>15. CASE exit_reset
  BY <1>0, <1>15, <1>l DEF exit_reset
<1>16. CASE panic_handler
  BY <1>0, <1>16, <1>l DEF panic_handler
<1>17. CASE MapChange
  BY <1>0, <1>17 DEF MapChange
<1>18. CASE UNCHANGED vars
  BY <1>0, <1>18 DEF vars
<1> QED
  BY <1>1, <1>2, <1>3, <1>4, <1>5, <1>6, <1>7, <1>8, <1>9, <1>10, <1>11, <1>12, <1>13,
     <1>14, <1>15, <1>16, <1>17, <1>18 DEF Next, Continue

\* Every step preserves ControlInv: each step of memory_map and
\* exit_boot_services finds the boot services it is going to use.
LEMMA NextControl == IInv /\ [Next]_vars => ControlInv'
<1> SUFFICES ASSUME IInv, [Next]_vars PROVE ControlInv'
  OBVIOUS
<1> USE DEF ControlInv, PoolHolders, are_boot_services_active, fwVars, mapVars, logVars,
        locals, historyVars
<1>0. ControlInv /\ owned \in SUBSET Maps /\ BackingMemoryExact
  BY DEF IInv, TypeOK
<1>a. pc \in {"mm_alloc", "ebs_alloc"} => \A m \in owned : m.buf \in allocs
  BY <1>0 DEF BackingMemoryExact
<1>1. CASE entry
  BY <1>0, <1>1 DEF entry
<1>2. CASE helpers_init
  BY <1>0, <1>2 DEF helpers_init, Panic
<1>3. CASE log_record
  BY <1>0, <1>3 DEF log_record
<1>4. CASE print
  BY <1>0, <1>4 DEF print
<1>5. CASE memory_map
  BY <1>0, <1>5 DEF memory_map, memory_map_size, Panic
<1>6. ASSUME NEW m \in owned, drop_memory_map(m) PROVE ControlInv'
  BY <1>0, <1>6 DEF drop_memory_map, PoolStep
<1>7. CASE exit_boot_services
  BY <1>0, <1>7 DEF exit_boot_services
<1>8. CASE set_virtual_address_map
  BY <1>0, <1>8 DEF set_virtual_address_map, Panic
<1>9. CASE memory_map_alloc
  BY <1>0, <1>a, <1>9 DEF memory_map_alloc, AllocBacking, AllocFails, PoolStep
<1>10. CASE memory_map_get
  BY <1>0, <1>10 DEF memory_map_get, PoolStep, Panic
<1>11. CASE exit_backing_size
  BY <1>0, <1>11 DEF exit_backing_size, memory_map_size, Panic
<1>12. CASE exit_backing_alloc
  BY <1>0, <1>a, <1>12 DEF exit_backing_alloc, AllocBacking, AllocFails, PoolStep, Panic
<1>13. CASE exit_get_memory_map
  BY <1>0, <1>13 DEF exit_get_memory_map, RoundFails
<1>14. CASE exit_call
  BY <1>0, <1>14, ZenonT(60) DEF exit_call, RoundFails
<1>15. CASE exit_reset
  BY <1>0, <1>15 DEF exit_reset
<1>16. CASE panic_handler
  BY <1>0, <1>16 DEF panic_handler
<1>17. CASE MapChange
  BY <1>0, <1>17 DEF MapChange
<1>18. CASE UNCHANGED vars
  BY <1>0, <1>18 DEF vars
<1> HIDE DEF ControlInv, PoolHolders, are_boot_services_active, fwVars, mapVars, logVars,
      locals, historyVars
<1> QED
  BY <1>1, <1>2, <1>3, <1>4, <1>5, <1>6, <1>7, <1>8, <1>9,
     <1>10, <1>11, <1>12, <1>13, <1>14, <1>15, <1>16, <1>17, <1>18, ZenonT(60) DEF Next, Continue

\* Every step preserves SnapInv: whatever changes the memory map after
\* exit_boot_services has read it also changes the key.
LEMMA NextSnap == IInv /\ [Next]_vars => SnapInv'
<1> SUFFICES ASSUME IInv, [Next]_vars PROVE SnapInv'
  OBVIOUS
<1> USE DEF SnapInv, Snapshot, fwVars, mapVars, logVars, locals, historyVars
<1>0. SnapInv /\ key \in Nat /\ snap \in Snapshots
      /\ (pc = "ebs_get" => buf \in allocs)
  BY DEF IInv, TypeOK, BackingMemoryExact, ControlInv, PoolHolders, are_boot_services_active
<1> USE DEF Snapshots
<1>1. CASE entry
  BY <1>0, <1>1 DEF entry
<1>2. CASE helpers_init
  BY <1>0, <1>2 DEF helpers_init, Panic
<1>3. CASE log_record
  BY <1>0, <1>3 DEF log_record
<1>4. CASE print
  BY <1>0, <1>4 DEF print
<1>5. CASE memory_map
  BY <1>0, <1>5 DEF memory_map, memory_map_size, Panic
<1>6. ASSUME NEW m \in owned, drop_memory_map(m) PROVE SnapInv'
  BY <1>0, <1>6 DEF drop_memory_map, PoolStep
<1>7. CASE exit_boot_services
  BY <1>0, <1>7 DEF exit_boot_services
<1>8. CASE set_virtual_address_map
  BY <1>0, <1>8 DEF set_virtual_address_map, Panic
<1>9. CASE memory_map_alloc
  BY <1>0, <1>9 DEF memory_map_alloc, AllocBacking, AllocFails, PoolStep
<1>10. CASE memory_map_get
  BY <1>0, <1>10, SMTT(60) DEF memory_map_get, PoolStep, Panic
<1>11. CASE exit_backing_size
  BY <1>0, <1>11 DEF exit_backing_size, memory_map_size, Panic
<1>12. CASE exit_backing_alloc
  BY <1>0, <1>12 DEF exit_backing_alloc, AllocBacking, AllocFails, PoolStep, Panic
<1>13. CASE exit_get_memory_map
  BY <1>0, <1>13 DEF exit_get_memory_map, RoundFails
<1>14. CASE exit_call
  BY <1>0, <1>14 DEF exit_call, RoundFails
<1>15. CASE exit_reset
  BY <1>0, <1>15 DEF exit_reset
<1>16. CASE panic_handler
  BY <1>0, <1>16 DEF panic_handler
<1>17. CASE MapChange
  BY <1>0, <1>17 DEF MapChange
<1>18. CASE UNCHANGED vars
  BY <1>0, <1>18, SMTT(60) DEF vars
<1> HIDE DEF SnapInv, Snapshot, fwVars, mapVars, logVars, locals, historyVars, Snapshots
<1> QED
  BY <1>1, <1>2, <1>3, <1>4, <1>5, <1>6, <1>7, <1>8, <1>9,
     <1>10, <1>11, <1>12, <1>13, <1>14, <1>15, <1>16, <1>17, <1>18, ZenonT(60) DEF Next, Continue

\* Every step preserves RetryInv: a failed round of the loop is paid for by a
\* change of the memory map.
LEMMA NextRetry == IInv /\ [Next]_vars => RetryInv'
<1> SUFFICES ASSUME IInv, [Next]_vars PROVE RetryInv'
  OBVIOUS
<1> USE DEF RetryInv, Snapshot, fwVars, mapVars, logVars, locals, historyVars
<1>0. RetryInv /\ tries \in 0..MaxTries /\ changes \in Nat /\ len \in Nat /\ cap \in Nat /\ Assumptions
      /\ key \in Nat /\ fault \in BOOLEAN /\ snap \in Snapshots
  BY Constants DEF IInv, TypeOK, Lens, Assumptions
<1> USE DEF Snapshots
<1>1. CASE entry
  BY <1>0, <1>1 DEF entry
<1>2. CASE helpers_init
  BY <1>0, <1>2 DEF helpers_init, Panic
<1>3. CASE log_record
  BY <1>0, <1>3 DEF log_record
<1>4. CASE print
  BY <1>0, <1>4 DEF print
<1>5. CASE memory_map
  BY <1>0, <1>5 DEF memory_map, memory_map_size, Panic
<1>6. ASSUME NEW m \in owned, drop_memory_map(m) PROVE RetryInv'
  BY <1>0, <1>6 DEF drop_memory_map, PoolStep
<1>7. CASE exit_boot_services
  BY <1>0, <1>7 DEF exit_boot_services
<1>8. CASE set_virtual_address_map
  BY <1>0, <1>8 DEF set_virtual_address_map, Panic
<1>9. CASE memory_map_alloc
  BY <1>0, <1>9 DEF memory_map_alloc, AllocBacking, AllocFails, PoolStep
<1>10. CASE memory_map_get
  BY <1>0, <1>10 DEF memory_map_get, PoolStep, Panic
<1>11. CASE exit_backing_size
  BY <1>0, <1>11 DEF exit_backing_size, memory_map_size, Panic
<1>12. CASE exit_backing_alloc
  <2>1. CASE pc' = "ebs_get" /\ len' \in Lens /\ len' <= len + AllocGrowth
    <3>1. tries' = 0 /\ changes' = changes /\ cap' = cap
      BY <1>0, <1>12 DEF exit_backing_alloc
    <3>2. changes = 0 => len' <= cap
      <4>1. changes = 0 => cap = len + EXTRA_ENTRIES
        BY <1>0, <1>12 DEF exit_backing_alloc, safe_allocation_size_hint
      <4> QED BY <1>0, <2>1, <4>1 DEF Assumptions, Lens
    <3> QED BY <1>0, <2>1, <3>1, <3>2
  <2>2. CASE pc' = "panic"
    BY <2>2
  <2> QED BY <1>12, <2>1, <2>2, ZenonT(60) DEF exit_backing_alloc, AllocBacking, PoolStep, Panic
<1>13. CASE exit_get_memory_map
  BY <1>0, <1>13 DEF exit_get_memory_map, RoundFails
<1>14. CASE exit_call
  BY <1>0, <1>14 DEF exit_call, RoundFails
<1>15. CASE exit_reset
  BY <1>0, <1>15 DEF exit_reset
<1>16. CASE panic_handler
  BY <1>0, <1>16 DEF panic_handler
<1>17. CASE MapChange
  BY <1>0, <1>17 DEF MapChange
<1>18. CASE UNCHANGED vars
  BY <1>0, <1>18, SMTT(60) DEF vars
<1> HIDE DEF RetryInv, Snapshot, fwVars, mapVars, logVars, locals, historyVars, Snapshots
<1> QED
  BY <1>1, <1>2, <1>3, <1>4, <1>5, <1>6, <1>7, <1>8, <1>9,
     <1>10, <1>11, <1>12, <1>13, <1>14, <1>15, <1>16, <1>17, <1>18, ZenonT(60) DEF Next, Continue

\* Every step preserves BackingMemoryExact.
LEMMA NextBacking == IInv /\ [Next]_vars => BackingMemoryExact'
<1> SUFFICES ASSUME IInv, [Next]_vars PROVE BackingMemoryExact'
  OBVIOUS
<1> USE DEF BackingMemoryExact, PoolHolders, fwVars, mapVars, logVars, locals, historyVars
<1>0. BackingMemoryExact /\ ControlInv /\ owned \in SUBSET Maps /\ allocs \in SUBSET Bufs
      /\ exitCalled \in BOOLEAN /\ bootServices \in BOOLEAN
  BY DEF IInv, TypeOK
<1> USE DEF Maps, ControlInv, are_boot_services_active
<1>1. CASE entry
  BY <1>0, <1>1 DEF entry
<1>2. CASE helpers_init
  BY <1>0, <1>2 DEF helpers_init, Panic
<1>3. CASE log_record
  BY <1>0, <1>3 DEF log_record
<1>4. CASE print
  BY <1>0, <1>4 DEF print
<1>5. CASE memory_map
  BY <1>0, <1>5 DEF memory_map, memory_map_size, Panic
<1>6. ASSUME NEW m \in owned, drop_memory_map(m) PROVE BackingMemoryExact'
  <2>1. are_boot_services_active \/ ~bootServices
    BY <1>0, <1>6
  <2>2. \A x \in owned : x.buf = m.buf => x = m
    BY <1>0, <1>6
  <2>3. pc = "run" /\ pc' = pc /\ owned' = owned \ {m} /\ bootServices' = bootServices
    BY <1>6 DEF drop_memory_map
  <2>4. CASE bootServices
    <3>1. allocs' = allocs \ {m.buf}
      BY <1>6, <2>1, <2>4 DEF drop_memory_map, PoolStep
    <3>2. allocs = {x.buf : x \in owned}
      BY <1>0, <2>3, <2>4
    <3>3. allocs' = {x.buf : x \in owned'}
      BY <2>2, <2>3, <3>1, <3>2
    <3> QED BY <1>0, <2>3, <3>3
  <2>5. CASE ~bootServices
    BY <1>0, <2>3, <2>5
  <2> QED BY <2>4, <2>5
<1>7. CASE exit_boot_services
  BY <1>0, <1>7 DEF exit_boot_services
<1>8. CASE set_virtual_address_map
  BY <1>0, <1>8 DEF set_virtual_address_map, Panic
<1>9. CASE memory_map_alloc
  BY <1>0, <1>9, SMTT(60) DEF memory_map_alloc, AllocBacking, AllocFails, PoolStep
<1>10. CASE memory_map_get
  <2>1. pc = "mm_get" /\ bootServices /\ allocs = {x.buf : x \in owned} \cup {buf}
        /\ bootServices' = bootServices /\ \A x \in owned : x.buf # buf
    BY <1>0, <1>10 DEF memory_map_get
  <2>2. CASE owned' = owned \cup {[buf |-> buf, map |-> Snapshot, final |-> FALSE]}
             /\ pc' = "run" /\ UNCHANGED mapVars
    <3> DEFINE r == [buf |-> buf, map |-> Snapshot, final |-> FALSE]
    <3>1. r.buf = buf /\ owned' = owned \cup {r}
      BY <2>2
    <3> HIDE DEF r
    <3>2. {x.buf : x \in owned'} = {x.buf : x \in owned} \cup {buf}
      BY <3>1
    <3>3. \A x, y \in owned' : x.buf = y.buf => x = y
      BY <1>0, <2>1, <3>1
    <3> QED BY <2>1, <2>2, <3>2, <3>3
  <2>3. CASE Panic /\ UNCHANGED <<mapVars, owned, snap, buf>>
    BY <1>0, <2>3 DEF Panic
  <2>4. CASE PoolStep(allocs \ {buf}) /\ pc' = "run" /\ UNCHANGED <<owned, snap>>
    BY <1>0, <2>1, <2>4 DEF PoolStep
  <2> QED BY <1>10, <2>2, <2>3, <2>4 DEF memory_map_get
<1>11. CASE exit_backing_size
  BY <1>0, <1>11 DEF exit_backing_size, memory_map_size, Panic
<1>12. CASE exit_backing_alloc
  BY <1>0, <1>12 DEF exit_backing_alloc, AllocBacking, AllocFails, PoolStep, Panic
<1>13. CASE exit_get_memory_map
  BY <1>0, <1>13, SMTT(60) DEF exit_get_memory_map, RoundFails
<1>14. CASE exit_call
  <2>1. pc = "ebs_exit" /\ \A x \in owned : x.buf # buf
    BY <1>0, <1>14 DEF exit_call
  <2>2. CASE owned' = owned \cup {[buf |-> buf, map |-> snap, final |-> TRUE]}
             /\ bootServices' = FALSE
    <3> DEFINE r == [buf |-> buf, map |-> snap, final |-> TRUE]
    <3>1. r.buf = buf /\ owned' = owned \cup {r}
      BY <2>2
    <3> HIDE DEF r
    <3>2. \A x, y \in owned' : x.buf = y.buf => x = y
      BY <1>0, <2>1, <3>1
    <3> QED BY <2>2, <3>2
  <2>3. CASE RoundFails("ExitBootServices") /\ UNCHANGED <<bootServices, owned, buf>>
    BY <1>0, <1>14, <2>1, <2>3 DEF exit_call, RoundFails
  <2> QED BY <1>14, <2>2, <2>3, ZenonT(60) DEF exit_call
<1>15. CASE exit_reset
  BY <1>0, <1>15 DEF exit_reset
<1>16. CASE panic_handler
  BY <1>0, <1>16 DEF panic_handler
<1>17. CASE MapChange
  BY <1>0, <1>17 DEF MapChange
<1>18. CASE UNCHANGED vars
  BY <1>0, <1>18, SMTT(60) DEF vars
<1> HIDE DEF BackingMemoryExact, PoolHolders, fwVars, mapVars, logVars, locals, historyVars,
      Maps, ControlInv, are_boot_services_active
<1> QED
  BY <1>1, <1>2, <1>3, <1>4, <1>5, <1>6, <1>7, <1>8, <1>9,
     <1>10, <1>11, <1>12, <1>13, <1>14, <1>15, <1>16, <1>17, <1>18, ZenonT(60) DEF Next, Continue

\* Every step preserves FinalMapExact: nothing moves the memory map once
\* exit_boot_services has returned it.
LEMMA NextFinal == IInv /\ [Next]_vars => FinalMapExact'
<1> SUFFICES ASSUME IInv, [Next]_vars PROVE FinalMapExact'
  OBVIOUS
<1> USE DEF FinalMapExact, Snapshot, fwVars, mapVars, logVars, locals, historyVars
<1>0. FinalMapExact /\ ControlInv /\ SnapInv /\ owned \in SUBSET Maps
  BY SMTT(60) DEF IInv, TypeOK
<1> USE DEF ControlInv, PoolHolders, SnapInv, are_boot_services_active
<1>1. CASE entry
  BY <1>0, <1>1, SMTT(60) DEF entry
<1>2. CASE helpers_init
  BY <1>0, <1>2, SMTT(60) DEF helpers_init, Panic
<1>3. CASE log_record
  BY <1>0, <1>3, SMTT(60) DEF log_record
<1>4. CASE print
  BY <1>0, <1>4, SMTT(60) DEF print
<1>5. CASE memory_map
  BY <1>0, <1>5, SMTT(30) DEF memory_map, memory_map_size, Panic
<1>6. ASSUME NEW m \in owned, drop_memory_map(m) PROVE FinalMapExact'
  BY <1>0, <1>6 DEF drop_memory_map, PoolStep
<1>7. CASE exit_boot_services
  BY <1>0, <1>7 DEF exit_boot_services
<1>8. CASE set_virtual_address_map
  BY <1>0, <1>8 DEF set_virtual_address_map, Panic
<1>9. CASE memory_map_alloc
  BY <1>0, <1>9, SMTT(30) DEF memory_map_alloc, AllocBacking, AllocFails, PoolStep
<1>10. CASE memory_map_get
  BY <1>0, <1>10, SMTT(30) DEF memory_map_get, PoolStep, Panic
<1>11. CASE exit_backing_size
  BY <1>0, <1>11, SMTT(30) DEF exit_backing_size, memory_map_size, Panic
<1>12. CASE exit_backing_alloc
  BY <1>0, <1>12, SMTT(60) DEF exit_backing_alloc, AllocBacking, AllocFails, PoolStep, Panic
<1>13. CASE exit_get_memory_map
  BY <1>0, <1>13 DEF exit_get_memory_map, RoundFails
<1>14. CASE exit_call
  <2>1. pc = "ebs_exit" /\ bootServices /\ \A x \in owned : ~x.final
    BY <1>0, <1>14 DEF exit_call
  <2>2. CASE snap.key = key /\ bootServices' = FALSE
             /\ owned' = owned \cup {[buf |-> buf, map |-> snap, final |-> TRUE]}
    <3>1. snap = Snapshot' /\ buf \in snap.allocs
      BY <1>0, <1>14, <2>1, <2>2, SMTT(30) DEF exit_call
    <3> QED BY <2>1, <2>2, <3>1, SMTT(30)
  <2>3. CASE RoundFails("ExitBootServices") /\ UNCHANGED <<bootServices, owned, buf>>
    BY <2>1, <2>3, SMTT(30)
  <2> QED BY <1>14, <2>2, <2>3, ZenonT(60) DEF exit_call
<1>15. CASE exit_reset
  BY <1>0, <1>15, SMTT(30) DEF exit_reset
<1>16. CASE panic_handler
  BY <1>0, <1>16, SMTT(30) DEF panic_handler
<1>17. CASE MapChange
  BY <1>0, <1>17, SMTT(30) DEF MapChange
<1>18. CASE UNCHANGED vars
  BY <1>0, <1>18 DEF vars
<1> HIDE DEF FinalMapExact, Snapshot, fwVars, mapVars, logVars, locals, historyVars,
      ControlInv, PoolHolders, SnapInv, are_boot_services_active
<1> QED
  BY <1>1, <1>2, <1>3, <1>4, <1>5, <1>6, <1>7, <1>8, <1>9,
     <1>10, <1>11, <1>12, <1>13, <1>14, <1>15, <1>16, <1>17, <1>18, ZenonT(60) DEF Next, Continue

\* Every step preserves TableMatchesMode.
LEMMA NextTable == IInv /\ [Next]_vars => TableMatchesMode'
<1> SUFFICES ASSUME IInv, [Next]_vars PROVE TableMatchesMode'
  OBVIOUS
<1> USE DEF TableMatchesMode, fwVars, mapVars, logVars, locals, historyVars
<1>0. TableMatchesMode /\ ControlInv /\ addressing \in Modes
  BY DEF IInv, TypeOK
<1> USE DEF ControlInv
<1>1. CASE entry
  BY <1>0, <1>1 DEF entry
<1>2. CASE helpers_init
  BY <1>0, <1>2 DEF helpers_init, Panic
<1>3. CASE log_record
  BY <1>0, <1>3 DEF log_record
<1>4. CASE print
  BY <1>0, <1>4 DEF print
<1>5. CASE memory_map
  BY <1>0, <1>5 DEF memory_map, memory_map_size, Panic
<1>6. ASSUME NEW m \in owned, drop_memory_map(m) PROVE TableMatchesMode'
  BY <1>0, <1>6 DEF drop_memory_map, PoolStep
<1>7. CASE exit_boot_services
  BY <1>0, <1>7 DEF exit_boot_services
<1>8. CASE set_virtual_address_map
  BY <1>0, <1>8 DEF set_virtual_address_map, Panic
<1>9. CASE memory_map_alloc
  BY <1>0, <1>9 DEF memory_map_alloc, AllocBacking, AllocFails, PoolStep
<1>10. CASE memory_map_get
  BY <1>0, <1>10 DEF memory_map_get, PoolStep, Panic
<1>11. CASE exit_backing_size
  BY <1>0, <1>11 DEF exit_backing_size, memory_map_size, Panic
<1>12. CASE exit_backing_alloc
  BY <1>0, <1>12 DEF exit_backing_alloc, AllocBacking, AllocFails, PoolStep, Panic
<1>13. CASE exit_get_memory_map
  BY <1>0, <1>13 DEF exit_get_memory_map, RoundFails
<1>14. CASE exit_call
  BY <1>0, <1>14 DEF exit_call, RoundFails
<1>15. CASE exit_reset
  BY <1>0, <1>15 DEF exit_reset
<1>16. CASE panic_handler
  BY <1>0, <1>16 DEF panic_handler
<1>17. CASE MapChange
  BY <1>0, <1>17, SMTT(30) DEF MapChange
<1>18. CASE UNCHANGED vars
  BY <1>0, <1>18 DEF vars
<1> HIDE DEF TableMatchesMode, fwVars, mapVars, logVars, locals, historyVars, ControlInv
<1> QED
  BY <1>1, <1>2, <1>3, <1>4, <1>5, <1>6, <1>7, <1>8, <1>9,
     <1>10, <1>11, <1>12, <1>13, <1>14, <1>15, <1>16, <1>17, <1>18, ZenonT(60) DEF Next, Continue

-----------------------------------------------------------------------------
\* IInv is inductive: it holds in every reachable state of the program.
THEOREM Invariance == Spec => []IInv
<1>1. IInv /\ [Next]_vars => IInv'
  BY NextType, NextControl, NextSnap, NextRetry, NextBacking, NextFinal, NextTable DEF IInv
<1> QED BY InitIInv, <1>1, PTL DEF Spec

\* Type correctness of the life-cycle model.
THEOREM TypeCorrect == Spec => []TypeOK
<1>1. IInv => TypeOK
  BY DEF IInv
<1> QED BY Invariance, <1>1, PTL

\* MemoryMapBackingMemory neither leaks nor double-frees a buffer.
THEOREM BackingMemoryCorrect == Spec => []BackingMemoryExact
<1>1. IInv => BackingMemoryExact
  BY DEF IInv
<1> QED BY Invariance, <1>1, PTL

\* The map returned by exit_boot_services is the firmware's last one and
\* reports its own buffer.
THEOREM FinalMapCorrect == Spec => []FinalMapExact
<1>1. IInv => FinalMapExact
  BY DEF IInv
<1> QED BY Invariance, <1>1, PTL

\* SYSTEM_TABLE follows the addressing mode of the firmware.
THEOREM TableCorrect == Spec => []TableMatchesMode
<1>1. IInv => TableMatchesMode
  BY DEF IInv
<1> QED BY Invariance, <1>1, PTL

\* No step enters a boot service that is gone: dropping a map, logging and
\* the panic handler all ask first, and the steps of a call under way cannot
\* lose the boot services they rely on.
THEOREM NoDeadServiceCorrect == Spec => NoDeadService
<1>1. IInv /\ [Next]_vars => [calls' \cap BootCalls # {} => bootServices]_vars
  <2> SUFFICES ASSUME IInv, [Next]_vars, calls' \cap BootCalls # {}, vars' # vars
               PROVE  bootServices
    BY DEF vars
  <2>0. ControlInv
    BY DEF IInv
  <2>1. writer => bootServices
    BY <2>0 DEF ControlInv
  <2>2. log \cap BootCalls # {} => bootServices
    BY <2>1 DEF log, BootCalls
  <2> USE DEF ControlInv, PoolHolders, are_boot_services_active, BootCalls
  <2>3. ASSUME NEW m \in owned, drop_memory_map(m) PROVE bootServices
    BY <2>2, <2>3 DEF drop_memory_map
  <2>4. CASE panic_handler
    BY <2>2, <2>4 DEF panic_handler
  <2>5. CASE print \/ log_record
    BY <2>2, <2>5, SMTT(30) DEF print, log_record
  <2>6. CASE set_virtual_address_map \/ entry \/ helpers_init \/ exit_boot_services \/ MapChange
    BY <2>6 DEF set_virtual_address_map, entry, helpers_init, exit_boot_services, MapChange
  <2>7. CASE memory_map \/ exit_backing_size
    BY <2>7, SMTT(60) DEF memory_map, exit_backing_size, memory_map_size
  <2>8. CASE memory_map_alloc \/ memory_map_get \/ exit_backing_alloc
             \/ exit_get_memory_map \/ exit_call \/ exit_reset
    BY <2>0, <2>8 DEF memory_map_alloc, memory_map_get, exit_backing_alloc,
                      exit_get_memory_map, exit_call, exit_reset
  <2> QED BY <2>3, <2>4, <2>5, <2>6, <2>7, <2>8, SMTT(30) DEF Next, Continue
<1> QED BY Invariance, <1>1, PTL DEF Spec, NoDeadService

\* Once the firmware's ExitBootServices has been called, the crate uses no
\* boot service but the two the retry needs.
THEOREM ExitRestrictionCorrect == Spec => ExitRestriction
<1> DEFINE Allowed == {"GetMemoryMap", "ExitBootServices"}
<1>1. IInv /\ [Next]_vars => [exitCalled => calls' \cap BootCalls \subseteq Allowed]_vars
  <2> SUFFICES ASSUME IInv, [Next]_vars, exitCalled, vars' # vars
               PROVE  calls' \cap BootCalls \subseteq Allowed
    BY DEF vars
  <2>0. ControlInv
    BY DEF IInv
  <2>1. log = {}
    BY <2>0 DEF ControlInv, log
  <2>2. ~are_boot_services_active \/ pc \in {"ebs_get", "ebs_exit", "ebs_reset", "off"}
    BY <2>0 DEF ControlInv, are_boot_services_active
  <2> USE DEF BootCalls
  <2>3. ASSUME NEW m \in owned, drop_memory_map(m) PROVE calls' = {}
    BY <2>1, <2>2, <2>3 DEF drop_memory_map
  <2>4. CASE panic_handler
    BY <2>1, <2>2, <2>4 DEF panic_handler
  <2>5. CASE print \/ log_record
    <3>1. print => ~are_boot_services_active
      BY Zenon DEF print, are_boot_services_active
    <3> QED BY <2>1, <2>5, <3>1 DEF print, log_record
  <2>6. CASE set_virtual_address_map \/ entry \/ helpers_init \/ exit_boot_services \/ MapChange
    BY <2>6, ZenonT(60) DEF set_virtual_address_map, entry, helpers_init, exit_boot_services, MapChange
  <2>7. CASE memory_map \/ exit_backing_size
    BY <2>2, <2>7, SMTT(30) DEF memory_map, exit_backing_size, memory_map_size
  <2>8. ~memory_map_alloc /\ ~memory_map_get /\ ~exit_backing_alloc
    BY <2>0, <2>2, SMTT(30) DEF ControlInv, PoolHolders, memory_map_alloc, memory_map_get,
                      exit_backing_alloc
  <2>9. CASE exit_get_memory_map \/ exit_call \/ exit_reset
    BY <2>1, <2>9 DEF exit_get_memory_map, exit_call, exit_reset, RoundFails
  <2> QED BY <2>3, <2>4, <2>5, <2>6, <2>7, <2>8, <2>9, SMTT(30) DEF Next, Continue
<1> QED BY Invariance, <1>1, PTL DEF Spec, ExitRestriction

\* At every step the crate enters only boot services it may enter then: the
\* two results above, about the same steps.
THEOREM OnlyAllowedCallsCorrect == Spec => OnlyAllowedCalls
<1> DEFINE Alive == calls' \cap BootCalls # {} => bootServices
           Restricted == exitCalled => calls' \cap BootCalls \subseteq {"GetMemoryMap", "ExitBootServices"}
<1>1. [Alive]_vars /\ [Restricted]_vars => [Alive /\ Restricted]_vars
  OBVIOUS
<1> QED BY NoDeadServiceCorrect, ExitRestrictionCorrect, <1>1, PTL
        DEF NoDeadService, ExitRestriction, OnlyAllowedCalls

\* exit_boot_services never resets the machine because of a single change of
\* the memory map that its buffer can hold.
THEOREM OneRetryCorrect == Spec => OneRetryTolerated
<1>1. IInv /\ [Next]_vars =>
        [pc' = "ebs_reset" /\ pc # "ebs_reset"
             => fault' \/ changes >= 2 \/ (changes >= 1 /\ len > cap)]_vars
  <2> SUFFICES ASSUME IInv, [Next]_vars, pc' = "ebs_reset", pc # "ebs_reset", ~fault',
                      vars' # vars
               PROVE  changes >= 2 \/ (changes >= 1 /\ len > cap)
    BY DEF vars
  <2>0. RetryInv /\ tries \in 0..MaxTries /\ changes \in Nat /\ len \in Nat /\ cap \in Nat
    BY DEF IInv, TypeOK, Lens
  <2>1. CASE exit_get_memory_map
    BY <2>0, <2>1, SMTT(30) DEF RetryInv, exit_get_memory_map, RoundFails
  <2>2. CASE exit_call
    BY <2>0, <2>2 DEF RetryInv, exit_call, RoundFails
  <2>3. ASSUME NEW m \in owned, drop_memory_map(m) PROVE FALSE
    BY <2>3, SMTT(30) DEF drop_memory_map
  <2>4. CASE entry \/ helpers_init \/ log_record \/ print \/ exit_boot_services
             \/ set_virtual_address_map \/ MapChange
    BY <2>4, SMTT(60) DEF entry, helpers_init, log_record, print, exit_boot_services,
                set_virtual_address_map, MapChange, Panic
  <2>5. CASE memory_map \/ exit_backing_size \/ memory_map_alloc \/ memory_map_get
             \/ exit_backing_alloc \/ exit_reset \/ panic_handler
    BY <2>5 DEF memory_map, exit_backing_size, memory_map_size, memory_map_alloc,
                memory_map_get, exit_backing_alloc, AllocBacking, AllocFails, exit_reset,
                panic_handler, Panic
  <2> QED BY <2>1, <2>2, <2>3, <2>4, <2>5, SMTT(30) DEF Next, Continue
<1> QED BY Invariance, <1>1, PTL DEF Spec, OneRetryTolerated
=============================================================================
