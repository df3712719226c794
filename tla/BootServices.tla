---------------------------- MODULE BootServices ----------------------------
(***************************************************************************)
(* The life cycle of the boot services as the uefi crate sees it: the      *)
(* global system table pointer (table/mod.rs), the logger that writes to   *)
(* the firmware's stdout (helpers/logger.rs), the memory maps the          *)
(* application owns (mem/memory_map/impl_.rs) and the hand-over of the     *)
(* machine in exit_boot_services (boot.rs).                                *)
(*                                                                         *)
(* The application is one thread of control, pc.  The firmware, and the    *)
(* event notification functions it dispatches, run between any two of its  *)
(* steps: they allocate and free memory, which changes the memory map and  *)
(* its key, and they log.  A memory descriptor is one unit of length: the  *)
(* code measures the map in bytes, always in multiples of desc_size.       *)
(***************************************************************************)
EXTENDS Integers

CONSTANTS
    Bufs,           \* pool allocations that can back a memory map
    EXTRA_ENTRIES,  \* impl_.rs:324, descriptors of slack in a map buffer (8)
    AllocGrowth,    \* firmware: descriptors one pool operation can add
    MaxLen,         \* bound: descriptors in the firmware's memory map
    MaxKey          \* bound: map key at which the environment stops changing it

ASSUME ExtraEntriesAssumption == EXTRA_ENTRIES \in Nat
ASSUME AllocGrowthAssumption == AllocGrowth \in Nat
\* The slack is meant to outlast (small) allocations, the buffer's own first.
ASSUME SlackAssumption == AllocGrowth <= EXTRA_ENTRIES
ASSUME MaxLenAssumption == MaxLen \in Nat \ {0}
ASSUME MaxKeyAssumption == MaxKey \in Nat

VARIABLES
    systemTable,   \* SYSTEM_TABLE: "null", or the addressing mode it is valid in
    addressing,    \* firmware: current addressing mode of the runtime services
    bootServices,  \* st.boot_services is not null
    exitCalled,    \* firmware: ExitBootServices has been called at least once
    loggerSet,     \* log::set_logger has succeeded
    writer,        \* LOGGER.writer is not null
    key, len,      \* firmware: key and number of descriptors of the memory map
    allocs,        \* firmware: the backing buffers that are allocated now
    owned,         \* the MemoryMapOwned values the application holds
    buf,           \* the MemoryMapBackingMemory being filled: its allocation
    cap,           \* ... and its length; before the allocation, the size asked
    snap,          \* the map last read into the buffer
    tries,         \* completed rounds of the loop in exit_boot_services
    pc,            \* where the application is
    calls,         \* history: the firmware services entered by the last step
    fault,         \* history: firmware refused a call of the exit loop for no
                   \* reason the loop can know
    changes        \* history: changes of the map, apart from the allocation of
                   \* the buffer, since exit_boot_services asked for its size

vars == <<systemTable, addressing, bootServices, exitCalled, loggerSet, writer,
          key, len, allocs, owned, buf, cap, snap, tries, pc, calls, fault, changes>>

fwVars == <<addressing, bootServices, exitCalled>>
mapVars == <<key, len, allocs>>
logVars == <<loggerSet, writer>>
locals == <<buf, cap, snap, tries>>
historyVars == <<fault, changes>>

Modes == {"physical", "virtual"}
Lens == 1..MaxLen
Snapshots == [key: Nat, len: Nat, allocs: SUBSET Bufs]
\* final: the map exit_boot_services returned
Maps == [buf: Bufs, map: Snapshots, final: BOOLEAN]

BootCalls == {"AllocatePool", "FreePool", "GetMemoryMap", "ExitBootServices",
              "Stall", "OutputString"}
RuntimeCalls == {"ResetSystem", "SetVirtualAddressMap"}
PoolHolders == {"mm_get", "ebs_get", "ebs_exit", "ebs_reset"}
PCs == {"run", "mm_alloc", "ebs_size", "ebs_alloc", "panic", "off"} \cup PoolHolders

NoBuf == "none"

\* for _ in 0..2
MaxTries == 2

(***************************************************************************)
(* Helpers.                                                                *)
(***************************************************************************)
are_boot_services_active == systemTable # "null" /\ bootServices

\* What a call of the log crate's macros does to the firmware.
log == IF writer THEN {"OutputString"} ELSE {}

\* Mutant: the slack is forgotten.
safe_allocation_size_hint_exact(n) == n

safe_allocation_size_hint(n) == n + EXTRA_ENTRIES

\* Firmware: a pool operation leaves a new map behind.
PoolStep(newAllocs) ==
    /\ key' = key + 1
    /\ len' \in {n \in Lens : n <= len + AllocGrowth}
    /\ allocs' = newAllocs

Panic == pc' = "panic"

(***************************************************************************)
(* Start of the program and helpers.                                       *)
(***************************************************************************)
\* The code #[entry] puts at the start of efi_main: set_image_handle and
\* set_system_table.  Both globals are set together from here on.
entry ==
    /\ pc = "run"
    /\ systemTable = "null"
    /\ systemTable' = "physical"
    /\ calls' = {}
    /\ UNCHANGED <<fwVars, logVars, mapVars, owned, locals, pc, historyVars>>

\* with_stdout panics unless the boot services are active; set_logger's
\* result is unwrapped after the writer is connected.
helpers_init ==
    /\ pc = "run"
    /\ calls' = {}
    /\ IF are_boot_services_active
       THEN /\ writer' = TRUE
            /\ loggerSet' = TRUE
            /\ IF loggerSet THEN Panic ELSE UNCHANGED pc
       ELSE Panic /\ UNCHANGED logVars
    /\ UNCHANGED <<systemTable, fwVars, mapVars, owned, locals, historyVars>>

\* A log macro, in the application or in an event notification function.
log_record ==
    /\ pc # "off"
    /\ calls' = log
    /\ UNCHANGED <<systemTable, fwVars, logVars, mapVars, owned, locals, pc, historyVars>>

\* print! and println!, in the application or in an event notification
\* function.  One that prints between the first call of ExitBootServices and
\* its success breaks the rule quoted at boot.rs:1286 itself.
print ==
    /\ pc # "off"
    /\ exitCalled => ~bootServices
    /\ calls' = IF are_boot_services_active THEN {"OutputString"} ELSE log
    /\ UNCHANGED <<systemTable, fwVars, logVars, mapVars, owned, locals, pc, historyVars>>

(***************************************************************************)
(* boot::memory_map.  MemoryMapBackingMemory::new asks for the size and    *)
(* allocates, then the map is read; the environment may run in between.    *)
(***************************************************************************)
\* memory_map_size, called by MemoryMapBackingMemory::new; it asserts that the
\* firmware answers BUFFER_TOO_SMALL.
memory_map_size(next) ==
    IF are_boot_services_active
    THEN /\ calls' = {"GetMemoryMap"}
         /\ \/ cap' = safe_allocation_size_hint(len) /\ pc' = next
            \/ Panic /\ UNCHANGED cap
    ELSE /\ calls' = {}
         /\ Panic
         /\ UNCHANGED cap

memory_map ==
    /\ pc = "run"
    /\ key < MaxKey
    /\ memory_map_size("mm_alloc")
    /\ UNCHANGED <<systemTable, fwVars, logVars, mapVars, owned, buf, snap, tries,
                   historyVars>>

\* The rest of MemoryMapBackingMemory::new: allocate_pool succeeds ...
AllocBacking(next) ==
    /\ calls' = {"AllocatePool"}
    /\ \E b \in Bufs \ allocs : buf' = b /\ PoolStep(allocs \cup {b})
    /\ pc' = next

\* ... or returns an error.
AllocFails ==
    /\ calls' = {"AllocatePool"}
    /\ UNCHANGED <<mapVars, buf>>

memory_map_alloc ==
    /\ pc = "mm_alloc"
    /\ \/ AllocBacking("mm_get")
       \/ AllocFails /\ pc' = "run"
    /\ UNCHANGED <<systemTable, fwVars, logVars, owned, cap, snap, tries, historyVars>>

Snapshot == [key |-> key, len |-> len, allocs |-> allocs]

\* get_memory_map: BUFFER_TOO_SMALL panics, any other error frees the buffer
\* on the way out.
memory_map_get ==
    /\ pc = "mm_get"
    /\ \/ /\ len <= cap
          /\ calls' = {"GetMemoryMap"}
          /\ snap' = Snapshot
          /\ owned' = owned \cup {[buf |-> buf, map |-> Snapshot, final |-> FALSE]}
          /\ buf' = NoBuf
          /\ pc' = "run"
          /\ UNCHANGED mapVars
       \/ /\ len > cap
          /\ calls' = {"GetMemoryMap"}
          /\ Panic
          /\ UNCHANGED <<mapVars, owned, snap, buf>>
       \/ /\ calls' = {"GetMemoryMap", "FreePool"}
          /\ PoolStep(allocs \ {buf})
          /\ buf' = NoBuf
          /\ pc' = "run"
          /\ UNCHANGED <<owned, snap>>
    /\ UNCHANGED <<systemTable, fwVars, logVars, cap, tries, historyVars>>

\* Mutant: Drop forgets free_pool.
drop_memory_map_leaks(m) ==
    /\ pc = "run"
    /\ m \in owned
    /\ owned' = owned \ {m}
    /\ calls' = log
    /\ UNCHANGED <<systemTable, fwVars, logVars, mapVars, locals, pc, historyVars>>

\* Mutant: Drop does not ask whether the boot services are active.
drop_memory_map_unguarded(m) ==
    /\ pc = "run"
    /\ m \in owned
    /\ owned' = owned \ {m}
    /\ calls' = {"FreePool"} /\ PoolStep(allocs \ {m.buf})
    /\ UNCHANGED <<systemTable, fwVars, logVars, locals, pc, historyVars>>

\* Drop of a MemoryMapOwned: its backing memory goes back to the pool only
\* while the boot services are active; otherwise a debug record is logged.
\* The firmware takes back what it allocated (an error would only be logged).
drop_memory_map(m) ==
    /\ pc = "run"
    /\ m \in owned
    /\ owned' = owned \ {m}
    /\ IF are_boot_services_active
       THEN calls' = {"FreePool"} /\ PoolStep(allocs \ {m.buf})
       ELSE calls' = log /\ UNCHANGED mapVars
    /\ UNCHANGED <<systemTable, fwVars, logVars, locals, pc, historyVars>>

(***************************************************************************)
(* boot::exit_boot_services.                                               *)
(***************************************************************************)
\* helpers::exit disables the logger before anything else is done.
exit_boot_services ==
    /\ pc = "run"
    /\ writer' = FALSE
    /\ tries' = 0
    /\ pc' = "ebs_size"
    /\ calls' = {}
    /\ UNCHANGED <<systemTable, fwVars, loggerSet, mapVars, owned, buf, cap, snap,
                   historyVars>>

exit_backing_size ==
    /\ pc = "ebs_size"
    /\ memory_map_size("ebs_alloc")
    /\ changes' = 0 /\ fault' = FALSE
    /\ UNCHANGED <<systemTable, fwVars, logVars, mapVars, owned, buf, snap, tries>>

\* MemoryMapBackingMemory::new(..).expect(..)
exit_backing_alloc ==
    /\ pc = "ebs_alloc"
    /\ \/ AllocBacking("ebs_get")
       \/ AllocFails /\ Panic
    /\ UNCHANGED <<systemTable, fwVars, logVars, owned, cap, snap, tries, historyVars>>

\* Mutant: failed rounds are not counted.
RoundFailsForever(call) ==
    /\ calls' = {call} \cup log
    /\ pc' = "ebs_get"
    /\ UNCHANGED tries

\* The Err arm of the loop: log, count the round, and reset after the last.
RoundFails(call) ==
    /\ calls' = {call} \cup log
    /\ tries' = tries + 1
    /\ pc' = IF tries + 1 < MaxTries THEN "ebs_get" ELSE "ebs_reset"

\* get_memory_map_and_exit_boot_services, first half.
exit_get_memory_map ==
    /\ pc = "ebs_get"
    /\ \/ /\ len <= cap
          /\ calls' = {"GetMemoryMap"}
          /\ snap' = Snapshot
          /\ pc' = "ebs_exit"
          /\ UNCHANGED <<tries, fault>>
       \/ /\ len > cap
          /\ RoundFails("GetMemoryMap")
          /\ UNCHANGED <<snap, fault>>
       \/ /\ RoundFails("GetMemoryMap")
          /\ fault' = TRUE
          /\ UNCHANGED snap
    /\ UNCHANGED <<systemTable, fwVars, logVars, mapVars, owned, buf, cap, changes>>

\* Mutant: the number of entries is taken from the length of the buffer.
exit_call_whole_buffer ==
    /\ pc = "ebs_exit"
    /\ exitCalled' = TRUE
    /\ snap.key = key
    /\ calls' = {"ExitBootServices"}
    /\ bootServices' = FALSE
    /\ owned' = owned \cup {[buf |-> buf, map |-> [snap EXCEPT !.len = cap],
                             final |-> TRUE]}
    /\ buf' = NoBuf
    /\ pc' = "run"
    /\ UNCHANGED <<systemTable, addressing, logVars, mapVars, cap, snap, tries,
                   historyVars>>

\* get_memory_map_and_exit_boot_services, second half: the firmware accepts
\* the key only if it is the current one.
exit_call ==
    /\ pc = "ebs_exit"
    /\ exitCalled' = TRUE
    /\ \/ /\ snap.key = key
          /\ calls' = {"ExitBootServices"}
          /\ bootServices' = FALSE
          /\ owned' = owned \cup {[buf |-> buf, map |-> snap, final |-> TRUE]}
          /\ buf' = NoBuf
          /\ pc' = "run"
          /\ UNCHANGED <<tries, fault>>
       \/ /\ snap.key # key
          /\ RoundFails("ExitBootServices")
          /\ UNCHANGED <<bootServices, owned, buf, fault>>
       \/ /\ RoundFails("ExitBootServices")
          /\ fault' = TRUE
          /\ UNCHANGED <<bootServices, owned, buf>>
    /\ UNCHANGED <<systemTable, addressing, logVars, mapVars, cap, snap, changes>>

\* runtime::reset(COLD, status), never returns.
exit_reset ==
    /\ pc = "ebs_reset"
    /\ calls' = log \cup {"ResetSystem"}
    /\ pc' = "off"
    /\ UNCHANGED <<systemTable, fwVars, logVars, mapVars, owned, locals, historyVars>>

(***************************************************************************)
(* Panic handler, runtime services, environment.                           *)
(***************************************************************************)
\* println, a pause (Stall while there are boot services), then a shutdown if
\* there is a system table and an endless loop otherwise.
panic_handler ==
    /\ pc = "panic"
    /\ calls' = (IF are_boot_services_active THEN {"OutputString", "Stall"} ELSE log)
                \cup (IF systemTable # "null" THEN {"ResetSystem"} ELSE log)
    /\ pc' = "off"
    /\ UNCHANGED <<systemTable, fwVars, logVars, mapVars, owned, locals, historyVars>>

\* The firmware refuses while the boot services are active and when the mode
\* is already virtual; only on success is SYSTEM_TABLE replaced.
set_virtual_address_map ==
    /\ pc = "run"
    /\ IF systemTable = "null"
       THEN calls' = {} /\ Panic /\ UNCHANGED <<systemTable, addressing>>
       ELSE /\ calls' = {"SetVirtualAddressMap"}
            /\ \/ /\ ~bootServices /\ addressing = "physical"
                  /\ addressing' = "virtual"
                  /\ systemTable' = "virtual"
               \/ UNCHANGED <<systemTable, addressing>>
            /\ UNCHANGED pc
    /\ UNCHANGED <<bootServices, exitCalled, logVars, mapVars, owned, locals,
                   historyVars>>

\* Event notification functions and drivers allocate and free memory.
MapChange ==
    /\ bootServices
    /\ pc # "off"
    /\ key < MaxKey
    /\ key' = key + 1
    /\ len' \in Lens
    /\ changes' = IF pc \in {"ebs_alloc", "ebs_get", "ebs_exit"} THEN changes + 1 ELSE changes
    /\ calls' = {}
    /\ UNCHANGED <<systemTable, fwVars, logVars, allocs, owned, locals, pc, fault>>

(***************************************************************************)
(* The specification.                                                      *)
(***************************************************************************)
Init ==
    /\ systemTable = "null"
    /\ addressing = "physical"
    /\ bootServices = TRUE
    /\ exitCalled = FALSE
    /\ loggerSet = FALSE
    /\ writer = FALSE
    /\ key = 0
    /\ len \in Lens
    /\ allocs = {}
    /\ owned = {}
    /\ buf = NoBuf
    /\ cap = 0
    /\ snap = [key |-> 0, len |-> 0, allocs |-> {}]
    /\ tries = 0
    /\ pc = "run"
    /\ calls = {}
    /\ fault = FALSE
    /\ changes = 0

\* The steps of a call that has started.
Continue ==
    \/ memory_map_alloc \/ memory_map_get
    \/ exit_backing_size \/ exit_backing_alloc
    \/ exit_get_memory_map \/ exit_call \/ exit_reset
    \/ panic_handler

Next ==
    \/ entry \/ helpers_init \/ log_record \/ print
    \/ memory_map \/ (\E m \in owned : drop_memory_map(m))
    \/ exit_boot_services \/ set_virtual_address_map
    \/ Continue
    \/ MapChange

Spec == Init /\ [][Next]_vars

\* The processor keeps executing a call that has started; nothing obliges the
\* application to start one, nor the environment to act.
FairSpec == Spec /\ WF_vars(Continue)

(***************************************************************************)
(* Properties.                                                             *)
(***************************************************************************)
TypeOK ==
    /\ systemTable \in {"null"} \cup Modes
    /\ addressing \in Modes
    /\ bootServices \in BOOLEAN
    /\ exitCalled \in BOOLEAN
    /\ loggerSet \in BOOLEAN
    /\ writer \in BOOLEAN
    /\ key \in Nat
    /\ len \in Lens
    /\ allocs \in SUBSET Bufs
    /\ owned \in SUBSET Maps
    /\ buf \in Bufs \cup {NoBuf}
    /\ cap \in Nat
    /\ snap \in Snapshots
    /\ tries \in 0..MaxTries
    /\ pc \in PCs
    /\ calls \in SUBSET (BootCalls \cup RuntimeCalls)
    /\ fault \in BOOLEAN
    /\ changes \in Nat

\* While the boot services are active, the pool holds exactly the buffers of
\* the maps the application owns and the one being filled, each owned once:
\* MemoryMapBackingMemory neither leaks a buffer, not even on the error paths
\* of memory_map, nor frees one that is still in use.  (A panic gives up the
\* buffer being filled: the program does not unwind.)
BackingMemoryExact ==
    /\ bootServices /\ pc \notin {"panic", "off"} =>
           allocs = {m.buf : m \in owned} \cup
                    (IF pc \in PoolHolders THEN {buf} ELSE {})
    /\ \A m1, m2 \in owned : m1.buf = m2.buf => m1 = m2

\* The map exit_boot_services returns is the firmware's last memory map, not
\* one that a callback changed after it was read, and it is self-contained:
\* it reports the buffer it is stored in (documentation of
\* exit_boot_services, boot.rs:1309-1311).
FinalMapExact ==
    \A m \in owned : m.final =>
        /\ ~bootServices
        /\ m.map = Snapshot
        /\ m.buf \in m.map.allocs

\* exit_boot_services gives up, and resets the machine, only when one retry
\* could not have been enough: the firmware failed for a reason of its own,
\* the map changed at least twice after its size was asked for, or one change
\* outgrew the EXTRA_ENTRIES descriptors of slack.  The allocation of the
\* buffer alone never does (impl_.rs:315-324).
OneRetryTolerated ==
    [][pc' = "ebs_reset" /\ pc # "ebs_reset"
           => fault' \/ changes >= 2 \/ (changes >= 1 /\ len > cap)]_vars

\* SYSTEM_TABLE is never left pointing into an address space the firmware has
\* given up: set_virtual_address_map replaces it exactly when the mode changes.
TableMatchesMode == systemTable \in {"null", addressing}

\* No step enters a boot service, or writes to the console, once the boot
\* services are gone: not dropping a map, not logging, not the panic handler.
NoDeadService == [][calls' \cap BootCalls # {} => bootServices]_vars

\* After the first call of the firmware's ExitBootServices the crate calls no
\* boot service but GetMemoryMap and ExitBootServices (the restriction quoted
\* in get_memory_map_and_exit_boot_services, boot.rs:1286-1290): the retry
\* reuses its buffer and the logger is already disabled.
ExitRestriction ==
    [][exitCalled => calls' \cap BootCalls \subseteq {"GetMemoryMap", "ExitBootServices"}]_vars

\* Every boot service the crate enters, by any path, is one it may enter then:
\* any as long as the boot services are there, only the two that a retry needs
\* after the first call of ExitBootServices, none once they are gone
\* (NoDeadService and ExitRestriction).
OnlyAllowedCalls ==
    [][/\ calls' \cap BootCalls # {} => bootServices
       /\ exitCalled => calls' \cap BootCalls \subseteq {"GetMemoryMap", "ExitBootServices"}]_vars

\* exit_boot_services comes to an end: the boot services are gone or the
\* machine is off, however the environment interferes.
ExitTerminates == pc = "ebs_size" ~> (~bootServices \/ pc = "off")

(***************************************************************************)
(* The inductive invariant behind the safety properties.                   *)
(***************************************************************************)
\* A call that is under way has the services it needs.
ControlInv ==
    /\ pc \in PoolHolders \cup {"mm_alloc", "ebs_alloc"} => are_boot_services_active
    /\ pc \in PoolHolders => buf \in Bufs /\ \A m \in owned : m.buf # buf
    /\ owned # {} => systemTable # "null"
    /\ pc \in {"ebs_size", "ebs_alloc", "ebs_get", "ebs_exit", "ebs_reset"} => ~writer
    /\ ~bootServices => exitCalled
    /\ exitCalled => ~writer
    /\ exitCalled /\ bootServices => pc \in {"ebs_get", "ebs_exit", "ebs_reset", "off"}
    /\ ~bootServices => systemTable # "null"
    /\ bootServices => addressing = "physical"

\* The map in the buffer is the current one as long as its key is.
SnapInv ==
    pc = "ebs_exit" =>
        /\ snap.key <= key
        /\ snap.key = key => snap = Snapshot
        /\ buf \in snap.allocs

\* Every failed round is explained by a change of the map of its own.
RetryInv ==
    /\ pc \in {"ebs_size", "ebs_alloc"} => tries = 0
    /\ pc \in {"ebs_get", "ebs_exit"} => tries < MaxTries
    /\ pc = "ebs_alloc" /\ changes = 0 => cap = safe_allocation_size_hint(len)
    /\ pc \in {"ebs_get", "ebs_exit"} /\ changes = 0 => len <= cap
    /\ pc = "ebs_get" /\ ~fault /\ tries = 1 => changes >= 1
    /\ pc = "ebs_exit" /\ ~fault => changes >= tries
    /\ pc = "ebs_exit" /\ ~fault /\ snap.key # key => changes >= tries + 1

IInv ==
    /\ TypeOK /\ ControlInv /\ SnapInv /\ RetryInv
    /\ BackingMemoryExact /\ FinalMapExact /\ TableMatchesMode
=============================================================================
