------------------------------ MODULE Protocols ------------------------------
(***************************************************************************)
(* An application that uses the protocol services of uefi/src/boot.rs      *)
(* while drivers use them too: open_protocol and the drop of its guard,    *)
(* the interface installation functions, find_handles,                     *)
(* get_image_file_system, and raise_tpl.                                   *)
(*                                                                         *)
(* Drivers run in notification functions at level CALLBACK: between any    *)
(* two firmware calls of the application, unless it has raised its level.  *)
(***************************************************************************)
EXTENDS HandleDatabase, Sequences

CONSTANTS
    Changing,           \* bound: pairs whose interface is installed, replaced or removed
    Slots,              \* bound: places for ScopedProtocol values
    MaxGuards,          \* bound: TplGuard values at a time
    MaxDriverSteps,     \* bound: steps of drivers
    ImageHandle, LoadedImage, DevicePath, SimpleFileSystem

Temps == {"loaded_image", "device_path"}    \* locals of get_image_file_system

ASSUME ImagePair == <<ImageHandle, LoadedImage>> \in Pairs /\ Changing \subseteq Pairs
ASSUME FiniteAssumption == IsFiniteSet(Handles) /\ IsFiniteSet(Slots) /\ MaxGuards \in Nat
ASSUME SlotsAssumption == Slots \cap (Temps \cup {"no", "find_handles"}) = {}

APPLICATION == 4
CALLBACK == 8
NOTIFY == 16
Tpls == {APPLICATION, CALLBACK, NOTIFY}

VARIABLES
    scoped,         \* slot -> ScopedProtocol, {} or one element
    tpl,            \* current level
    guards,         \* TplGuard values in the order raised; raised is history
    inOrder,        \* history: guards were dropped last raised first
    mixed,          \* history: pairs the application had open in two ways at once
    panic,          \* "no", the slot whose drop panicked, or "find_handles"
    pc, num_handles,    \* the call in progress, and its local variable
    device,             \* LoadedImage::device of the image
    raced,              \* history: a handle got the protocol during find_handles
    driverSteps

app == <<scoped, mixed, panic, pc, num_handles>>
level == <<tpl, guards, inOrder>>
vars == <<iface, opens, app, level, device, raced, driverSteps>>

Fixed == "fixed"        \* the interface of a pair that does not change

Init ==
    /\ iface \in [Pairs -> {NoIface, Fixed} \cup Ifaces]
    /\ \A hp \in Pairs : iface[hp] \in {NoIface} \cup (IF hp \in Changing THEN Ifaces ELSE {Fixed})
    /\ iface[<<ImageHandle, LoadedImage>>] # NoIface
    /\ opens = EmptyBag
    /\ scoped = [s \in Slots \cup Temps |-> {}]
    /\ tpl = APPLICATION /\ guards = <<>> /\ inOrder = TRUE
    /\ mixed = {} /\ panic = "no" /\ pc = "idle" /\ num_handles = 0
    /\ device \in {h \in Handles : <<h, DevicePath>> \in Pairs} \cup {None}
    /\ raced = FALSE /\ driverSteps = 0

At(label) == panic = "no" /\ pc = label

-----------------------------------------------------------------------------
(* open_protocol, and the drop of what it returns *)

HeldOn(hp) == {s \in DOMAIN scoped : \E x \in scoped[s] : x.hp = hp}

\* The outcome o of open_protocol goes to slot s.
Opened(s, hp, o) ==
    /\ opens' = o.opens
    /\ scoped' = [scoped EXCEPT ![s] = o.scoped]
    /\ mixed' = IF o.scoped # {} /\ HeldOn(hp) # {} THEN mixed \cup {hp} ELSE mixed

open_unsafe(s, hp, controller) ==
    /\ At("idle") /\ scoped[s] = {}
    /\ \E o \in open_protocol(hp, controller) : Opened(s, hp, o)
    /\ UNCHANGED <<iface, panic, pc, num_handles, level, device, raced, driverSteps>>

open_exclusive(s, hp) ==
    /\ At("idle") /\ scoped[s] = {}
    /\ \E o \in open_protocol_exclusive(hp) : Opened(s, hp, o)
    /\ UNCHANGED <<iface, panic, pc, num_handles, level, device, raced, driverSteps>>

\* The guard in slot s is dropped, and the program goes on at label.
Drop(s, label) ==
    \E x \in scoped[s] : \E o \in close_protocol(x) :
        /\ opens' = o[2]
        /\ IF o[1] = "SUCCESS"
           THEN scoped' = [scoped EXCEPT ![s] = {}] /\ pc' = label /\ UNCHANGED panic
           ELSE panic' = s /\ UNCHANGED <<scoped, pc>>

drop_scoped(s) ==
    /\ At("idle") /\ Drop(s, "idle")
    /\ UNCHANGED <<iface, mixed, num_handles, level, device, raced, driverSteps>>

-----------------------------------------------------------------------------
(* Installing, replacing and removing interfaces.  The firmware's error    *)
(* changes nothing.                                                        *)

install_protocol_interface(hp, new) == fw_install(hp, new)
reinstall_protocol_interface(hp, old, new) == fw_replace(hp, old, new)
uninstall_protocol_interface(hp, old) == fw_replace(hp, old, NoIface)

Change ==
    \E hp \in Changing :
        \/ \E new \in Ifaces : install_protocol_interface(hp, new)
        \/ \E old \in Ifaces : uninstall_protocol_interface(hp, old)
        \/ \E old, new \in Ifaces : reinstall_protocol_interface(hp, old, new)

\* The caller's duty ("no references to the old_interface that is being
\* removed"): the application holds none itself.
change_by_app ==
    /\ At("idle") /\ Change
    /\ \A hp \in Pairs : iface'[hp] # iface[hp] => HeldOn(hp) = {}
    /\ UNCHANGED <<app, level, device, raced, driverSteps>>

-----------------------------------------------------------------------------
(* Drivers *)

\* bound: a driver acts a few times, on no interface it does not change
DriverRuns ==
    /\ panic = "no" /\ tpl < CALLBACK /\ driverSteps < MaxDriverSteps
    /\ driverSteps' = driverSteps + 1

driver_opens ==
    /\ DriverRuns
    /\ \E hp \in Pairs, attr \in {"ByDriver", "Exclusive"} :
          \E o \in fw_open_protocol(Record(hp, Driver, None, attr)) :
             o[1] = "SUCCESS" /\ opens' = o[2]
    /\ UNCHANGED <<iface, app, level, device, raced>>

driver_closes ==
    /\ DriverRuns
    /\ \E hp \in Pairs : \E o \in fw_close_protocol(hp, Driver, None) :
          o[1] = "SUCCESS" /\ opens' = o[2]
    /\ UNCHANGED <<iface, app, level, device, raced>>

driver_changes ==
    /\ DriverRuns /\ Change
    /\ raced' = (raced \/ (pc = "find" /\ \E h \in Handles : <<h, SimpleFileSystem>> \in Pairs
                             /\ iface[<<h, SimpleFileSystem>>] = NoIface
                             /\ iface'[<<h, SimpleFileSystem>>] # NoIface))
    /\ UNCHANGED <<app, level, device>>

-----------------------------------------------------------------------------
(* find_handles::<SimpleFileSystem>: locate_handle with an empty buffer to *)
(* learn the number, then with one of at least that capacity.              *)

locate_handle(capacity) ==
    LET found == Installed(SimpleFileSystem)
    IN  CASE found = {} -> [status |-> "NOT_FOUND", handles |-> {}]
          [] found # {} /\ Cardinality(found) > capacity ->
                 [status |-> "BUFFER_TOO_SMALL", handles |-> {}]
          [] OTHER -> [status |-> "SUCCESS", handles |-> found]

\* Mutated form: the second call is trusted to find what the first one did.
second_locate_unchecked ==
    [status |-> "SUCCESS",
     handles |-> CHOOSE S \in SUBSET Handles : Cardinality(S) = num_handles]

second_locate == locate_handle(num_handles)

find_handles ==
    /\ At("idle")
    /\ LET status == locate_handle(0).status
       IN  CASE status = "BUFFER_TOO_SMALL" ->
                    /\ num_handles' = Cardinality(Installed(SimpleFileSystem))
                    /\ pc' = "find" /\ UNCHANGED panic
             [] status = "SUCCESS" -> panic' = "find_handles" /\ UNCHANGED <<num_handles, pc>>
             [] OTHER -> UNCHANGED <<num_handles, pc, panic>>
    /\ UNCHANGED <<iface, opens, scoped, mixed, level, device, raced, driverSteps>>

\* It returns second_locate.
find_handles_second ==
    /\ At("find")
    /\ num_handles' = 0 /\ raced' = FALSE /\ pc' = "idle"
    /\ UNCHANGED <<iface, opens, scoped, mixed, panic, level, device, driverSteps>>

-----------------------------------------------------------------------------
(* get_image_file_system: three exclusive opens in a row.  Whatever        *)
(* happens, device_path and then loaded_image are dropped on return.       *)

\* Where an open that did (not) succeed leads
ImageOpen(s, hp, next, failed) ==
    \E o \in open_protocol_exclusive(hp) :
        /\ Opened(s, hp, o)
        /\ pc' = IF o.scoped # {} THEN next ELSE failed

get_image_file_system ==
    /\ At("idle") /\ \E s \in Slots : scoped[s] = {}
    /\ ImageOpen("loaded_image", <<ImageHandle, LoadedImage>>, "device", "idle")
    /\ UNCHANGED <<iface, panic, num_handles, level, device, raced, driverSteps>>

\* The guard on LoadedImage is dereferenced for the device.  Firmware installs
\* LoadedImage and DevicePath with an interface, so this Deref does not meet
\* the null one it would panic on (boot.rs:1623).
image_device_path ==
    /\ At("device")
    /\ IF device = None THEN pc' = "drop_image" /\ UNCHANGED <<opens, scoped, mixed>>
       ELSE ImageOpen("device_path", <<device, DevicePath>>, "locate", "drop_image")
    /\ UNCHANGED <<iface, panic, num_handles, level, device, raced, driverSteps>>

\* Mutated form: an error of locate_device_path returns at once.
LocateFailsTo_idle == "idle"

LocateFailsTo == "drop_path"

\* locate_device_path finds some handle with the protocol, or none; then the
\* file system itself is opened.
image_open_file_system(s) ==
    /\ At("locate") /\ scoped[s] = {}
    /\ \/ \E h \in Installed(SimpleFileSystem) :
             ImageOpen(s, <<h, SimpleFileSystem>>, "drop_path", "drop_path")
       \/ pc' = LocateFailsTo /\ UNCHANGED <<opens, scoped, mixed>>
    /\ UNCHANGED <<iface, panic, num_handles, level, device, raced, driverSteps>>

image_drop_path ==
    /\ At("drop_path") /\ Drop("device_path", "drop_image")
    /\ UNCHANGED <<iface, mixed, num_handles, level, device, raced, driverSteps>>

image_drop_image ==
    /\ At("drop_image") /\ Drop("loaded_image", "idle")
    /\ UNCHANGED <<iface, mixed, num_handles, level, device, raced, driverSteps>>

-----------------------------------------------------------------------------
(* raise_tpl and the drop of TplGuard.  Guards are values: the program may *)
(* drop them in any order.                                                 *)

\* bound: no more guards once one was dropped out of order
raise_tpl(t) ==
    /\ At("idle") /\ inOrder /\ Len(guards) < MaxGuards /\ t > tpl
    /\ tpl' = t /\ guards' = Append(guards, [old_tpl |-> tpl, raised |-> t])
    /\ UNCHANGED <<iface, opens, app, inOrder, device, raced, driverSteps>>

restored(i) == guards[i].old_tpl

drop_tpl_guard(i) ==
    /\ At("idle")
    /\ tpl' = restored(i)
    /\ guards' = SubSeq(guards, 1, i - 1) \o SubSeq(guards, i + 1, Len(guards))
    /\ inOrder' = (inOrder /\ i = Len(guards))
    /\ UNCHANGED <<iface, opens, app, device, raced, driverSteps>>

-----------------------------------------------------------------------------
Next ==
    \/ \E s \in Slots : \/ \E hp \in Pairs : open_exclusive(s, hp)
                        \/ \E hp \in Changing, c \in Controllers : open_unsafe(s, hp, c)
                        \/ drop_scoped(s) \/ image_open_file_system(s)
    \/ change_by_app
    \/ driver_opens \/ driver_closes \/ driver_changes
    \/ find_handles \/ find_handles_second
    \/ get_image_file_system \/ image_device_path \/ image_drop_path \/ image_drop_image
    \/ \E t \in Tpls : raise_tpl(t)
    \/ \E i \in 1 .. Len(guards) : drop_tpl_guard(i)

Spec == Init /\ [][Next]_vars

-----------------------------------------------------------------------------
TypeOK ==
    /\ iface \in [Pairs -> {NoIface, Fixed} \cup Ifaces]
    /\ IsABag(opens)
    /\ \A s \in DOMAIN scoped : Cardinality(scoped[s]) <= 1
    /\ tpl \in Tpls /\ Len(guards) <= MaxGuards
    /\ panic \in {"no", "find_handles"} \cup DOMAIN scoped
    /\ pc \in {"idle", "find", "device", "locate", "drop_path", "drop_image"}

Guards(hp, c) == {s \in DOMAIN scoped : \E x \in scoped[s] : x.hp = hp /\ x.controller = c}
Records(hp, c) == {r \in On(hp) : r.agent = App /\ r.controller = c}

\* "opening in exclusive mode with the correct agent handle set ensures that
\* the protocol cannot be modified or removed while it is open"
\* (boot.rs:1117): the interface in an exclusive guard stays the installed
\* one and no driver has it open, whatever drivers do, and dropping the guard
\* does not panic.  The exception is a pair the application also opened in
\* another way.  The assertion in the drop of ScopedProtocol (boot.rs:1614)
\* fails only for a guard from the unsafe open_protocol whose interface went
\* away, taking the firmware's record along; find_handles does not panic.
ExclusiveProtected ==
    /\ \A s \in DOMAIN scoped : \A x \in scoped[s] :
           x.by = "open_protocol_exclusive" /\ x.hp \notin mixed =>
               /\ iface[x.hp] = x.interface
               /\ \A r \in On(x.hp) : r.agent = App
    /\ panic # "no" =>
           /\ panic # "find_handles"
           /\ \A x \in scoped[panic] : /\ x.by = "open_protocol" \/ x.hp \in mixed
                                       /\ Records(x.hp, x.controller) = {}

\* What the firmware keeps for the application is what its guards hold.
\* Between calls there is no open record beyond those of the guards: every
\* path through get_image_file_system (boot.rs:1487) closes what it opened.
\* As long as TplGuards are dropped last raised first, the level is the one
\* the last of them raised to, and that of applications when none is left
\* (boot.rs:1666).
GuardsExact ==
    /\ TypeOK
    /\ pc = "idle" /\ panic = "no" =>
           \A hp \in Pairs, c \in Controllers :
               /\ \A r \in Records(hp, c) : opens[r] <= Cardinality(Guards(hp, c))
               /\ Guards(hp, c) \subseteq Slots
    /\ inOrder => tpl = IF guards = <<>> THEN APPLICATION ELSE guards[Len(guards)].raised

\* find_handles (boot.rs:968) returns Ok with all handles that have the
\* protocol, and reports BUFFER_TOO_SMALL only if a handle gained the
\* protocol between its two calls, which a raised level rules out.
FindHandlesExact ==
    [][pc = "find" /\ pc' = "idle" =>
          /\ second_locate.status = "SUCCESS" => second_locate.handles = Installed(SimpleFileSystem)
          /\ second_locate.status = "BUFFER_TOO_SMALL" => raced /\ tpl < CALLBACK]_vars

-----------------------------------------------------------------------------
\* For TLC: an image, a device with a path and a file system, and a second
\* device whose file system may appear.
MCPairs == {<<"image", "LoadedImage">>, <<"dev", "DevicePath">>,
            <<"dev", "SimpleFileSystem">>, <<"dev2", "SimpleFileSystem">>}
MCChanging == {<<"dev2", "SimpleFileSystem">>}
=============================================================================
