---------------------------- MODULE HandleDatabase ----------------------------
(***************************************************************************)
(* The firmware's handle database as uefi/src/boot.rs uses it, and what    *)
(* the crate keeps about an open protocol, the ScopedProtocol.             *)
(*                                                                         *)
(* iface gives the interface installed for a pair <<handle, protocol>>;    *)
(* opens is the firmware's bag of open records.  The attribute is not      *)
(* among the parameters of close_protocol: when one agent has a pair open  *)
(* twice, which of its records a close removes is up to the firmware.      *)
(***************************************************************************)
EXTENDS Naturals, FiniteSets, Bags

CONSTANTS
    Pairs,          \* the <<handle, protocol>> that may be installed
    Ifaces,         \* interface pointers
    Controllers     \* values of OpenProtocolParams::controller, None among them

VARIABLES iface, opens

NoIface == "not installed"
None == "None"
App == "app"            \* image_handle(), the agent of the application
Driver == "driver"      \* the agent of drivers already in the system

Handles == {hp[1] : hp \in Pairs}
Installed(p) == {h \in Handles : <<h, p>> \in Pairs /\ iface[<<h, p>>] # NoIface}

\* OpenProtocolParams with the protocol and the attribute
Record(hp, agent, controller, attr) ==
    [hp |-> hp, agent |-> agent, controller |-> controller, attr |-> attr]

On(hp) == {r \in BagToSet(opens) : r.hp = hp}
By(hp, attr) == {r \in On(hp) : r.attr = attr}
Without(recs) == [r \in BagToSet(opens) \ recs |-> opens[r]]
One(r) == SetToBag({r})

\* OpenProtocol: the possible pairs of a status and the open records after
\* it.  Drivers that have the pair open are asked to stop, and may refuse.
fw_open_protocol(r) ==
    LET drivers == By(r.hp, "ByDriver")
        taken == By(r.hp, "Exclusive") # {}
    IN  IF iface[r.hp] = NoIface THEN {<<"UNSUPPORTED", opens>>}
        ELSE IF r.attr = "GetProtocol" THEN {<<"SUCCESS", opens (+) One(r)>>}
        ELSE IF taken \/ (r.attr = "ByDriver" /\ drivers # {}) THEN {<<"ACCESS_DENIED", opens>>}
        ELSE {<<"SUCCESS", Without(drivers) (+) One(r)>>}
             \cup (IF drivers = {} THEN {} ELSE {<<"ACCESS_DENIED", opens>>})

\* CloseProtocol removes one record with these parameters.
fw_close_protocol(hp, agent, controller) ==
    LET same == {r \in On(hp) : r.agent = agent /\ r.controller = controller}
    IN  IF same = {} THEN {<<"NOT_FOUND", opens>>}
        ELSE {<<"SUCCESS", opens (-) One(r)>> : r \in same}

\* UninstallProtocolInterface and ReinstallProtocolInterface succeed unless
\* the pair is open exclusively or a driver refuses to stop.  Records of
\* GetProtocol do not hold it back; they go with the interface.
fw_replace(hp, old, new) ==
    /\ iface[hp] = old /\ By(hp, "Exclusive") = {}
    /\ iface' = [iface EXCEPT ![hp] = new]
    /\ opens' = Without(IF new = NoIface THEN On(hp) ELSE By(hp, "ByDriver"))

fw_install(hp, new) ==
    /\ iface[hp] = NoIface
    /\ iface' = [iface EXCEPT ![hp] = new]
    /\ UNCHANGED opens

-----------------------------------------------------------------------------
(* The crate's side *)

\* What a ScopedProtocol remembers, and, as history, who returned it
Scoped(r, by) == [hp |-> r.hp, agent |-> r.agent, controller |-> r.controller,
                  interface |-> iface[r.hp], by |-> by]

\* open_protocol: Ok with a ScopedProtocol, or the firmware's error.
OpenFor(r, by) ==
    {[opens |-> o[2], scoped |-> IF o[1] = "SUCCESS" THEN {Scoped(r, by)} ELSE {}]
        : o \in fw_open_protocol(r)}

open_protocol(hp, controller) ==
    OpenFor(Record(hp, App, controller, "GetProtocol"), "open_protocol")

\* Mutated form: shared instead of exclusive
open_protocol_exclusive_shared(hp) ==
    OpenFor(Record(hp, App, None, "GetProtocol"), "open_protocol_exclusive")

open_protocol_exclusive(hp) ==
    OpenFor(Record(hp, App, None, "Exclusive"), "open_protocol_exclusive")

\* The drop of a ScopedProtocol asserts that the status is SUCCESS.
close_protocol(s) == fw_close_protocol(s.hp, s.agent, s.controller)
=============================================================================
