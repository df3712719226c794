----------------------------- MODULE Ip4Config2 ------------------------------
(***************************************************************************)
(* Ip4Config2::ifup (uefi/src/proto/network/ip4config2.rs): looks at the   *)
(* interface, turns DHCP on and waits for an address.                      *)
(*                                                                         *)
(* The interface information ends in the route table, so that its size     *)
(* changes when an address is assigned; get_data asks for the size and     *)
(* then for the data.                                                      *)
(***************************************************************************)
EXTENDS Naturals

CONSTANTS Seconds,          \* the 30 rounds of ifup
          MaxAssignments    \* bound: addresses assigned or lost

ASSUME SecondsAssumption == Seconds \in Nat \ {0}

VARIABLES
    address,        \* a station address is assigned
    policy,         \* "STATIC" or "DHCP"
    assignments,
    ifup_pc, round, data_size,  \* the call in progress and its locals
    outcome,        \* of ifup, until the next step of anyone
    stalled,        \* history: seconds stalled since the policy was set
    grew            \* history: an address came between the two calls of get_data

ip4_locals == <<ifup_pc, round, data_size, outcome, stalled, grew>>
ip4_vars == <<address, policy, assignments, ip4_locals>>
ip4_quiet == UNCHANGED <<address, policy, assignments, ifup_pc, round, data_size, stalled, grew>> /\ outcome' = "none"

Ip4Init ==
    /\ address \in BOOLEAN /\ policy = "STATIC" /\ assignments = 0
    /\ ifup_pc = "idle" /\ round = 0 /\ data_size = 0 /\ outcome = "none"
    /\ stalled = 0 /\ grew = FALSE

\* The firmware's side: the size of the information; a lease that comes, by
\* DHCP, or ends.
fw_size == IF address THEN 2 ELSE 1

fw_lease ==
    /\ assignments < MaxAssignments /\ assignments' = assignments + 1
    /\ address' = ~ address /\ (address' => policy = "DHCP")
    /\ grew' = (grew \/ (address' /\ ifup_pc = "data"))
    /\ outcome' = "none" /\ UNCHANGED <<policy, ifup_pc, round, data_size, stalled>>

Leave(result) ==
    /\ ifup_pc' = "idle" /\ outcome' = result
    /\ data_size' = 0 /\ round' = 0 /\ stalled' = 0 /\ grew' = FALSE

ifup ==
    /\ ifup_pc = "idle"
    /\ ifup_pc' = "size" /\ outcome' = "none"
    /\ UNCHANGED <<address, policy, assignments, round, data_size, stalled, grew>>

\* get_data, call #1
get_data_size ==
    /\ ifup_pc = "size"
    /\ \/ ifup_pc' = "data" /\ data_size' = fw_size /\ UNCHANGED <<outcome, round, stalled, grew>>
       \/ Leave("DEVICE_ERROR")
    /\ UNCHANGED <<address, policy, assignments>>

\* Mutated forms: the loop ends a round early or late.
LastRound_early == round >= Seconds - 1

LastRound == round >= Seconds

\* get_data, call #2, and what ifup does with the information: round 0 is
\* the look before DHCP is turned on.
get_data_data ==
    /\ ifup_pc = "data"
    /\ \/ fw_size > data_size /\ Leave("BUFFER_TOO_SMALL")
       \/ Leave("DEVICE_ERROR")
       \/ fw_size <= data_size /\ address /\ Leave("Ok")
       \/ /\ fw_size <= data_size /\ ~ address /\ LastRound
          /\ Leave("TIMEOUT")
       \/ /\ fw_size <= data_size /\ ~ address /\ ~ LastRound
          /\ ifup_pc' = (IF round = 0 THEN "set_policy" ELSE "stall") /\ data_size' = 0
          /\ UNCHANGED <<outcome, round, stalled, grew>>
    /\ UNCHANGED <<address, policy, assignments>>

set_policy ==
    /\ ifup_pc = "set_policy"
    /\ \/ policy' = "DHCP" /\ ifup_pc' = "stall" /\ UNCHANGED <<outcome, round, data_size, stalled, grew>>
       \/ Leave("DEVICE_ERROR") /\ UNCHANGED policy
    /\ UNCHANGED <<address, assignments>>

stall ==
    /\ ifup_pc = "stall"
    /\ round' = round + 1 /\ stalled' = stalled + 1 /\ ifup_pc' = "size"
    /\ UNCHANGED <<address, policy, assignments, data_size, outcome, grew>>

Ip4Call == get_data_size \/ get_data_data \/ set_policy \/ stall
=============================================================================
