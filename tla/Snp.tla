--------------------------------- MODULE Snp ---------------------------------
(***************************************************************************)
(* The simple network protocol (proto/network/snp.rs) as the test runner's  *)
(* test uses it (proto/network/snp.rs there) against the echo service of    *)
(* xtask (net.rs): the test, the network interface, the wire and the echo   *)
(* service run at their own speeds.                                         *)
(***************************************************************************)
EXTENDS Integers, Sequences, FiniteSets, SequencesExt

CONSTANTS
    MaxNics,        \* network interfaces of the machine
    MaxForeign      \* frames of other hosts (bound)

VARIABLES
    nics,       \* what each interface looks like to find_network_device
    opened,     \* the interfaces the test holds open
    snp,        \* where the test is
    nic,        \* the interface it uses: state, filters, interrupts, queues
    wire,       \* the frames under way
    foreign, lost   \* what the network did: frames of others, a frame lost

snpvars == <<nics, opened, snp, nic, wire, foreign, lost>>

Payload == <<4, 1, 2, 3, 4>>
\* The first byte counts the elements, the echo service reverses them.
reverse_echo_service(p) == <<p[1]>> \o Reverse(SubSeq(p, 2, p[1] + 1))

Request == [to |-> "echo", proto |-> "ipv4", payload |-> Payload]
Arp == [to |-> "broadcast", proto |-> "arp", payload |-> <<>>]

SnpInit ==
    /\ nics \in [1 .. MaxNics -> [openable : BOOLEAN, media : BOOLEAN, mac : BOOLEAN]]
    /\ opened = {} /\ snp = [pc |-> "find", at |-> 1, held |-> 0, late |-> FALSE, refused |-> FALSE]
    /\ nic \in [state : {"STOPPED", "STARTED"}, filters : {{}}, ints : {{}, {"TRANSMIT"}}, tx : {<<>>}, rx : {<<>>},
                stats : {"unsupported", "unavailable", "counts"}, sent : {0}, received : {0}]
    /\ wire = {} /\ foreign = 0 /\ lost = FALSE

Goto(pc) == snp' = [snp EXCEPT !.pc = pc]
\* `late`: frames were under way when the test failed.
Panic == snp' = [snp EXCEPT !.pc = "panic", !.late = wire # {}] /\ UNCHANGED <<nic, opened>>
\* The interface refuses a call: an expect, unwrap or assert on its result panics.
Refused == snp' = [snp EXCEPT !.pc = "panic", !.refused = TRUE] /\ UNCHANGED <<nic, opened>>
SnpAt(pc) == snp.pc = pc /\ UNCHANGED <<nics, wire, foreign, lost>>

(***************************************************************************)
(* find_network_device.  Replacing the held interface drops (closes) the    *)
(* one found before; an interface that does not match is closed at once.    *)
(***************************************************************************)
Matches(n) == nics[n].openable /\ nics[n].media /\ nics[n].mac
replace(held, n) == {n}

find_network_device ==
    /\ SnpAt("find") /\ snp.at <= MaxNics
    /\ IF Matches(snp.at)
       THEN opened' = replace(snp.held, snp.at) /\ snp' = [snp EXCEPT !.at = @ + 1, !.held = snp.at]
       ELSE UNCHANGED opened /\ snp' = [snp EXCEPT !.at = @ + 1]
    /\ UNCHANGED nic

found ==
    /\ SnpAt("find") /\ snp.at > MaxNics
    /\ IF snp.held = 0 \/ nic.state # "STOPPED" THEN Panic
       ELSE Goto("start") /\ UNCHANGED <<nic, opened>>

start ==
    /\ SnpAt("start")
    /\ \/ nic' = [nic EXCEPT !.state = "STARTED"] /\ Goto("initialize") /\ UNCHANGED opened
       \/ Refused

\* initialize and reset_statistics, which may be unsupported.
initialize ==
    /\ SnpAt("initialize")
    /\ \/ /\ nic' = [nic EXCEPT !.state = "INITIALIZED", !.sent = 0, !.received = 0]
          /\ Goto("clear") /\ UNCHANGED opened
       \/ Refused

\* Reading the interrupt status clears it.
clear_interrupts_skip == SnpAt("clear") /\ Goto("filters") /\ UNCHANGED <<nic, opened>>
clear_interrupts ==
    /\ SnpAt("clear")
    /\ \/ nic' = [nic EXCEPT !.ints = {}] /\ Goto("filters") /\ UNCHANGED opened
       \/ Refused

receive_filters ==
    /\ SnpAt("filters")
    /\ \/ nic' = [nic EXCEPT !.filters = {"UNICAST", "BROADCAST"}] /\ Goto("transmit") /\ UNCHANGED opened
       \/ Refused

\* The assertion that no transmit interrupt is pending, and the transmission.
transmit ==
    /\ SnpAt("transmit")
    /\ \/ IF "TRANSMIT" \in nic.ints THEN Panic
          ELSE nic' = [nic EXCEPT !.ints = {}, !.tx = <<Request>>] /\ Goto("poll") /\ UNCHANGED opened
       \/ Refused

\* The loop reads (and clears) the interrupt status until it has TRANSMIT.
Polled(ints) == "TRANSMIT" \in ints
get_interrupt_status ==
    /\ SnpAt("poll")
    /\ \/ /\ nic' = [nic EXCEPT !.ints = {}] /\ UNCHANGED opened
          /\ Goto(IF Polled(nic.ints) THEN "receive" ELSE "poll")
       \/ Refused

\* After a stall, one frame is received; nothing is retried.
receive ==
    /\ SnpAt("receive")
    /\ \/ IF nic.rx = <<>> \/ Head(nic.rx).to # "nic" \/ Head(nic.rx).proto # "ipv4"
             \/ Head(nic.rx).payload # <<4, 4, 3, 2, 1>>
          THEN Panic
          ELSE nic' = [nic EXCEPT !.rx = Tail(@)] /\ Goto("statistics") /\ UNCHANGED opened
       \/ Refused

collect_statistics ==
    /\ SnpAt("statistics")
    /\ IF nic.stats = "unavailable" \/ (nic.stats = "counts" /\ (nic.sent # 1 \/ nic.received # 1)) THEN Panic
       ELSE Goto("shutdown") /\ UNCHANGED <<nic, opened>>

\* stop only in state STARTED, then shutdown, which leaves the interface started
\* and is refused in any state but INITIALIZED; the protocol is closed at the end
\* of the function.
shutdown ==
    /\ SnpAt("shutdown")
    /\ \/ /\ nic.state = "INITIALIZED"
          /\ nic' = [nic EXCEPT !.state = "STARTED"]
          /\ opened' = {} /\ Goto("done")
       \/ Refused

SnpTest ==
    \/ find_network_device \/ found \/ start \/ initialize \/ clear_interrupts \/ receive_filters \/ transmit
    \/ get_interrupt_status \/ receive \/ collect_statistics \/ shutdown

(***************************************************************************)
(* The interface, the network and the echo service.                         *)
(***************************************************************************)
NicSends ==
    /\ nic.tx # <<>>
    /\ wire' = wire \union {Head(nic.tx)}
    /\ nic' = [nic EXCEPT !.tx = <<>>, !.ints = @ \union {"TRANSMIT"}, !.sent = @ + 1]
    /\ UNCHANGED <<nics, opened, snp, foreign, lost>>

EchoAnswers ==
    /\ Request \in wire
    /\ wire' = (wire \ {Request})
               \union {[to |-> "nic", proto |-> "ipv4", payload |-> reverse_echo_service(Payload)]}
    /\ UNCHANGED <<nics, opened, snp, nic, foreign, lost>>

Accepts(f) == nic.state = "INITIALIZED" /\ (IF f.to = "broadcast" THEN "BROADCAST" ELSE "UNICAST") \in nic.filters

NicReceives(f) ==
    /\ f.to # "echo"
    /\ wire' = wire \ {f}
    /\ nic' = IF Accepts(f)
              THEN [nic EXCEPT !.rx = Append(@, f), !.received = @ + 1, !.ints = @ \union {"RECEIVE"}] ELSE nic
    /\ UNCHANGED <<nics, opened, snp, foreign, lost>>

WireLoses(f) ==
    /\ wire' = wire \ {f} /\ lost' = TRUE
    /\ UNCHANGED <<nics, opened, snp, nic, foreign>>

ForeignFrame ==
    /\ foreign < MaxForeign /\ foreign' = foreign + 1
    /\ wire' = wire \union {Arp}
    /\ UNCHANGED <<nics, opened, snp, nic, lost>>

SnpNext ==
    \/ SnpTest \/ NicSends \/ EchoAnswers \/ ForeignFrame
    \/ \E f \in wire : NicReceives(f) \/ WireLoses(f)

SnpTypeOK ==
    /\ opened \subseteq 1 .. MaxNics /\ snp.held \in 0 .. MaxNics
    /\ nic.state \in {"STOPPED", "STARTED", "INITIALIZED"} /\ foreign \in 0 .. MaxForeign

\* The test holds one interface open at most, the last matching one, however
\* many match; and none when it has passed.
OneDeviceOpen ==
    /\ opened = (IF snp.held = 0 \/ snp.pc = "done" THEN {} ELSE {snp.held})
    /\ snp.held # 0 => \A n \in snp.held + 1 .. snp.at - 1 : ~Matches(n)

\* On a network that delivers in time and carries nothing else, the test passes
\* unless there is no usable interface or a call is refused: it clears the
\* interrupts it polls for, accepts the answer, and finds one frame of each
\* direction counted.  The 500 ms it waits do not make up for a frame that is
\* lost or late, or for one of another host: then its single receive panics.
SnpPanicsForAReason ==
    snp.pc = "panic" /\ ~ lost /\ ~ snp.late /\ foreign = 0 =>
        \/ snp.refused \/ nic.stats = "unavailable"
        \/ nic.state = "STARTED" \/ \A n \in 1 .. MaxNics : ~Matches(n)

SnpRuns == snp.pc \notin {"done", "panic"}
=============================================================================
