------------------------------ MODULE PassThru ------------------------------
(***************************************************************************)
(* The NVMe, SCSI and ATA pass-through protocols (uefi/src/proto/nvme,     *)
(* scsi, ata): the iterators over attached devices, and requests with      *)
(* borrowed and owned buffers (uefi/src/mem/aligned_buffer.rs).            *)
(*                                                                         *)
(* Devices come and go while the iterators run.                            *)
(***************************************************************************)
EXTENDS Integers, Sequences, SequencesExt, FiniteSets, FiniteSetsExt

CONSTANTS
    Ids,            \* namespaces, targets, ATA ports: positive numbers
    Pmps,           \* ports of a port multiplier: positive numbers
    MaxPlugs,       \* changes of the attached devices in one behaviour
    IoAligns,       \* alignments the controllers ask for
    RequestLens,     \* lengths asked for
    CdbMax,         \* longest SCSI command (255)
    MaxBuilds       \* builder calls of one request

VARIABLES
    bus,        \* "nvme", "scsi" or "ata"
    attached,   \* the devices: pairs <<id, pmp>>; pmp is Direct but for port multipliers
    cursor,     \* the iterator: [id, pmp, end_of_port, pc]
    found,      \* the devices it has returned
    ended,      \* "" while it runs, "end" after None, "panic"
    unplugged,  \* history: the devices changed since the iterator was made
    plugs,
    io_align,   \* the alignment of the controller
    packet,     \* the request: for each buffer of the bus [ptr, len], ptr 0 for null
    owned,      \* the AlignedBuffer of the request behind it, 0 for None
    buffers,       \* allocated buffers: [ptr, size, align, app]
    phase,      \* of the request
    builds

ptvars == <<bus, attached, cursor, found, ended, unplugged, plugs, io_align, packet, owned, buffers, phase, builds>>

BeforeFirst == 0      \* the value before the first device: all bits set
Direct == 0     \* pmp 0xFFFF: a device connected without a port multiplier

-----------------------------------------------------------------------------
(* Iterators *)

IdsOf(devs) == {d[1] : d \in devs}
After(set, x) == {y \in set : y > x}

\* GetNextNamespace, GetNextTargetLun, GetNextPort: an id that was not returned
\* before is refused; one that has been unplugged since is not.
fw_next(prev) ==
    IF prev # BeforeFirst /\ prev \notin IdsOf(Range(found)) THEN [status |-> "INVALID_PARAMETER", id |-> prev]
    ELSE IF After(IdsOf(attached), prev) = {} THEN [status |-> "NOT_FOUND", id |-> prev]
    ELSE [status |-> "SUCCESS", id |-> Min(After(IdsOf(attached), prev))]

\* GetNextDevice of ATA: without a port multiplier both answers are allowed.
\* A device that was not returned before for this port is refused.
fw_next_device(port, prev) ==
    LET pmps == {d[2] : d \in {e \in attached : e[1] = port}} IN
    IF prev # Direct /\ <<port, prev>> \notin Range(found) THEN {[status |-> "INVALID_PARAMETER", pmp |-> prev]}
    ELSE IF pmps = {Direct}
         THEN {[status |-> "NOT_FOUND", pmp |-> prev], [status |-> "SUCCESS", pmp |-> Direct]}
    ELSE IF After(pmps, prev) = {} THEN {[status |-> "NOT_FOUND", pmp |-> prev]}
    ELSE {[status |-> "SUCCESS", pmp |-> Min(After(pmps, prev))]}

requestvars == <<io_align, packet, owned, buffers, phase, builds>>

\* iter_namespaces, iter_devices
iter_devices ==
    /\ ended # "" /\ phase = "none"
    /\ cursor' = [id |-> BeforeFirst, pmp |-> Direct, end_of_port |-> TRUE, pc |-> "idle"]
    /\ found' = <<>> /\ ended' = "" /\ unplugged' = FALSE
    /\ UNCHANGED <<bus, attached, plugs, requestvars>>

\* next of NvmeNamespaceIterator and ScsiTargetLunIterator
next_id ==
    /\ bus # "ata" /\ ended = ""
    /\ LET res == fw_next(cursor.id) IN
       /\ cursor' = [cursor EXCEPT !.id = res.id]
       /\ found' = IF res.status = "SUCCESS" THEN Append(found, <<res.id, Direct>>) ELSE found
       /\ ended' = CASE res.status = "SUCCESS" -> "" [] res.status = "NOT_FOUND" -> "end" [] OTHER -> "panic"
    /\ UNCHANGED <<bus, attached, unplugged, plugs, requestvars>>

\* The loop of AtaDeviceIterator::next: the next port, when one is at its end
next_port ==
    /\ bus = "ata" /\ ended = "" /\ cursor.pc = "idle"
    /\ IF cursor.end_of_port
       THEN LET res == fw_next(cursor.id) IN
            /\ cursor' = [cursor EXCEPT !.id = res.id, !.end_of_port = (res.status # "SUCCESS"),
                                        !.pc = IF res.status = "SUCCESS" THEN "device" ELSE "idle"]
            /\ ended' = CASE res.status = "SUCCESS" -> "" [] res.status = "NOT_FOUND" -> "end" [] OTHER -> "panic"
       ELSE cursor' = [cursor EXCEPT !.pc = "device"] /\ UNCHANGED ended
    /\ UNCHANGED <<bus, attached, found, unplugged, plugs, requestvars>>

\* What the loop returns for a port on which no port multiplier is found
DirectDevice(was_first) == IF was_first THEN <<<<cursor.id, Direct>>>> ELSE <<>>

PortEnd == [cursor EXCEPT !.pmp = Direct, !.end_of_port = TRUE, !.pc = "idle"]

\* The loop of AtaDeviceIterator::next: the next device on the port
next_device ==
    /\ cursor.pc = "device"
    /\ \E res \in fw_next_device(cursor.id, cursor.pmp) :
        CASE res.status = "SUCCESS" ->
                /\ cursor' = [cursor EXCEPT !.pmp = res.pmp, !.end_of_port = (res.pmp = Direct), !.pc = "idle"]
                /\ found' = Append(found, <<cursor.id, res.pmp>>) /\ UNCHANGED ended
          [] res.status = "NOT_FOUND" ->
                /\ cursor' = PortEnd
                /\ found' = found \o DirectDevice(cursor.pmp = Direct) /\ UNCHANGED ended
          [] OTHER ->
                cursor' = [cursor EXCEPT !.pc = "idle"] /\ ended' = "panic" /\ UNCHANGED found
    /\ UNCHANGED <<bus, attached, unplugged, plugs, requestvars>>

\* A device is attached or removed.
plug(devs) ==
    /\ plugs < MaxPlugs /\ ended = "" /\ devs # attached
    /\ attached' = devs /\ plugs' = plugs + 1 /\ unplugged' = TRUE
    /\ UNCHANGED <<bus, cursor, found, ended, requestvars>>

-----------------------------------------------------------------------------
(* Requests *)

Buffers == [nvme |-> {"transfer", "meta_data"}, scsi |-> {"in_data", "out_data", "sense", "cdb"},
            ata |-> {"in_data", "out_data", "asb"}]
NoBuffer == [ptr |-> 0, len |-> 0]
AsbSize == 8

iteratorvars == <<bus, attached, cursor, found, ended, unplugged, plugs>>

PowerOfTwo(n) == n \in {1, 2, 4, 8}

Fresh == Min({p \in 1 .. Cardinality(buffers) + 1 : \A b \in buffers : b.ptr # p})
Allocated(size, align) == [ptr |-> Fresh, size |-> size, align |-> align, app |-> FALSE]
Dropped(ptrs) == {b \in buffers : b.ptr \notin ptrs}
OwnedNow == {owned[s] : s \in DOMAIN owned}

\* The builder is dropped, and with it what it owns.
Fail == /\ phase' = "failed" /\ buffers' = {b \in buffers : b.app}
        /\ packet' = [s \in DOMAIN packet |-> NoBuffer] /\ owned' = [s \in DOMAIN owned |-> 0]

\* The request builders' new; ATA allocates its status block at once.
\* mode().io_align is at least 1 for SCSI only.
new_request(align) ==
    /\ phase = "none" /\ ended = "none"
    /\ io_align' = IF bus = "scsi" THEN Max({1, align}) ELSE align
    /\ builds' = 0
    /\ LET none == [s \in Buffers[bus] |-> NoBuffer] IN
       IF bus # "ata"
       THEN /\ phase' = "build" /\ packet' = none /\ owned' = [s \in Buffers[bus] |-> 0] /\ UNCHANGED buffers
       ELSE IF PowerOfTwo(align)
       THEN /\ phase' = "build" /\ buffers' = buffers \union {Allocated(AsbSize, align)}
            /\ packet' = [none EXCEPT !["asb"] = [ptr |-> Fresh, len |-> AsbSize]]
            /\ owned' = [s \in Buffers[bus] |-> IF s = "asb" THEN Fresh ELSE 0]
       ELSE phase' = "failed" /\ UNCHANGED <<packet, owned, buffers>>
    /\ UNCHANGED iteratorvars

Build(s) == phase = "build" /\ s \in Buffers[bus] \ {"asb"} /\ builds < MaxBuilds /\ builds' = builds + 1

\* Mutated form: the old buffer goes, the packet keeps pointing to it.
SetPacket_stale(s, ptr, len) ==
    packet' = IF packet[s].ptr # 0 THEN packet ELSE [packet EXCEPT ![s] = [ptr |-> ptr, len |-> len]]

SetPacket(s, ptr, len) == packet' = [packet EXCEPT ![s] = [ptr |-> ptr, len |-> len]]

\* use_transfer_buffer, use_metadata_buffer, use_read_buffer, use_write_buffer,
\* use_command_buffer with a buffer of the application
use_buffer(s, b) ==
    /\ Build(s) /\ s # "sense" /\ b \in buffers /\ b.app /\ \A t \in DOMAIN packet : packet[t].ptr # b.ptr
    /\ IF (s = "cdb" /\ b.size > CdbMax) \/ io_align = 0
       THEN phase' = "panicked" /\ UNCHANGED <<packet, owned, buffers>>
       ELSE IF b.align % io_align # 0 THEN Fail
       ELSE /\ buffers' = Dropped({owned[s]}) /\ owned' = [owned EXCEPT ![s] = 0]
            /\ SetPacket(s, b.ptr, b.size) /\ UNCHANGED phase
    /\ UNCHANGED <<iteratorvars, io_align>>

Replaced(s) == Dropped({owned[s]})

\* with_transfer_buffer, with_metadata_buffer, with_read_buffer,
\* with_sense_buffer, with_write_data, with_command_data
with_buffer(s, len) ==
    /\ Build(s)
    /\ IF s = "cdb" /\ len > CdbMax
       THEN phase' = "panicked" /\ UNCHANGED <<packet, owned, buffers>>
       ELSE IF ~ PowerOfTwo(io_align) THEN Fail
       ELSE /\ buffers' = Replaced(s) \union {Allocated(len, io_align)}
            /\ owned' = [owned EXCEPT ![s] = Fresh]
            /\ SetPacket(s, Fresh, len) /\ UNCHANGED phase
    /\ UNCHANGED <<iteratorvars, io_align>>

\* execute_command: the firmware may shorten the transfer lengths; an error
\* drops the request.
execute_command ==
    /\ phase = "build"
    /\ \/ phase' = "response" /\ UNCHANGED <<packet, owned, buffers>>
       \/ /\ phase' = "response" /\ UNCHANGED <<owned, buffers>>
          /\ packet' = [s \in DOMAIN packet |-> [packet[s] EXCEPT !.len = Min({@, 1})]]
       \/ Fail
    /\ UNCHANGED <<iteratorvars, io_align, builds>>

drop_response ==
    /\ phase = "response"
    /\ phase' = "done" /\ buffers' = Dropped(OwnedNow)
    /\ packet' = [s \in DOMAIN packet |-> NoBuffer] /\ owned' = [s \in DOMAIN owned |-> 0]
    /\ UNCHANGED <<iteratorvars, io_align, builds>>

-----------------------------------------------------------------------------

Topologies == {devs \in SUBSET (Ids \X {Direct}) : TRUE}
              \union IF bus # "ata" THEN {}
                     ELSE {devs \in SUBSET (Ids \X (Pmps \union {Direct})) :
                            \A d, e \in devs : d[1] = e[1] /\ d[2] = Direct => e[2] = Direct}

AppBuffers == {[ptr |-> 1, size |-> CdbMax + 1, align |-> 4, app |-> TRUE],
               [ptr |-> 2, size |-> 2, align |-> 1, app |-> TRUE]}

PassThruInit ==
    /\ bus \in {"nvme", "scsi", "ata"}
    /\ attached \in Topologies
    /\ cursor = [id |-> BeforeFirst, pmp |-> Direct, end_of_port |-> TRUE, pc |-> "idle"]
    /\ found = <<>> /\ ended = "none" /\ unplugged = FALSE /\ plugs = 0
    /\ io_align = 1 /\ packet = <<>> /\ owned = <<>> /\ buffers = AppBuffers
    /\ phase = "none" /\ builds = 0

PassThruNext ==
    \/ iter_devices \/ next_id \/ next_port \/ next_device
    \/ \E devs \in Topologies : plug(devs)
    \/ attached = {} /\ \E a \in IoAligns : new_request(a)
    \/ phase = "build" /\ \E s \in Buffers[bus] : \/ \E b \in buffers : use_buffer(s, b)
                                                  \/ \E n \in RequestLens : with_buffer(s, n)
    \/ execute_command
    \/ drop_response

-----------------------------------------------------------------------------
(* Properties *)

PassThruTypeOK ==
    /\ ended \in {"none", "", "end", "panic"}
    /\ cursor.id \in Ids \union {BeforeFirst} /\ cursor.pmp \in Pmps \union {Direct}
    /\ phase \in {"none", "build", "response", "done", "failed", "panicked"}

\* An iteration to the end returns every attached device, and each once: behind
\* a port multiplier or not, whichever answer the firmware gives for a port
\* without one.
DevicesComplete ==
    ended = "end" /\ ~ unplugged => Range(found) = attached /\ Len(found) = Cardinality(attached)

\* "Must not happen according to spec!" (ata/pass_thru.rs:221, 259, and the
\* same arm in nvme and scsi): the iterators never ask for the device after
\* one the firmware did not return, for that port, also when devices come and
\* go meanwhile.
IterNeverPanics == ended # "panic"

\* What the packet of a request points to is allocated, at least as long as the
\* packet says and aligned as the controller asks: after any sequence of builder
\* calls, also when one buffer replaces another.
PacketBuffersLive ==
    phase \in {"build", "response"} =>
        \A s \in DOMAIN packet : packet[s].ptr # 0 =>
            \E b \in buffers : b.ptr = packet[s].ptr /\ b.size >= packet[s].len /\ b.align % io_align = 0

\* A request that is gone, by failure or with its response, leaves none of its
\* buffers allocated, and a request owns what it allocated.
RequestBuffersOwned ==
    phase # "panicked" => {b.ptr : b \in {c \in buffers : ~ c.app}} = OwnedNow \ {0}
=============================================================================
