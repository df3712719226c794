------------------------------- MODULE TcgLog -------------------------------
(***************************************************************************)
(* The TPM event logs (uefi/src/proto/tcg/v1.rs, v2.rs): the iterators     *)
(* that walk the firmware's memory by pointer, and the events built for    *)
(* the firmware.  A driver may extend the log while it is read.            *)
(*                                                                         *)
(* Memory maps the address of a field to its width and value.              *)
(***************************************************************************)
EXTENDS Integers, Sequences, SequencesExt, FiniteSets

CONSTANTS
    DigestSize,     \* algorithms of the log header and their digest sizes
    Unlisted,       \* an algorithm that the header does not list
    DataLens,       \* lengths of event data
    LogHeaders,     \* the log headers that a firmware may have
    MaxEvents,
    UMax,           \* the largest u32
    Sizes           \* lengths of buffers and data handed to new_in_buffer

VARIABLES
    log,        \* the firmware's log: [format, header, events]
    snapshot,   \* the EventLog the application holds, and the events it had
    iter,       \* the iterator: its location, 0 for null
    returned,   \* the events it has returned
    wild,       \* history: a read met no field, or one of another width
    built       \* the last call of new_in_buffer: [version, buffer, data]

tcgvars == <<log, snapshot, iter, returned, wild, built>>

NullPtr == 0
Base == 100
Algs == DOMAIN DigestSize
SizeIn(alg) == IF alg \in Algs THEN DigestSize[alg] ELSE 1

-----------------------------------------------------------------------------
(* The firmware's memory *)

\* PcrEvent (v1) as a packed structure
V1Fields(e) == <<<<4, "pcr">>, <<4, "type">>, <<20, "digest">>, <<4, e.data>>, <<e.data, "data">>>>

V2Fields(e) ==
    <<<<4, "pcr">>, <<4, "type">>, <<4, Len(e.digests)>>>>
        \o FlattenSeq([i \in 1 .. Len(e.digests) |->
                <<<<2, e.digests[i]>>, <<SizeIn(e.digests[i]), "digest">>>>])
        \o <<<<4, e.data>>, <<e.data, "data">>>>

FieldWidth(fields) == FoldLeft(LAMBDA sum, f : sum + f[1], 0, fields)
Fields(l, e) == IF l.format = 1 THEN V1Fields(e) ELSE V2Fields(e)
HeaderSize(l) == IF l.format = 1 THEN 0 ELSE 32 + l.header.len

FieldsUpTo(l, n) == FlattenSeq([j \in 1 .. n |-> Fields(l, l.events[j])])
LogBase(l) == Base + HeaderSize(l)
Entry(l, i) == LogBase(l) + FieldWidth(FieldsUpTo(l, i - 1))

\* The field at an address: its width and value, none where nothing starts
NoField == <<0, "none">>
FieldAt(l, at) ==
    FoldLeft(LAMBDA acc, f : [next |-> acc.next + f[1],
                              found |-> IF acc.next = at /\ f[1] > 0 THEN f ELSE acc.found],
             [next |-> LogBase(l), found |-> NoField],
             FieldsUpTo(l, Len(l.events))).found

Wild(at, width) == FieldAt(log, at)[1] # width
Value(at) == FieldAt(log, at)[2]

-----------------------------------------------------------------------------
(* Reading one event: [ok, next, digests, data, wild] *)

Unread == [ok |-> FALSE, next |-> NullPtr, digests |-> <<>>, data |-> 0, wild |-> FALSE]

from_ptr_v1(ptr) ==
    [ok |-> TRUE, next |-> ptr + 32 + Value(ptr + 28), digests |-> <<>>, data |-> Value(ptr + 28),
     wild |-> Wild(ptr + 28, 4)]

\* EventLogHeader::new: the sizes it lists, or a header that is refused
header_new(h) ==
    LET vendor_info_size_byte_offset == 28 + 4 * Cardinality(Algs)
        end == vendor_info_size_byte_offset + 1 + h.vendor
    IN  IF h.pcr_index # 0 \/ ~ h.no_action \/ ~ h.zero_digest
           \/ h.len < 28 \/ ~ h.signature \/ h.len <= vendor_info_size_byte_offset \/ h.len < end
        THEN [ok |-> FALSE, size_in_bytes |-> 0]
        ELSE [ok |-> TRUE, size_in_bytes |-> 32 + end]

AlgAndDigestSize(alg) == 2 + DigestSize[alg]

\* The loop over the digests: where each starts; stops at an unknown algorithm
DigestWalk(ptr, count) ==
    FoldLeft(LAMBDA acc, i :
                IF ~ acc.ok THEN acc
                ELSE IF Wild(acc.at, 2) THEN [acc EXCEPT !.ok = FALSE, !.wild = TRUE]
                ELSE IF Value(acc.at) \notin Algs THEN [acc EXCEPT !.ok = FALSE]
                ELSE [acc EXCEPT !.at = @ + AlgAndDigestSize(Value(acc.at))],
             [ok |-> TRUE, at |-> ptr, wild |-> FALSE],
             [i \in 1 .. count |-> i])

\* The digests that PcrEventDigestIter::next returns from size bytes at ptr
digest_iter(ptr, size) ==
    FoldLeft(LAMBDA acc, i :
                LET at == ptr + acc.offset IN
                IF acc.offset + 2 > size \/ Value(at) \notin Algs \/ acc.offset + AlgAndDigestSize(Value(at)) > size
                THEN acc
                ELSE [offset |-> acc.offset + AlgAndDigestSize(Value(at)), algs |-> Append(acc.algs, Value(at))],
             [offset |-> 0, algs |-> <<>>],
             [i \in 1 .. size |-> i]).algs

\* PcrEvent::from_ptr (v2)
from_ptr_v2(ptr) ==
    IF Wild(ptr + 8, 4) THEN [Unread EXCEPT !.wild = TRUE]
    ELSE LET walk == DigestWalk(ptr + 12, Value(ptr + 8)) IN
         IF ~ walk.ok THEN [Unread EXCEPT !.wild = walk.wild]
         ELSE IF Wild(walk.at, 4) THEN [Unread EXCEPT !.wild = TRUE]
         ELSE [ok |-> TRUE, next |-> walk.at + 4 + Value(walk.at), digests |-> digest_iter(ptr + 12, walk.at - (ptr + 12)),
               data |-> Value(walk.at), wild |-> FALSE]

-----------------------------------------------------------------------------
(* Operations *)

Events == [digests : {<<>>} \union {<<a>> : a \in Algs \union {Unlisted}}
                     \union {<<a, b>> : a \in Algs, b \in Algs \union {Unlisted}},
           data : DataLens]

\* HashLogExtendEvent, by a driver or by the application
extend(e) ==
    /\ Len(log.events) < MaxEvents
    /\ log' = [log EXCEPT !.events = Append(@, e)]
    /\ UNCHANGED <<snapshot, iter, returned, wild, built>>

LastEntry == IF log.events = <<>> THEN NullPtr ELSE Entry(log, Len(log.events))

\* get_event_log_v1, get_event_log_v2, status_check
get_event_log ==
    /\ snapshot' = [held |-> TRUE, last_entry |-> LastEntry, events |-> log.events]
    /\ iter' = NullPtr /\ returned' = <<>>
    /\ UNCHANGED <<log, wild, built>>

\* EventLog::iter
log_iter ==
    /\ snapshot.held /\ iter = NullPtr /\ returned = <<>>
    /\ iter' = IF log.format = 1 THEN Base
               ELSE IF header_new(log.header).ok THEN Base + header_new(log.header).size_in_bytes
               ELSE NullPtr
    /\ UNCHANGED <<log, snapshot, returned, wild, built>>

\* Mutated form: the iterator stops before the last entry.
AtLast_before(event) == event.next = snapshot.last_entry

AtLast(event) == iter = snapshot.last_entry

\* EventLogIter::next
log_next ==
    /\ iter # NullPtr /\ snapshot.last_entry # NullPtr
    /\ LET event == IF log.format = 1 THEN from_ptr_v1(iter) ELSE from_ptr_v2(iter) IN
       /\ wild' = (wild \/ event.wild)
       /\ IF event.ok /\ ~ event.wild
          THEN /\ returned' = Append(returned, [digests |-> event.digests, data |-> event.data])
               /\ iter' = IF AtLast(event) THEN NullPtr ELSE event.next
          ELSE UNCHANGED <<returned, iter>>
    /\ UNCHANGED <<log, snapshot, built>>

-----------------------------------------------------------------------------
(* Building events: what new_in_buffer of v1 (32 bytes before the data) and   *)
(* of v2 (18 bytes) return for a buffer and data of these lengths             *)

new_in_buffer(version, buffer, data) ==
    LET required_size == IF version = 1 THEN 4 + 4 + 20 + 4 + data ELSE 4 + 14 + data IN
    IF version = 1 /\ data > UMax THEN [status |-> "INVALID_PARAMETER", size |-> 0]
    ELSE IF buffer < required_size THEN [status |-> "BUFFER_TOO_SMALL", size |-> required_size]
    ELSE IF version = 2 /\ required_size > UMax THEN [status |-> "INVALID_PARAMETER", size |-> 0]
    ELSE [status |-> "SUCCESS", size |-> required_size]

\* The bytes that the structure built covers: the packed fields and the data
BuiltSize(version, data) ==
    IF version = 1 THEN FieldWidth(V1Fields([digests |-> <<>>, data |-> data]))
    ELSE FieldWidth(<<<<4, "size">>, <<4, "header_size">>, <<2, "header_version">>, <<4, "pcr">>, <<4, "type">>,
                 <<data, "data">>>>)

NotBuilt == [version |-> 1, buffer |-> 0, data |-> 0]

new_event(version, buffer, data) ==
    /\ built' = [version |-> version, buffer |-> buffer, data |-> data]
    /\ UNCHANGED <<log, snapshot, iter, returned, wild>>

-----------------------------------------------------------------------------
TcgInit ==
    /\ log \in [format : {1, 2}, header : LogHeaders, events : {<<>>}]
    /\ log.format = 1 => log.header = CHOOSE h \in LogHeaders : TRUE
    /\ snapshot = [held |-> FALSE, last_entry |-> NullPtr, events |-> <<>>]
    /\ iter = NullPtr /\ returned = <<>> /\ wild = FALSE
    /\ built = NotBuilt

\* A bound: an application reads the log or builds events, not both.
TcgNext ==
    \/ \E e \in Events : built = NotBuilt /\ (log.format = 1 => e.digests = <<>>) /\ extend(e)
    \/ built = NotBuilt /\ get_event_log
    \/ log_iter
    \/ log_next
    \/ \E version \in {1, 2}, buffer, data \in Sizes :
        built = NotBuilt /\ log.events = <<>> /\ ~ snapshot.held /\ new_event(version, buffer, data)

-----------------------------------------------------------------------------
(* Properties *)

TcgTypeOK == iter \in Nat /\ Len(log.events) <= MaxEvents /\ snapshot.held \in BOOLEAN

\* The iterators read fields of the log and nothing else, whatever the header
\* holds and however the log grows under them.
LogReadsInBounds == ~ wild

\* The iterator returns the events that the log had when it was fetched, in
\* order and each once, with the digests and the data that were logged.  It
\* stops early only at an event with a digest that the header does not list.
LogSnapshotExact ==
    LET Seen(e) == [digests |-> e.digests, data |-> e.data]
    IN  /\ Len(returned) <= Len(snapshot.events)
        /\ \A i \in 1 .. Len(returned) : returned[i] = Seen(snapshot.events[i])
        /\ (returned # <<>> /\ iter = NullPtr) => Len(returned) = Len(snapshot.events)

\* new_in_buffer never writes past its buffer, and the size it asks for when the
\* buffer is too small is exactly enough, so that new_in_box succeeds with it.
BuiltEventsFit ==
    LET r == new_in_buffer(built.version, built.buffer, built.data)
        boxed == new_in_buffer(built.version, r.size, built.data)
    IN  /\ r.status = "SUCCESS" => r.size = BuiltSize(built.version, built.data) /\ r.size <= built.buffer
        /\ r.status = "BUFFER_TOO_SMALL" =>
                /\ r.size > built.buffer
                /\ boxed.status = "SUCCESS" \/ (boxed.status = "INVALID_PARAMETER" /\ r.size > UMax)
=============================================================================
