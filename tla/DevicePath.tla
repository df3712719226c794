----------------------------- MODULE DevicePath ------------------------------
(***************************************************************************)
(* Building device paths and reading them back                             *)
(* (uefi/src/proto/device_path/build.rs and mod.rs).                       *)
(*                                                                         *)
(* A program creates a builder over a vector or over a buffer, pushes      *)
(* nodes of any kind, finalizes, and may then build a second path from the *)
(* nodes it reads out of the first.                                        *)
(***************************************************************************)
EXTENDS DevicePathNodes, DevicePathSpec, FiniteSets, FiniteSetsExt

CONSTANTS
    U16_MAX,    \* the largest length of a node
    Capacities, \* sizes of the buffers handed to with_buf
    MaxNodes,   \* nodes pushed on one builder
    Values,     \* the nodes a program pushes: records of kind, tail, variant
    Fillers     \* those of them pushed beside a node of any other kind

ASSUME DevicePathAssumption == U16_MAX \in Nat /\ MaxNodes \in Nat /\ Capacities \subseteq Nat

VARIABLES
    storage,    \* "none", "Vec", or the capacity of the buffer, as a pair
    out,        \* the bytes written so far
    pushed,     \* history: the values behind them
    result,     \* of the last operation
    path,       \* the first finished device path, as bytes
    source      \* history: the values behind it

dpvars == <<storage, out, pushed, result, path, source>>

NoStorage == <<"none", 0>>
Vec == <<"Vec", 0>>
Buf(cap) == <<"Buf", cap>>

-----------------------------------------------------------------------------
(* Bytes *)

Byte(n) == <<"byte", n>>
Uninit == <<"uninit", 0>>
Named(name, n) == [i \in 1 .. n |-> <<name, i>>]
Zeros(n) == [i \in 1 .. n |-> Byte(0)]
Slice(s, from, to) == SubSeq(s, from + 1, to)

Total(s) == FoldLeft(LAMBDA x, y : x + y, 0, s)

-----------------------------------------------------------------------------
(* Builders *)

\* HardDrive
build_partition_signature(v) ==
    CASE v = "None" -> Zeros(16)
      [] v = "Mbr" -> Named("mbr", 4) \o Zeros(12)
      [] v = "Guid" -> Named("guid", 16)
      [] OTHER -> Named("signature", 16)

SignatureOfUnknown == [Unknown1 |-> 1, Unknown3 |-> 3]

build_signature_type(v) ==
    CASE v = "None" -> 0 [] v = "Mbr" -> 1 [] v = "Guid" -> 2 [] OTHER -> SignatureOfUnknown[v]

\* RestService
RestServiceType == [REDFISH |-> 1, ODATA |-> 2, VENDOR |-> 255]

build_vendor_guid_and_data(n) ==
    IF n = 0 THEN <<>> ELSE Named("vendor_guid", 16) \o Named("vendor_defined_data", n - 16)

\* The strings of acpi::Expanded end in a NUL.
Content(x, name, n) ==
    CASE name = "partition_signature" -> build_partition_signature(x.variant)
      [] name = "signature_type" -> <<Byte(build_signature_type(x.variant))>>
      [] name = "service_type" -> <<Byte(RestServiceType[x.variant])>>
      [] name = "vendor_guid_and_data" -> build_vendor_guid_and_data(n)
      [] name \in {"hid_str", "uid_str", "cid_str"} -> Named(name, n - 1) \o Zeros(1)
      [] OTHER -> Named(name, n)

Width(x, st) == IF st.op = "bytes" THEN x.tail[st.name] ELSE size_of[st.ty] * st.len

NodeSize(x) ==
    LET b == build_modules[x.kind] IN
    b.static_size + Total([j \in 1 .. Len(b.stmts) |-> IF b.stmts[j].op = "bytes" THEN Width(x, b.stmts[j]) ELSE 0])

\* DevicePathHeader::new, with the length in little-endian order
header_new(b, length) ==
    <<Byte(DeviceType[b.device_type]), Byte(DeviceSubType[b.sub_type]), Byte(length % 256), Byte(length \div 256)>>

\* Where a statement writes: a slice behind the slices before it
\* (dst_group_offset).
StartOf(x, stmts, j) ==
    stmts[j].at + (IF stmts[j].op # "bytes" THEN 0
                   ELSE Total([i \in 1 .. j - 1 |-> IF stmts[i].op = "bytes" THEN Width(x, stmts[i]) ELSE 0]))

\* Each statement overwrites its bytes of the node.
WriteStmt(x, stmts, node, j) ==
    LET from == StartOf(x, stmts, j)
        n == Width(x, stmts[j])
        bytes == IF stmts[j].op = "zero" THEN Zeros(n) ELSE Content(x, stmts[j].name, n)
    IN  [p \in 1 .. Len(node) |-> IF p > from /\ p <= from + n THEN bytes[p - from] ELSE node[p]]

write_data(x) ==
    LET b == build_modules[x.kind]
        fresh == header_new(b, NodeSize(x)) \o [i \in 1 .. NodeSize(x) - HeaderSize |-> Uninit]
    IN  FoldLeft(LAMBDA node, j : WriteStmt(x, b.stmts, node, j), fresh, [j \in 1 .. Len(b.stmts) |-> j])

-----------------------------------------------------------------------------
(* Reading bytes *)

length(node) == node[3][2] + 256 * node[4][2]
device_type(node) == node[1][2]
sub_type(node) == node[2][2]

is_end_entire(node) == device_type(node) = DeviceType.END /\ sub_type(node) = DeviceSubType.END_ENTIRE

\* DevicePathNode::from_ffi_ptr: the length in the header says where it ends.
from_ffi_ptr(bytes) == Slice(bytes, 0, length(bytes))

\* DevicePathNodeIterator::next; stop is one of the three conditions.
Stops(stop, node) ==
    CASE stop = "AnyEndNode" -> device_type(node) = DeviceType.END
      [] stop = "EndEntireNode" -> is_end_entire(node)
      [] stop = "NoMoreNodes" -> FALSE

Iterate(bytes, stop) ==
    LET rest[at \in 0 .. Len(bytes)] ==
            IF at = Len(bytes) THEN <<>>
            ELSE LET node == from_ffi_ptr(Slice(bytes, at, Len(bytes)))
                 IN  IF Stops(stop, node) THEN <<>> ELSE <<node>> \o rest[at + length(node)]
    IN  rest[0]

node_iter(bytes) == Iterate(bytes, "EndEntireNode")
instance_node_iter(bytes) == Iterate(bytes, "AnyEndNode")

\* Mutated form: only the end of the entire path ends an instance.
InstanceSize_entire(bytes) ==
    LET nodes == Iterate(bytes, "NoMoreNodes")
        ends == {i \in 1 .. Len(nodes) : is_end_entire(nodes[i])}
    IN  Total([i \in 1 .. Min(ends \union {Len(nodes)}) |-> length(nodes[i])])

\* The nodes up to and with the first end node.
InstanceSize(bytes) ==
    LET nodes == Iterate(bytes, "NoMoreNodes")
        ends == {i \in 1 .. Len(nodes) : device_type(nodes[i]) = DeviceType.END}
    IN  Total([i \in 1 .. Min(ends \union {Len(nodes)}) |-> length(nodes[i])])

\* DevicePathInstanceIterator
instance_iter(bytes) ==
    LET rest[at \in 0 .. Len(bytes)] ==
            IF at = Len(bytes) THEN <<>>
            ELSE LET n == InstanceSize(Slice(bytes, at, Len(bytes)))
                 IN  <<Slice(bytes, at, at + n)>> \o rest[at + n]
    IN  rest[0]

\* TryFrom<&[u8]> for DevicePathHeader and DevicePathNode
NodeFits(bytes) == HeaderSize <= Len(bytes) /\ length(bytes) <= Len(bytes)

\* size_in_bytes_from_slice, with -1 for InvalidLength; the size is that of
\* the DevicePath that try_from returns.
InvalidLength == -1

size_in_bytes_from_slice(bytes) ==
    LET total[at \in 0 .. Len(bytes)] ==
            LET rest == Slice(bytes, at, Len(bytes)) IN
            IF ~ NodeFits(rest) THEN InvalidLength
            ELSE IF at + length(rest) > Len(bytes) THEN InvalidLength
            ELSE IF is_end_entire(rest) THEN at + length(rest)
            ELSE total[at + length(rest)]
    IN  total[0]

-----------------------------------------------------------------------------
(* Nodes of a kind *)

FieldOffset(fields, i) == HeaderSize + Total([j \in 1 .. i - 1 |-> SizeOf(fields[j])])
StructSize(fields) == FieldOffset(fields, Len(fields) + 1)
ElemSize(p) == size_of[Last(p.fields).ty]

\* TryFrom<&DevicePathNode> for a packed structure
TryFrom(p, node) ==
    /\ device_type(node) = DeviceType[p.device_type] /\ sub_type(node) = DeviceSubType[p.sub_type]
    /\ IF p.static_size = NoSlice
       THEN Len(node) = StructSize(p.fields)
       ELSE Len(node) >= p.static_size /\ (Len(node) - p.static_size) % ElemSize(p) = 0

\* DevicePathNodeEnum::try_from: the structures a node converts to
as_enum(node) ==
    {p \in UNION {{arms[i][2][st] : st \in {st \in DOMAIN arms[i][2] :
                    device_type(node) = DeviceType[arms[i][1]] /\ sub_type(node) = DeviceSubType[st]}} :
                  i \in 1 .. Len(arms)} : TryFrom(p, node)}

\* The get methods: a field of the structure, a slice up to the end
Getter(p, node, i) ==
    LET from == FieldOffset(p.fields, i)
    IN  Slice(node, from, IF p.fields[i].dyn THEN Len(node) ELSE from + SizeOf(p.fields[i]))

FieldNamed(p, name) == CHOOSE i \in 1 .. Len(p.fields) : p.fields[i].name = name

\* HardDrive::partition_signature
partition_signature(node) ==
    LET bytes == Getter(media_HardDrive, node, FieldNamed(media_HardDrive, "partition_signature"))
        type == Getter(media_HardDrive, node, FieldNamed(media_HardDrive, "signature_type"))[1][2]
    IN  CASE type = 0 -> <<"None", <<>>>>
          [] type = 1 -> <<"Mbr", SubSeq(bytes, 1, 4)>>
          [] type = 2 -> <<"Guid", bytes>>
          [] OTHER -> <<"Unknown", bytes>>

\* RestService::vendor_guid_and_data, as the guid and the data
vendor_guid_and_data(node) ==
    LET bytes == Slice(node, messaging_RestService.static_size, Len(node))
        type == Getter(messaging_RestService, node, 1)[1][2]
    IN  IF type = RestServiceType.VENDOR /\ Len(bytes) >= size_of.Guid
        THEN <<SubSeq(bytes, 1, 16), SubSeq(bytes, 17, Len(bytes))>>
        ELSE <<>>

\* acpi::Expanded: the three strings by the NULs between them
acpi_expanded_null_indices(data) == SetToSortSeq({i \in 1 .. Len(data) : data[i] = Byte(0)}, <)

get_acpi_expanded_substr(data, string_index) ==
    LET n == acpi_expanded_null_indices(data)
        has(k) == Len(n) > k
        start == IF string_index = 0 THEN 0 ELSE IF has(string_index - 1) THEN n[string_index] ELSE Len(data)
        end == IF has(string_index) THEN n[string_index + 1] ELSE Len(data)
    IN  Slice(data, start, end)

-----------------------------------------------------------------------------
(* The builder *)

PathsInit ==
    /\ storage = NoStorage
    /\ out = <<>> /\ pushed = <<>>
    /\ result = "Ok"
    /\ path = <<>> /\ source = <<>>

Start(s) ==
    /\ storage = NoStorage
    /\ storage' = s /\ out' = <<>> /\ pushed' = <<>> /\ result' = "Ok"
    /\ UNCHANGED <<path, source>>

with_vec == Start(Vec)
with_buf == \E cap \in Capacities : Start(Buf(cap))

\* get_mut(offset .. offset + size); a vector grows.
Fits(size) == storage[1] = "Vec" \/ Len(out) + size <= storage[2]

\* DevicePathBuilder::push with the node's bytes.  An error drops the builder.
PushBytes(size, bytes, x) ==
    LET error == IF size > U16_MAX THEN "NodeTooBig" ELSE IF ~ Fits(size) THEN "BufferTooSmall" ELSE "Ok" IN
    /\ result' = error
    /\ out' = IF error = "Ok" THEN out \o bytes ELSE out
    /\ pushed' = IF error = "Ok" THEN Append(pushed, x) ELSE pushed

Building == storage[1] \in {"Vec", "Buf"} /\ result = "Ok"

\* size_in_bytes of a RestService asserts that only a VENDOR service has data.
AssertFails(x) ==
    "vendor_guid_and_data" \in DOMAIN x.tail /\ x.tail["vendor_guid_and_data"] > 0 /\ x.variant # "VENDOR"

push(x) ==
    /\ Building /\ Len(pushed) < MaxNodes
    /\ x \in Fillers \/ (path = <<>> /\ Range(pushed) \subseteq Fillers)   \* a bound
    /\ IF AssertFails(x)
       THEN result' = "panic" /\ UNCHANGED <<out, pushed>>
       ELSE PushBytes(NodeSize(x), write_data(x), x)
    /\ UNCHANGED <<storage, path, source>>

\* BuildNode for &DevicePathNode
NodeCopy(node) == node

\* A node that the program reads out of the first path is pushed again.
push_node(i) ==
    /\ Building /\ Len(pushed) < MaxNodes
    /\ i \in 1 .. Len(node_iter(path))
    /\ LET node == node_iter(path)[i] IN PushBytes(length(node), NodeCopy(node), source[i])
    /\ UNCHANGED <<storage, path, source>>

EndEntire == [kind |-> CHOOSE k \in 1 .. Len(build_modules) : build_modules[k] = build_end_Entire,
              tail |-> <<>>, variant |-> ""]

\* push of the end node; the first path is kept and its builder dropped.
finalize ==
    /\ Building
    /\ PushBytes(NodeSize(EndEntire), write_data(EndEntire), EndEntire)
    /\ IF result' = "Ok" /\ path = <<>>
       THEN path' = out' /\ source' = pushed' /\ storage' = NoStorage
       ELSE UNCHANGED <<path, source>> /\ storage' = IF result' = "Ok" THEN <<"done", 0>> ELSE storage

PathsNext ==
    \/ with_vec
    \/ with_buf
    \/ \E x \in Values : push(x)
    \/ \E i \in 1 .. Len(source) : push_node(i)
    \/ finalize

-----------------------------------------------------------------------------
(* Properties *)

PathsTypeOK ==
    /\ storage \in {NoStorage, Vec, <<"done", 0>>} \union {Buf(c) : c \in Capacities}
    /\ result \in {"Ok", "NodeTooBig", "BufferTooSmall", "panic"}
    /\ storage[1] = "Buf" => Len(out) <= storage[2]
    /\ Len(pushed) <= MaxNodes + 1 /\ Len(source) <= MaxNodes + 1
    /\ Len(out) = Total([i \in 1 .. Len(pushed) |-> NodeSize(pushed[i])])
    /\ Len(path) = Total([i \in 1 .. Len(source) |-> NodeSize(source[i])])

\* The bytes of the i-th node pushed, by the sizes the builders announced.
BytesOf(i) ==
    LET from == Total([j \in 1 .. i - 1 |-> NodeSize(pushed[j])]) IN Slice(out, from, from + NodeSize(pushed[i]))

\* A PartitionSignature with the type number of a known one is that one.
Signature(v) ==
    CASE v = "None" -> <<"None", <<>>>>
      [] v = "Mbr" -> <<"Mbr", Named("mbr", 4)>>
      [] v = "Guid" -> <<"Guid", Named("guid", 16)>>
      [] v = "Unknown1" -> <<"Mbr", Named("signature", 4)>>
      [] v = "Unknown3" -> <<"Unknown", Named("signature", 16)>>

\* The fields of a node are those of the value x it was built from.
ReadsBack(x, node) ==
    LET p == packed_modules[x.kind]
        strings == <<"hid_str", "uid_str", "cid_str">>
    IN
    /\ as_enum(node) = {p}
    /\ \A i \in 1 .. Len(p.fields) :
        LET name == p.fields[i].name
            n == IF name \in DOMAIN x.tail THEN x.tail[name] ELSE SizeOf(p.fields[i])
        IN  \/ name = "_reserved" /\ Getter(p, node, i) = Zeros(n)
            \/ p = acpi_Expanded /\ name = "data"
            \/ Getter(p, node, i) = Content(x, name, n)
    /\ p = media_HardDrive => partition_signature(node) = Signature(x.variant)
    /\ p = messaging_RestService =>
        LET n == x.tail["vendor_guid_and_data"] IN
        vendor_guid_and_data(node) = IF n = 0 THEN <<>>
                                     ELSE <<Named("vendor_guid", 16), Named("vendor_defined_data", n - 16)>>
    /\ p = acpi_Expanded => \A s \in 1 .. 3 :
        get_acpi_expanded_substr(Getter(p, node, 4), s - 1) = Content(x, strings[s], x.tail[strings[s]])

\* Every node of a path converts to the kind it was built as, and to no other,
\* and its get methods return what the builder was given: the packed structures,
\* the builders and the arms of DevicePathNodeEnum agree for every kind.  This
\* includes a node that was copied from another path.
RoundTrip == \A i \in 1 .. Len(pushed) : ReadsBack(pushed[i], BytesOf(i))

\* write_data leaves no byte of a node uninitialized: what the unsafe trait
\* BuildNode demands and finalize relies on when it assumes the buffer is
\* initialized.
AllBytesWritten == \A i \in 1 .. Len(out) : out[i] # Uninit

\* The structure that uefi-raw declares for a node sees the same bytes under
\* the same names as the packed structure of uefi, the start of a slice
\* included.
RawAgrees ==
    \A i \in 1 .. Len(pushed) :
        LET p == packed_modules[pushed[i].kind].fields
            r == raw_modules[pushed[i].kind]
        IN  /\ Len(r) = Len(p)
            /\ \A j \in 1 .. Len(r) : r[j].name = p[j].name /\ FieldOffset(r, j) = FieldOffset(p, j)
            /\ StructSize(r) = build_modules[pushed[i].kind].static_size

Finished == result = "Ok" /\ pushed # <<>> /\ Last(pushed) = EndEntire /\ storage[1] \in {"none", "done"}

\* "An error will be returned if an END_ENTIRE node is passed to this function,
\* as that node will be added when `finalize` is called" (build.rs:101): none is
\* in the path before.  push never looks at the kind of the node.
EndEntireRefused == Building => EndEntire \notin Range(pushed)

\* node_iter returns the nodes in the order they were pushed, each with all its
\* bytes, and stops before the END_ENTIRE of finalize.
NodeIterExact ==
    Finished => node_iter(out) = [i \in 1 .. Len(pushed) - 1 |-> BytesOf(i)]

\* instance_iter cuts a path into instances that together are the path; each
\* ends in an end node, which is its only one.
InstancesPartition ==
    Finished =>
        LET is == instance_iter(out) IN
        /\ FlattenSeq(is) = out
        /\ \A k \in 1 .. Len(is) :
            LET nodes == Iterate(is[k], "NoMoreNodes") IN
            /\ nodes # <<>> /\ device_type(Last(nodes)) = DeviceType.END
            /\ instance_node_iter(is[k]) = Front(nodes)

\* A slice of bytes converts to a DevicePath exactly if it holds a path up to
\* its END_ENTIRE, and the DevicePath is that part of it.
PrefixesRefused ==
    Finished =>
        \A n \in 0 .. Len(out) :
            size_in_bytes_from_slice(Slice(out, 0, n)) = IF n < Len(out) THEN InvalidLength ELSE Len(out)

\* The code in the repository is what the generator makes of the specification
\* of the node, and the size the specification gives is the sum of its fields:
\* what xtask gen-code --check and Node::parse assert.
GeneratedFresh ==
    \A i \in 1 .. Len(pushed) :
        LET k == pushed[i].kind
            n == parse_spec[k]
        IN  /\ calculate_static_size(n) = n.static_size
            /\ gen_packed_code(n) = packed_modules[k]
            /\ gen_builder_code(n) = build_modules[k]
            /\ gen_raw_struct(n) = raw_modules[k]
=============================================================================
