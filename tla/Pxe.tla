--------------------------------- MODULE Pxe ---------------------------------
(***************************************************************************)
(* The PXE base code protocol (proto/network/pxe.rs): the arguments of its  *)
(* file and datagram calls, the parser of directory listings, the discovery *)
(* information built in a caller's buffer, and the structures that are cast *)
(* to and from those of uefi-raw.                                           *)
(***************************************************************************)
EXTENDS Integers, Sequences, FiniteSets, FiniteSetsExt

CONSTANTS
    MaxPieces,      \* the NUL-separated pieces in a listing
    MaxItems,       \* how many items a consumer asks for
    MaxServers,     \* the servers an application lists in a DiscoverInfo
    ServerMax,      \* the most the count of a DiscoverInfo holds (u16::MAX)
    PxeLens         \* the lengths of the buffers for calls

VARIABLES
    pxe,        \* what is going on: [op |-> "idle"] or a call with its arguments
    pieces,     \* split_inclusive(0) of the bytes the firmware returned
    at_piece,   \* the next piece
    items       \* what the iterator has yielded

pxevars == <<pxe, pieces, at_piece, items>>

(***************************************************************************)
(* Layouts (repr(C)): a field is <<size, alignment>>.                       *)
(***************************************************************************)
Bytes(n) == <<n, 1>>
U16 == <<2, 2>>
U32 == <<4, 4>>
Array(n, field) == <<n * field[1], field[2]>>
Up(n, align) == ((n + align - 1) \div align) * align

AlignOf(fields) == Max({fields[k][2] : k \in DOMAIN fields} \union {1})
Offsets(fields) ==
    LET end[k \in 0..Len(fields)] ==
            IF k = 0 THEN 0 ELSE Up(end[k - 1], fields[k][2]) + fields[k][1]
    IN  [k \in DOMAIN fields |-> Up(end[k - 1], fields[k][2])]
SizeOf(fields) ==
    LET n == Len(fields)
    IN  Up(Offsets(fields)[n] + fields[n][1], AlignOf(fields))
Struct(fields) == <<SizeOf(fields), AlignOf(fields)>>
Union(members) ==
    LET align == Max({m[2] : m \in members})
    IN  <<Up(Max({m[1] : m \in members}), align), align>>

\* proto/network/mod.rs: repr(C, align(4)) around [u8; 16]
IpAddress == <<16, 4>>
\* uefi-raw: a union of [u32; 4], Ipv4Address and Ipv6Address
RawIpAddress == Union({Array(4, U32), Bytes(4), Bytes(16)})
MacAddress == Bytes(32)

DiscoverInfo == <<Bytes(1), Bytes(1), Bytes(1), Bytes(1), IpAddress, U16>>
Server == <<U16, Bytes(1), Bytes(1), IpAddress>>
MtftpInfo == <<IpAddress, U16, U16, U16, U16>>
IpFilter == <<Bytes(1), Bytes(1), U16, Array(8, IpAddress)>>
DhcpV4Packet ==
    <<Bytes(1), Bytes(1), Bytes(1), Bytes(1), U32, U16, U16, Bytes(4), Bytes(4),
      Bytes(4), Bytes(4), Bytes(16), Bytes(64), Bytes(128), U32, Bytes(56)>>
DhcpV6Packet == <<Bytes(1), Bytes(3), Bytes(1024)>>
Packet == <<Union({Bytes(1472), Struct(DhcpV4Packet), Struct(DhcpV6Packet)})>>
ArpEntry == <<IpAddress, MacAddress>>
RouteEntry == <<IpAddress, IpAddress, IpAddress>>
IcmpErrorEcho == <<U16, U16>>
IcmpErrorUnion == Union({U32, Struct(IcmpErrorEcho)})
IcmpError == <<Bytes(1), Bytes(1), U16, IcmpErrorUnion, Bytes(494)>>
TftpError == <<Bytes(1), Bytes(127)>>

PxeBaseCodeDiscoverInfo ==
    <<Bytes(1), Bytes(1), Bytes(1), Bytes(1), RawIpAddress, U16>>
PxeBaseCodeSrvlist == <<U16, Bytes(1), Bytes(1), RawIpAddress>>
PxeBaseCodeMtftpInfo == <<RawIpAddress, U16, U16, U16, U16>>
PxeBaseCodeIpFilter == <<Bytes(1), Bytes(1), U16, Array(8, RawIpAddress)>>
PxeBaseCodeDhcpV4Packet ==
    <<Bytes(1), Bytes(1), Bytes(1), Bytes(1), U32, U16, U16, Bytes(4), Bytes(4),
      Bytes(4), Bytes(4), Bytes(16), Bytes(64), Bytes(128), U32, Bytes(56)>>
PxeBaseCodeDhcpV6Packet == <<Bytes(1), Bytes(3), Bytes(1024)>>
PxeBaseCodePacket ==
    <<Union({Bytes(1472), Struct(PxeBaseCodeDhcpV4Packet),
             Struct(PxeBaseCodeDhcpV6Packet)})>>
PxeBaseCodeArpEntry == <<RawIpAddress, MacAddress>>
PxeBaseCodeRouteEntry == <<RawIpAddress, RawIpAddress, RawIpAddress>>
PxeBaseCodeIcmpErrorUnion == Union({U32, Struct(<<U16, U16>>)})
PxeBaseCodeIcmpError ==
    <<Bytes(1), Bytes(1), U16, PxeBaseCodeIcmpErrorUnion, Bytes(494)>>
PxeBaseCodeTftpError == <<Bytes(1), Bytes(127)>>

\* The pairs a reference of one is cast to a reference or pointer of.  The
\* server list behind a DiscoverInfo starts where its elements are aligned.
Casts ==
    {<<DiscoverInfo, PxeBaseCodeDiscoverInfo>>, <<Server, PxeBaseCodeSrvlist>>,
     <<MtftpInfo, PxeBaseCodeMtftpInfo>>, <<IpFilter, PxeBaseCodeIpFilter>>,
     <<DhcpV4Packet, PxeBaseCodeDhcpV4Packet>>,
     <<DhcpV6Packet, PxeBaseCodeDhcpV6Packet>>, <<Packet, PxeBaseCodePacket>>,
     <<ArpEntry, PxeBaseCodeArpEntry>>, <<RouteEntry, PxeBaseCodeRouteEntry>>,
     <<IcmpError, PxeBaseCodeIcmpError>>, <<TftpError, PxeBaseCodeTftpError>>}

-----------------------------------------------------------------------------
PxeInit == pxe = [op |-> "idle"] /\ pieces = <<>> /\ at_piece = 0 /\ items = <<>>

Invoke(call) ==
    /\ pxe.op = "idle"
    /\ pxe' = call
    /\ UNCHANGED <<pieces, at_piece, items>>

\* A structure is cast on the way to the firmware (discover, set_ip_filter,
\* set_packets, mtftp_*) or from its mode (dhcp_discover, arp_cache, ...).
cast == \E c \in Casts : Invoke([op |-> "cast", uefi |-> c[1], raw |-> c[2]])

(***************************************************************************)
(* DiscoverInfo::new_in_buffer: the fields one behind the other, two bytes  *)
(* skipped, the servers.  `extent` is the end of what is written, or of the *)
(* structure the returned reference covers.                                 *)
(***************************************************************************)
RequiredSize(servers) == 4 + IpAddress[1] + 2 + servers * SizeOf(Server)
Extent(servers) == 4 + IpAddress[1] + 2 + 2 + servers * SizeOf(Server)

DiscoverInfo_new_in_buffer ==
    \E servers \in 0..MaxServers, len \in 0..(24 + 20 * MaxServers) :
        Invoke(CASE servers > ServerMax -> [op |-> "panic", cause |-> "servers"]
                 [] servers <= ServerMax /\ len < RequiredSize(servers) -> [op |-> "too_small"]
                 [] OTHER -> [op |-> "discover", servers |-> servers, room |-> len,
                              extent |-> Extent(servers)])

(***************************************************************************)
(* The calls of mtftp and udp.  ptr: whose memory the firmware is given;    *)
(* size: how much of it.                                                    *)
(***************************************************************************)
Null == [ptr |-> "null", size |-> 0]
Slice(len) == [ptr |-> "buffer", size |-> len]

Mtftp(op, len, arg, info, filename, dont_use) ==
    Invoke([op |-> op, len |-> len, ptr |-> arg.ptr, size |-> arg.size,
           info |-> info, filename |-> filename, dont_use |-> dont_use])

Family == {"tftp", "mtftp"}
get_file_size(family) ==
    Mtftp("get_file_size", 0, Null, family = "mtftp", TRUE, FALSE)
\* buffer: Option<&mut [u8]>
NullBuffer == TRUE
read_file(family) ==
    \/ \E len \in PxeLens :
          Mtftp("read_file", len, Slice(len), family = "mtftp", TRUE, FALSE)
    \/ Mtftp("read_file", 0, Null, family = "mtftp", TRUE, NullBuffer)
tftp_write_file ==
    \E len \in PxeLens :
        Mtftp("write_file", len, Slice(len), FALSE, TRUE, FALSE)

\* udp_write and udp_read: the header's length and pointer come from one Option.
udp(op) ==
    \E len \in PxeLens, header \in {Null} \union {Slice(n) : n \in PxeLens} :
        Invoke([op |-> op, len |-> len, ptr |-> "buffer", size |-> len,
               header |-> header.ptr, header_size |-> header.ptr # "null"])

(***************************************************************************)
(* Directory listings.  A at_piece is the text up to and with a NUL; only the  *)
(* last may lack it.  An entry is a name, the multicast address of the file *)
(* (mtftp), and the file information; a lone NUL ends the listing.          *)
(***************************************************************************)
Piece == [kind : {"text", "ip", "info", "notutf8"}, nul : BOOLEAN]
            \union [kind : {"end"}, nul : {TRUE}]
Listings ==
    UNION {{s \in [1..n -> Piece] : \A k \in 1..n - 1 : s[k].nul} : n \in 0..MaxPieces}

\* The firmware returns the listing, or a size beyond the buffer.
read_dir(family) ==
    /\ pxe.op = "idle"
    /\ \/ \E s \in Listings : pieces' = s /\ pxe' = [op |-> "dir", family |-> family]
       \/ pxe' = [op |-> "panic", cause |-> "size"] /\ UNCHANGED pieces
    /\ at_piece' = 1 /\ items' = <<>>

Width == IF pxe.family = "mtftp" THEN 3 ELSE 2
\* The kinds of the pieces behind a name.
Expected == IF pxe.family = "mtftp" THEN <<"ip", "info">> ELSE <<"info">>

\* What parsing a piece can give: split_last drops its last byte, the NUL or
\* the last character of a piece that lacks it.
Parse(piece, kind) ==
    IF ~piece.nul THEN {"clipped", "err"}
    ELSE IF piece.kind = kind THEN {"ok"} ELSE {"err"}

Yield(item, next) ==
    items' = Append(items, item) /\ at_piece' = next /\ UNCHANGED <<pxe, pieces>>

\* The item that pieces `at_piece`, `at_piece + 1`... give, read one after the other: an
\* error leaves the following pieces where they are.
Filename(k) == pieces[k].kind = "end"

parse_next ==
    /\ pxe.op = "dir" /\ Len(items) < MaxItems
    /\ IF at_piece > Len(pieces) THEN Yield([is |-> "err", at |-> at_piece], at_piece)
       ELSE IF Filename(at_piece)
       THEN pxe' = [pxe EXCEPT !.op = "end"] /\ at_piece' = at_piece + 1 /\ UNCHANGED <<pieces, items>>
       ELSE IF ~pieces[at_piece].nul
       THEN pxe' = [op |-> "panic", cause |-> "name"] /\ UNCHANGED <<pieces, at_piece, items>>
       ELSE LET last == Len(Expected)
                Results(k) == IF at_piece + k > Len(pieces) THEN {"err"}
                              ELSE Parse(pieces[at_piece + k], Expected[k])
                Good(k) == Results(k) # {"err"}
            IN  \/ \E k \in 1..last :
                      /\ "err" \in Results(k) /\ \A j \in 1..k - 1 : Good(j)
                      /\ Yield([is |-> "err", at |-> at_piece], Min({at_piece + k, Len(pieces)}) + 1)
                \/ /\ \A k \in 1..last : Good(k)
                   /\ Yield([is |-> IF pieces[at_piece + last].nul THEN "ok" ELSE "clipped",
                             at |-> at_piece], at_piece + Width)

Finish ==
    /\ pxe.op \notin {"idle", "panic"}
    /\ pxe' = [op |-> "idle"] /\ pieces' = <<>> /\ at_piece' = 0 /\ items' = <<>>

PxeNext ==
    \/ cast \/ DiscoverInfo_new_in_buffer \/ tftp_write_file \/ parse_next \/ Finish
    \/ \E family \in Family :
          get_file_size(family) \/ read_file(family) \/ read_dir(family)
    \/ udp("udp_write") \/ udp("udp_read")

-----------------------------------------------------------------------------
PxeTypeOK ==
    /\ at_piece \in 0..MaxPieces + 3
    /\ Len(items) <= MaxItems
    /\ pxe.op \in {"idle", "cast", "discover", "too_small", "get_file_size", "read_file",
                   "write_file", "udp_write", "udp_read", "dir", "end", "panic"}

(***************************************************************************)
(* A structure of the crate and the raw structure it is cast to have the    *)
(* same size and fields at the same offsets, and no alignment that one has  *)
(* is missing in the other.                                                 *)
(***************************************************************************)
CastsAgree ==
    pxe.op = "cast" =>
        /\ Offsets(pxe.uefi) = Offsets(pxe.raw)
        /\ Struct(pxe.uefi) = Struct(pxe.raw)

(***************************************************************************)
(* DiscoverInfo::new_in_buffer stays inside the buffer, which it refuses    *)
(* "if buffer.len() < required_size" (pxe.rs:627).  The two bytes of "Align *)
(* server list (4-byte alignment)" (pxe.rs:640) are not in required_size.   *)
(***************************************************************************)
DiscoverInfoFits == pxe.op = "discover" => pxe.extent <= pxe.room

(***************************************************************************)
(* The firmware is given memory exactly as the caller has it: a null        *)
(* pointer only with size zero, and for reading a file only together with   *)
(* dont_use_buffer; a header's pointer and length together; a file name     *)
(* always.                                                                  *)
(***************************************************************************)
CallArgumentsMatch ==
    /\ "len" \in DOMAIN pxe /\ "size" \in DOMAIN pxe => pxe.size = pxe.len
    /\ pxe.op = "read_file" => (pxe.ptr = "null" <=> pxe.dont_use) /\ pxe.filename
    /\ pxe.op \in {"udp_read", "udp_write"} => (pxe.header # "null" <=> pxe.header_size)

(***************************************************************************)
(* Iterating over a listing: up to the first error the items are the        *)
(* entries of the listing in order, none left out and none cut short unless *)
(* the listing itself is cut; the iterator ends only at the final entry, so *)
(* a well-formed listing is given completely and one without final entry    *)
(* never ends without an error.                                             *)
(***************************************************************************)
ListingExact ==
    pxe.op \in {"dir", "end"} =>
        LET clean == \A k \in DOMAIN items : items[k].is # "err"
            Entry(k) == 1 + (k - 1) * Width
        IN  /\ \A k \in DOMAIN items :
                  (\A j \in 1..k : items[j].is # "err") =>
                      /\ items[k].at = Entry(k)
                      /\ pieces[Entry(k)].kind # "end"
                      /\ items[k].is = "clipped" => ~pieces[Len(pieces)].nul
            /\ pxe.op = "end" /\ clean => pieces[Entry(Len(items) + 1)].kind = "end"
=============================================================================
