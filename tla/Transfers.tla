----------------------------- MODULE Transfers ------------------------------
(***************************************************************************)
(* Wrappers that lend the caller's buffer to the firmware for one call:     *)
(* PCI configuration access (proto/pci/), USB (proto/usb/io.rs), block and  *)
(* disk I/O (proto/media/), the serial port (proto/console/serial.rs),      *)
(* random numbers (proto/rng.rs), NVRAM of a network card                   *)
(* (proto/network/snp.rs).  What the firmware does follows from the         *)
(* arguments it gets, not from what the caller meant.                       *)
(***************************************************************************)
EXTENDS Integers, FiniteSets

CONSTANTS
    Lengths,        \* lengths of the caller's slice, in elements
    U16_SIZE             \* one more than the largest u16

VARIABLES
    lent,       \* the caller's slice: bytes, bytes of an element, is it to be filled?
    passed,     \* the arguments the firmware gets
    moved       \* what it did: bytes moved, in which direction, the result

xfervars == <<lent, passed, moved>>

NoCall == [op |-> "none", size |-> 0, write |-> FALSE, buffer |-> FALSE, inout |-> FALSE]
NotMoved == [bytes |-> 0, in |-> FALSE, status |-> "pending", ret |-> 0]

TransfersInit ==
    lent = [bytes |-> 0, unit |-> 1, fills |-> FALSE] /\ passed = NoCall /\ moved = NotMoved

\* op: the call; len and unit: the slice; size: the bytes the arguments name;
\* write: the device is the source of the data; inout: length is also a result.
Calls(op, len, unit, fills, size, write, inout) ==
    /\ passed = NoCall
    /\ lent' = [bytes |-> len * unit, unit |-> unit, fills |-> fills]
    /\ passed' = [op |-> op, size |-> size, write |-> write, buffer |-> op # "control_none", inout |-> inout]
    /\ UNCHANGED moved

(***************************************************************************)
(* PCI: the width code stands for a unit and a mode; a fill reads one unit. *)
(***************************************************************************)
encode_io_mode_and_unit(mode, unit) ==
    (CASE mode = "Normal" -> 0 [] mode = "Fifo" -> 4 [] mode = "Fill" -> 8)
    + (CASE unit = 1 -> 0 [] unit = 2 -> 1 [] unit = 4 -> 2 [] unit = 8 -> 3)

\* The bytes the firmware moves for a width code and a count.
UnitBytes(code, count) == (2 ^ (code % 4)) * (IF code \div 4 = 2 THEN (IF count = 0 THEN 0 ELSE 1) ELSE count)

Pci(op, mode, write, len, unit, count) ==
    Calls(op, len, unit, write, UnitBytes(encode_io_mode_and_unit(mode, unit), count), write, FALSE)

read_one(unit) == Pci("read_one", "Normal", TRUE, 1, unit, 1)
write_one(unit) == Pci("write_one", "Normal", FALSE, 1, unit, 1)
pci_read(len, unit) == Pci("read", "Normal", TRUE, len, unit, len)
write(len, unit) == Pci("write", "Normal", FALSE, len, unit, len)
fill_write(count, unit) == Pci("fill_write", "Fill", FALSE, 1, unit, count)
fifo_read(len, unit) == Pci("fifo_read", "Fifo", TRUE, len, unit, len)
fifo_write(len, unit) == Pci("fifo_write", "Fifo", FALSE, len, unit, len)

PciCall ==
    \E unit \in {1, 2, 4, 8} :
        \/ read_one(unit) \/ write_one(unit)
        \/ \E len \in Lengths : \/ pci_read(len, unit) \/ write(len, unit) \/ fill_write(len, unit)
                                \/ fifo_read(len, unit) \/ fifo_write(len, unit)

(***************************************************************************)
(* USB: bit 7 of the endpoint or of the request type gives the direction;   *)
(* the caller's own bit is overridden.  The length of a control request is  *)
(* cut to 16 bits.                                                          *)
(***************************************************************************)
In(address, in) == (address % 128) + (IF in THEN 128 ELSE 0) >= 128

control_transfer(transfer, request_type, len) ==
    CASE transfer = "None" -> Calls("control_none", 0, 1, FALSE, 0, request_type >= 128, FALSE)
      [] transfer = "DataIn" -> Calls("control", len, 1, TRUE, len % U16_SIZE, In(request_type, TRUE), FALSE)
      [] transfer = "DataOut" -> Calls("control", len, 1, FALSE, len % U16_SIZE, In(request_type, FALSE), FALSE)

sync_bulk_send(endpoint, len) == Calls("usb", len, 1, FALSE, len, In(endpoint, FALSE), TRUE)
sync_bulk_receive(endpoint, len) == Calls("usb", len, 1, TRUE, len, In(endpoint, TRUE), TRUE)
sync_interrupt_send(endpoint, len) == Calls("usb", len, 1, FALSE, len, In(endpoint, FALSE), TRUE)
sync_interrupt_receive(endpoint, len) == Calls("usb", len, 1, TRUE, len, In(endpoint, TRUE), TRUE)
sync_isochronous_send(endpoint, len) == Calls("isochronous", len, 1, FALSE, len, In(endpoint, FALSE), FALSE)
sync_isochronous_receive(endpoint, len) == Calls("isochronous", len, 1, TRUE, len, In(endpoint, TRUE), FALSE)

UsbCall ==
    \E len \in Lengths, address \in {1, 129} :
        \/ \E transfer \in {"None", "DataIn", "DataOut"} : control_transfer(transfer, address, len)
        \/ sync_bulk_send(address, len) \/ sync_bulk_receive(address, len)
        \/ sync_interrupt_send(address, len) \/ sync_interrupt_receive(address, len)
        \/ sync_isochronous_send(address, len) \/ sync_isochronous_receive(address, len)

(***************************************************************************)
(* The others.  read_nv_data fills a slice it takes as shared; the model    *)
(* does not tell shared from mutable slices.                                *)
(***************************************************************************)
read_blocks(len) == Calls("read_blocks", len, 1, TRUE, len, TRUE, FALSE)
write_blocks(len) == Calls("write_blocks", len, 1, FALSE, len, FALSE, FALSE)
read_disk(len) == Calls("read_disk", len, 1, TRUE, len, TRUE, FALSE)
write_disk(len) == Calls("write_disk", len, 1, FALSE, len, FALSE, FALSE)
serial_read(len) == Calls("serial", len, 1, TRUE, len, TRUE, TRUE)
serial_write(len) == Calls("serial", len, 1, FALSE, len, FALSE, TRUE)
get_rng(len) == Calls("get_rng", len, 1, TRUE, len, TRUE, FALSE)
get_info_bytes(len) == Calls("get_info", len, 16, TRUE, len * 16, TRUE, TRUE)
read_nv_data(len) == Calls("read_nv_data", len, 1, TRUE, len, TRUE, FALSE)
write_nv_data(len) == Calls("write_nv_data", len, 1, FALSE, len, FALSE, FALSE)

OtherCall ==
    \E len \in Lengths :
        \/ read_blocks(len) \/ write_blocks(len) \/ read_disk(len) \/ write_disk(len)
        \/ serial_read(len) \/ serial_write(len) \/ get_rng(len) \/ get_info_bytes(len)
        \/ read_nv_data(len) \/ write_nv_data(len)

(***************************************************************************)
(* The firmware: all the bytes named, or fewer where it reports how many;   *)
(* an algorithm list that does not fit is refused with its size.            *)
(***************************************************************************)
Whole(bytes) == bytes - (bytes % lent.unit)

Transferred ==
    \E bytes \in 0 .. passed.size, status \in {"ok", "error", "too small"} :
        /\ passed # NoCall /\ moved.status = "pending"
        /\ status = "too small" => passed.op = "get_info" /\ bytes = 0
        /\ status = "ok" /\ (~passed.inout \/ passed.op = "serial") => bytes = passed.size
        /\ bytes = Whole(bytes)
        /\ moved' = [bytes |-> bytes, in |-> passed.write, status |-> status,
                     ret |-> IF status = "too small" THEN passed.size + lent.unit ELSE bytes]
        /\ UNCHANGED <<lent, passed>>

TransfersNext == PciCall \/ UsbCall \/ OtherCall \/ Transferred

TransfersTypeOK == moved.status \in {"pending", "ok", "error", "too small"} /\ passed.size >= 0

\* The firmware moves no byte outside the slice the caller lent, and moves
\* data the way the wrapper says, whatever direction bit the caller put into a
\* USB endpoint or request type.  A call that succeeds and reports no count
\* has moved the whole slice, or none of it for a fill of no units; of control
\* transfers, whose length field has 16 bits, only the bound is claimed.
TransfersInSlice ==
    /\ moved.bytes <= lent.bytes
    /\ moved.bytes > 0 => (moved.in <=> lent.fills)
    /\ moved.status = "ok" /\ ~passed.inout /\ passed.op # "control" =>
           moved.bytes = lent.bytes \/ (passed.op = "fill_write" /\ moved.bytes = 0)
=============================================================================
