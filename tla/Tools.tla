-------------------------------- MODULE Tools --------------------------------
(***************************************************************************)
(* The tools of the repository: the test harness, check-raw, fmt, and the   *)
(* generator of the device path code together with a program that uses what *)
(* it generated.  `cargo xtask` is one of them at a time; `part` says which *)
(***************************************************************************)
EXTENDS TestHarness, Xtask, DevicePath

VARIABLE part

toolsvars == <<part, harnessvars, rawvars, taskvars, dpvars>>

HarnessIdle ==
    /\ opt = [arch |-> "x86_64", network |-> FALSE, tpm |-> FALSE, ci |-> FALSE, os |-> "linux"]
    /\ host.pc = "start"

Init ==
    /\ HarnessInit /\ RawInit /\ TaskInit /\ PathsInit
    /\ \/ part = "run"
       \/ part = "check-raw" /\ HarnessIdle
       \/ part \in {"fmt", "gen-code"} /\ HarnessIdle
    /\ part # "fmt" => (tools = {} /\ tree.dirty = {} /\ Missing(tree) = {} /\ \A f \in Excluded : tree.headers[f] = 0)

Next ==
    \/ part = "run" /\ HarnessNext /\ UNCHANGED <<rawvars, taskvars, dpvars, part>>
    \/ part = "check-raw" /\ RawNext /\ UNCHANGED <<harnessvars, taskvars, dpvars, part>>
    \/ part = "fmt" /\ TaskNext /\ UNCHANGED <<harnessvars, rawvars, dpvars, part>>
    \/ part = "gen-code" /\ PathsNext /\ UNCHANGED <<harnessvars, rawvars, taskvars, part>>

\* The processes of a test run go on; nothing has to fail.
Fairness ==
    /\ WF_toolsvars(part = "run" /\ HostStep /\ UNCHANGED <<rawvars, taskvars, dpvars, part>>)
    /\ WF_toolsvars(part = "run" /\ VmStep /\ UNCHANGED <<rawvars, taskvars, dpvars, part>>)
    /\ WF_toolsvars(part = "run" /\ QemuStep /\ UNCHANGED <<rawvars, taskvars, dpvars, part>>)
    /\ WF_toolsvars(part = "run" /\ reverse_echo_service /\ UNCHANGED <<rawvars, taskvars, dpvars, part>>)

Spec == Init /\ [][Next]_toolsvars /\ Fairness

\* The state of the harness and of the device path builder has its type.
TypeOK == HarnessTypeOK /\ PathsTypeOK

\* `cargo xtask run` is right in both directions: Ok only if every test
\* passed, an error only if something went wrong; and it leaves no process or
\* thread behind (qemu.rs).
HarnessExact == TypeOK /\ VerdictSound /\ VerdictFair /\ NoOrphans

\* The commands that judge the sources: check-raw refuses an item exactly if
\* something it looks at does not suit, fmt --check accepts exactly a tree that
\* is formatted, and fmt makes it so, adds a header once and reports it when it
\* could not.
TasksExact == CheckRawExact /\ FmtFaithful /\ HeadersOnce

\* A device path that was built reads back: no byte is left unwritten, every
\* node has the kind and the fields it was built with, and the iterators over
\* nodes and instances and the conversion from bytes agree with what was
\* pushed.
PathsReadBack ==
    /\ AllBytesWritten /\ RoundTrip
    /\ NodeIterExact /\ InstancesPartition /\ PrefixesRefused

\* The three descriptions of a node agree byte by byte: the generated code in
\* uefi, the structures of uefi-raw, and what the generator makes of the
\* specification now.
LayoutsAgree == RawAgrees /\ GeneratedFresh

-----------------------------------------------------------------------------
\* For TLC: two files want a header, one between them is excluded.  Device
\* paths have nodes of every kind, with tails of up to two elements, one tail
\* that makes the node too big, and the variants of the hard drive and the
\* REST service nodes.
MCRustFiles == <<"lib", "snippet", "main">>

Tails(f) == {n * size_of[f.ty] : n \in (IF f.name = "adr" THEN 1 ELSE 0) .. 2} \union {64}
Slices(k) == SelectSeq(parse_spec[k].fields, is_slice)
Value(k, tail, variant) == [kind |-> k, tail |-> tail, variant |-> variant]

ValuesOf(k) ==
    LET p == packed_modules[k]
        slices == Slices(k)
    IN  CASE p = media_HardDrive -> {Value(k, <<>>, v) : v \in {"None", "Mbr", "Guid", "Unknown1", "Unknown3"}}
          [] p = messaging_RestService ->
                {Value(k, [vendor_guid_and_data |-> n], v) : n \in {0, 16, 17}, v \in DOMAIN RestServiceType}
          [] p = acpi_Expanded ->
                {Value(k, [hid_str |-> a, uid_str |-> b, cid_str |-> c], "") : a, b, c \in 1 .. 2}
          [] slices = <<>> -> {Value(k, <<>>, "")}
          [] OTHER -> {Value(k, slices[1].name :> n, "") : n \in Tails(slices[1])}

MCValues == UNION {ValuesOf(k) : k \in 1 .. Len(parse_spec)} \ {EndEntire}

\* The end of an instance and a node with a tail of one byte
IsFiller(x) ==
    \/ packed_modules[x.kind] = end_Instance
    \/ packed_modules[x.kind] = messaging_Uri /\ x.tail.value = 1

MCFillers == {x \in MCValues : IsFiller(x)}

\* A program that pushes the end node that finalize adds
MCEndNodes == {x \in MCValues : packed_modules[x.kind] = end_Instance} \union {EndEntire}
=============================================================================
