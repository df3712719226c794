----------------------------- MODULE TestHarness -----------------------------
(***************************************************************************)
(* `cargo xtask run`: the host side (xtask/src/qemu.rs, pipe.rs, net.rs,   *)
(* tpm.rs, disk.rs), QEMU, and the test runner inside the virtual machine  *)
(* (uefi-test-runner/src/main.rs).  They talk over a serial line, the QEMU *)
(* monitor and UDP.                                                        *)
(*                                                                         *)
(* The tests of the runner are the steps of Script; a step that fails is   *)
(* the panic of a test.  At most MaxFaults things go wrong, timeouts apart.*)
(***************************************************************************)
EXTENDS Integers, Sequences, FiniteSets, SequencesExt

CONSTANTS
    Archs,      \* architectures
    Systems,    \* operating systems of the host
    Attempts,   \* how often the PXE test reads
    MaxFaults   \* faults in one behaviour

VARIABLES
    opt,        \* the options: [arch, network, tpm, ci, os]
    host,       \* run_qemu: [pc, complete, logging, res, compared]
    outcome,    \* how run_qemu ended
    vm,         \* the virtual machine: [pc, step, reads, console]
    passed,     \* the steps the runner has passed
    qemu,       \* the process: "none", "starting", "running" or its exit code
    toHost,     \* lines on their way to the host
    toVm,       \* replies on their way to the runner
    monitor,    \* what the host can read from the monitor
    udp,        \* the packet of the PXE test: "none", "sent", "echoed"
    echo,       \* the thread of EchoService
    stop_requested,
    swtpm,      \* is the TPM emulator running?
    disk,       \* the files of the test disk
    faults      \* what went wrong

harnessvars == <<opt, host, outcome, vm, passed, qemu, toHost, toVm, monitor, udp, echo, stop_requested, swtpm, disk, faults>>

hostvars == <<host, outcome, stop_requested, swtpm>>
vmvars == <<vm, passed, disk>>
wires == <<toHost, toVm, monitor, udp>>

\* The features run_vm_tests builds the runner with
Features ==
    (IF opt.network THEN {"pxe"} ELSE {}) \cup (IF opt.tpm THEN {"tpm"} ELSE {})
        \cup (IF opt.arch # "aarch64" THEN {"debug_support"} ELSE {})
        \cup (IF opt.arch # "aarch64" /\ opt.os = "linux" /\ ~ opt.ci THEN {"multi_processor"} ELSE {})

\* console::test, media::test, network::test and tcg::test of the runner,
\* then shutdown; nothing can be compared on aarch64
Script ==
    (IF opt.arch = "aarch64" THEN <<>> ELSE <<"screenshot">>) \o <<"disk">>
        \o (IF "pxe" \in Features THEN <<"pxe">> ELSE <<>>)
        \o (IF Features \ {"pxe"} # {} THEN <<"others">> ELSE <<>>) \o <<"complete", "log", "exit">>

Unix == opt.os # "windows"

Step == Script[vm.step]

\* The host is reading the serial line, or is about to.
Listening == host.pc \in {"open", "handshake", "reading", "screendump"}

May(f) == f \notin faults /\ Cardinality(faults \ {"timeout"}) < MaxFaults
Fault(f) == May(f) /\ faults' = faults \cup {f}

-----------------------------------------------------------------------------
(* The test runner *)

Send(line) == toHost' = IF Listening THEN Append(toHost, line) ELSE toHost

Advance(v) == [v EXCEPT !.pc = "run", !.step = @ + 1, !.reads = 0]
Panic(v) == [v EXCEPT !.pc = "panic"]
Reconnected(v) == [v EXCEPT !.console = TRUE]

\* A test that makes no request to the host; media::test needs the disk as it was
\* made, and changes it.
run_test ==
    /\ vm.pc = "run" /\ Step \in {"disk", "others"}
    /\ IF Step = "disk" /\ "test_input.txt" \notin disk
       THEN vm' = Panic(vm) /\ UNCHANGED <<passed, disk>>
       ELSE /\ vm' = Advance(vm) /\ passed' = passed \cup {Step}
            /\ disk' = IF Step = "disk" THEN (disk \ {"test_input.txt"}) \cup {"new_test_file.txt"} ELSE disk
    /\ UNCHANGED <<opt, hostvars, qemu, wires, echo, faults>>

\* send_request_to_host: the serial port is opened exclusively, which cuts the
\* console off from it; the request ...
send_request ==
    /\ vm.pc = "run" /\ Step \in {"screenshot", "complete"}
    /\ Send(Step) /\ vm' = [vm EXCEPT !.pc = "reply", !.console = FALSE]
    /\ UNCHANGED <<opt, hostvars, passed, disk, qemu, toVm, monitor, udp, echo, faults>>

\* ... ten seconds without a reply ...
reply_timeout ==
    /\ vm.pc = "reply" /\ toVm = 0
    /\ vm' = Reconnected(Panic(vm)) /\ faults' = faults \cup {"timeout"}
    /\ UNCHANGED <<opt, hostvars, passed, disk, qemu, wires, echo>>

\* ... or the reply; the console is connected again in either case.
read_reply ==
    /\ vm.pc = "reply" /\ toVm > 0
    /\ toVm' = toVm - 1 /\ vm' = Reconnected(Advance(vm)) /\ passed' = passed \cup {Step}
    /\ UNCHANGED <<opt, hostvars, disk, qemu, toHost, monitor, udp, echo, faults>>

\* The PXE test: one packet, and up to Attempts reads
udp_write ==
    /\ vm.pc = "run" /\ Step = "pxe"
    /\ vm' = [vm EXCEPT !.pc = "udp_read"] /\ udp' = "sent"
    /\ UNCHANGED <<opt, hostvars, passed, disk, qemu, toHost, toVm, monitor, echo, faults>>

udp_read ==
    /\ vm.pc = "udp_read"
    /\ IF udp = "echoed"
       THEN udp' = "none" /\ vm' = Advance(vm) /\ passed' = passed \cup {"pxe"} /\ UNCHANGED faults
       ELSE /\ vm' = IF vm.reads + 1 = Attempts THEN Panic(vm) ELSE [vm EXCEPT !.reads = @ + 1]
            /\ faults' = faults \cup {"timeout"} /\ UNCHANGED <<udp, passed>>
    /\ UNCHANGED <<opt, hostvars, disk, qemu, toHost, toVm, monitor, echo>>

\* The line that shows that logging works
log_line ==
    /\ vm.pc = "run" /\ Step = "log"
    /\ IF vm.console THEN Send("log") ELSE UNCHANGED toHost
    /\ vm' = Advance(vm) /\ passed' = passed \cup {"log"}
    /\ UNCHANGED <<opt, hostvars, disk, qemu, toVm, monitor, udp, echo, faults>>

PowerOff(code) == qemu' = code /\ vm' = [vm EXCEPT !.pc = "off"]

\* exit_boot_services, then the exit port on x86_64 and reset on the others
shutdown ==
    /\ vm.pc = "run" /\ Step = "exit"
    /\ PowerOff(IF opt.arch = "x86_64" THEN "3" ELSE "0") /\ passed' = passed \cup {"exit"}
    /\ UNCHANGED <<opt, hostvars, disk, wires, echo, faults>>

test_fails ==
    /\ vm.pc = "run" /\ Fault("test") /\ vm' = Panic(vm)
    /\ UNCHANGED <<opt, hostvars, passed, disk, qemu, wires, echo>>

\* panic_handler: a failure code on x86_64, an ordinary shutdown on the others
panic_handler ==
    /\ vm.pc = "panic" /\ PowerOff(IF opt.arch = "x86_64" THEN "1" ELSE "0")
    /\ UNCHANGED <<opt, hostvars, passed, disk, wires, echo, faults>>

\* The machine resets itself: QEMU ends with -no-reboot, else the runner starts
\* again, and a reply to the run before may still be in the serial port.
machine_reset ==
    /\ vm.pc \in {"run", "reply"} /\ Fault("reset")
    /\ IF opt.ci /\ opt.arch # "aarch64"
       THEN PowerOff("0") /\ UNCHANGED toVm
       ELSE /\ vm' = [pc |-> "run", step |-> 1, reads |-> 0, console |-> TRUE]
            /\ toVm' \in {0, toVm} /\ UNCHANGED qemu
    /\ UNCHANGED <<opt, hostvars, passed, disk, toHost, monitor, udp, echo>>

-----------------------------------------------------------------------------
(* QEMU *)

qemu_starts ==
    /\ qemu = "starting"
    /\ \/ qemu' = "running" /\ vm' = [vm EXCEPT !.pc = "run"] /\ monitor' = <<"greeting", "return">> /\ UNCHANGED faults
       \/ qemu' = "1" /\ Fault("launch") /\ UNCHANGED <<vm, monitor>>
    /\ UNCHANGED <<opt, hostvars, passed, disk, toHost, toVm, udp, echo>>

\* The answer to screendump, after an event or not
monitor_answers ==
    /\ qemu = "running" /\ host.pc = "screendump" /\ monitor = <<>>
    /\ \/ monitor' \in {<<"return">>, <<"event", "return">>} /\ UNCHANGED faults
       \/ Fault("screendump") /\ monitor' = <<"error">>
    /\ UNCHANGED <<opt, hostvars, vmvars, qemu, toHost, toVm, udp, echo>>

qemu_crashes ==
    /\ qemu = "running" /\ Fault("crash") /\ PowerOff("signal")
    /\ UNCHANGED <<opt, hostvars, passed, disk, wires, echo>>

udp_lost ==
    /\ udp # "none" /\ Fault("lost") /\ udp' = "none"
    /\ UNCHANGED <<opt, hostvars, vmvars, qemu, toHost, toVm, monitor, echo>>

-----------------------------------------------------------------------------
(* EchoService *)

\* Mutated form: the flag is not looked at while packets are awaited.
reverse_echo_service_deaf ==
    /\ \/ echo = "starting" /\ echo' = "running" /\ UNCHANGED <<udp, faults>>
       \/ echo = "starting" /\ Fault("port") /\ echo' = "failed" /\ UNCHANGED udp
       \/ echo = "running" /\ udp = "sent" /\ udp' = "echoed" /\ echo' = (IF stop_requested THEN "stopped" ELSE echo) /\ UNCHANGED faults
    /\ UNCHANGED <<opt, hostvars, vmvars, qemu, toHost, toVm, monitor>>

\* It panics if the port is taken, and if a packet is malformed or cannot be
\* answered.
reverse_echo_service ==
    /\ \/ echo = "starting" /\ echo' = "running" /\ UNCHANGED <<udp, faults>>
       \/ echo = "starting" /\ Fault("port") /\ echo' = "failed" /\ UNCHANGED udp
       \/ echo = "running" /\ stop_requested /\ echo' = "stopped" /\ UNCHANGED <<udp, faults>>
       \/ echo = "running" /\ ~ stop_requested /\ udp = "sent" /\ udp' = "echoed" /\ UNCHANGED <<echo, faults>>
       \/ echo = "running" /\ ~ stop_requested /\ udp = "sent" /\ Fault("echo") /\ echo' = "failed" /\ udp' = "none"
    /\ UNCHANGED <<opt, hostvars, vmvars, qemu, toHost, toVm, monitor>>

-----------------------------------------------------------------------------
(* The host *)

Dead == qemu \notin {"none", "starting", "running"}

Goto(pc) == host' = [host EXCEPT !.pc = pc]
hostonly == <<opt, vm, passed, disk, udp, echo, faults>>

\* Firmware, boot directory, disks and pipes are made ready, then the echo service
\* is started, the TPM emulator, and QEMU; each of them may fail.
run_qemu ==
    /\ host.pc = "start"
    /\ \/ /\ Goto("open") /\ qemu' = "starting" /\ swtpm' = opt.tpm
          /\ echo' = (IF opt.network THEN "starting" ELSE "none") /\ UNCHANGED <<outcome, faults>>
       \/ /\ Fault("setup") /\ Goto("unwind") /\ outcome' = "Err" /\ UNCHANGED <<qemu, swtpm, echo>>
       \/ /\ Fault("spawn") /\ Goto("unwind") /\ outcome' = "Err"
          /\ echo' = (IF opt.network THEN "starting" ELSE "none")
          /\ swtpm' \in {FALSE, opt.tpm} /\ UNCHANGED qemu
    /\ UNCHANGED <<opt, stop_requested, vmvars, wires>>

\* Pipe::open_io: a Unix pipe is opened when QEMU has opened its end; on Windows
\* the attempts are counted, and may be too few for a slow QEMU.
open_io ==
    /\ host.pc = "open"
    /\ \/ qemu = "running" /\ Goto("handshake") /\ UNCHANGED <<outcome, faults>>
       \/ ~ Unix /\ Dead /\ Goto("unwind") /\ outcome' = "Err" /\ UNCHANGED faults
       \/ ~ Unix /\ qemu = "starting" /\ Fault("slow") /\ Goto("unwind") /\ outcome' = "Err"
    /\ UNCHANGED <<opt, vm, passed, disk, udp, echo, stop_requested, swtpm, qemu, toHost, toVm, monitor>>

\* The result of process_qemu_io is kept until QEMU has ended.
Failed == host' = [host EXCEPT !.pc = "wait", !.res = "Err"] /\ UNCHANGED outcome
Panics == Goto("unwind") /\ outcome' = "panic"

handshake ==
    /\ host.pc = "handshake"
    /\ \/ monitor # <<>> /\ monitor' = <<>> /\ Goto("reading") /\ UNCHANGED outcome
       \/ Dead /\ Failed /\ monitor' = <<>>
    /\ UNCHANGED <<hostonly, stop_requested, swtpm, qemu, toHost, toVm>>

\* A line of the serial port
process_line ==
    /\ host.pc = "reading" /\ toHost # <<>>
    /\ toHost' = Tail(toHost) /\ UNCHANGED <<hostonly, stop_requested, swtpm, qemu, monitor>>
    /\ \/ /\ Head(toHost) = "screenshot"
          /\ IF Dead THEN Failed ELSE Goto("screendump") /\ UNCHANGED outcome
          /\ UNCHANGED toVm
       \/ /\ Head(toHost) = "complete"
          /\ IF Dead THEN host' = [host EXCEPT !.pc = "wait", !.res = "Err", !.complete = TRUE] /\ UNCHANGED <<toVm, outcome>>
             ELSE host' = [host EXCEPT !.complete = TRUE] /\ toVm' = toVm + 1 /\ UNCHANGED outcome
       \/ /\ Head(toHost) = "log"
          /\ host' = [host EXCEPT !.logging = TRUE] /\ UNCHANGED <<toVm, outcome>>

\* The monitor's acknowledgement, the reply to the runner, the comparison
screendump ==
    /\ host.pc = "screendump"
    /\ \/ monitor # <<>> /\ Head(monitor) = "event" /\ monitor' = Tail(monitor) /\ UNCHANGED <<host, outcome, toVm, faults>>
       \/ monitor = <<"error">> /\ Panics /\ monitor' = <<>> /\ UNCHANGED <<toVm, faults>>
       \/ /\ monitor = <<"return">> /\ ~ Dead /\ monitor' = <<>> /\ toVm' = toVm + 1
          /\ \/ host' = [host EXCEPT !.pc = "reading", !.compared = TRUE] /\ UNCHANGED <<outcome, faults>>
             \/ Fault("mismatch") /\ Panics
             \/ Fault("reference") /\ Failed
       \/ Dead /\ Failed /\ monitor' = <<>> /\ UNCHANGED <<toVm, faults>>
    /\ UNCHANGED <<opt, vm, passed, disk, udp, echo, stop_requested, swtpm, qemu, toHost>>

\* Mutated form: the test of logging_still_working_right_before_ebs is left out.
Verdict_log == IF host.complete THEN "Ok" ELSE "Err"

Verdict == IF host.complete /\ host.logging THEN "Ok" ELSE "Err"

\* The end of the serial line
end_of_lines ==
    /\ host.pc = "reading" /\ toHost = <<>> /\ Dead
    /\ host' = [host EXCEPT !.pc = "wait", !.res = Verdict]
    /\ UNCHANGED <<hostonly, outcome, stop_requested, swtpm, qemu, toHost, toVm, monitor>>

\* child.wait, which may fail, then EchoService::stop
wait ==
    /\ host.pc = "wait" /\ Dead
    /\ \/ Goto("join") /\ stop_requested' = TRUE /\ UNCHANGED <<outcome, faults>>
       \/ Fault("wait") /\ Goto("unwind") /\ outcome' = "Err" /\ UNCHANGED stop_requested
    /\ UNCHANGED <<opt, vm, passed, disk, udp, echo, swtpm, qemu, toHost, toVm, monitor>>

Joined == echo \in {"none", "stopped", "failed"}

\* An error if the new file cannot be opened, a panic if the old one is still there
check_mbr_test_disk ==
    IF "new_test_file.txt" \notin disk THEN "Err" ELSE IF "test_input.txt" \in disk THEN "panic" ELSE "Ok"

\* The echo service is joined, and the result is settled.
finish ==
    /\ host.pc = "join" /\ Joined /\ Goto("done") /\ swtpm' = FALSE
    /\ outcome' = IF echo = "failed" THEN "panic"
                  ELSE IF host.res = "Err" THEN "Err"
                  ELSE IF qemu = "signal" \/ qemu # (IF opt.arch = "x86_64" THEN "3" ELSE "0") THEN "Err"
                  ELSE check_mbr_test_disk
    /\ UNCHANGED <<hostonly, stop_requested, qemu, toHost, toVm, monitor>>

\* An early return or a panic drops the child, the TPM and the echo service.
unwind ==
    /\ host.pc = "unwind"
    /\ qemu' = (IF qemu \in {"starting", "running"} THEN "signal" ELSE qemu) /\ vm' = [vm EXCEPT !.pc = "off"]
    /\ swtpm' = FALSE /\ stop_requested' = TRUE /\ Goto("unwind_join")
    /\ UNCHANGED <<opt, outcome, passed, disk, udp, echo, faults, toHost, toVm, monitor>>

unwind_join ==
    /\ host.pc = "unwind_join" /\ Joined /\ Goto("done")
    /\ outcome' = IF echo = "failed" THEN (IF outcome = "panic" THEN "abort" ELSE "panic") ELSE outcome
    /\ UNCHANGED <<hostonly, stop_requested, swtpm, qemu, toHost, toVm, monitor>>

-----------------------------------------------------------------------------
(* Specification *)

create_mbr_test_disk == {"test_dir", "test_input.txt"}

HarnessInit ==
    /\ opt \in [arch : Archs, network : BOOLEAN, tpm : BOOLEAN, ci : BOOLEAN, os : Systems]
    /\ host = [pc |-> "start", complete |-> FALSE, logging |-> FALSE, res |-> "Ok", compared |-> FALSE]
    /\ outcome = "none"
    /\ vm = [pc |-> "off", step |-> 1, reads |-> 0, console |-> TRUE] /\ passed = {} /\ qemu = "none"
    /\ toHost = <<>> /\ toVm = 0 /\ monitor = <<>> /\ udp = "none"
    /\ echo = "none" /\ stop_requested = FALSE /\ swtpm = FALSE /\ disk = create_mbr_test_disk /\ faults = {}

HostStep ==
    run_qemu \/ open_io \/ handshake \/ process_line \/ screendump \/ end_of_lines
        \/ wait \/ finish \/ unwind \/ unwind_join

VmStep ==
    run_test \/ send_request \/ reply_timeout \/ read_reply \/ udp_write \/ udp_read
        \/ log_line \/ shutdown \/ panic_handler

QemuStep == qemu_starts \/ monitor_answers

HarnessFaults == test_fails \/ machine_reset \/ qemu_crashes \/ udp_lost

HarnessNext == HostStep \/ VmStep \/ QemuStep \/ reverse_echo_service \/ HarnessFaults

-----------------------------------------------------------------------------
(* Properties *)

HarnessTypeOK ==
    /\ vm.step \in 1 .. 7 /\ vm.reads \in 0 .. Attempts - 1
    /\ vm.pc \in {"off", "run", "reply", "udp_read", "panic"}
    /\ host.pc \in {"start", "open", "handshake", "reading", "screendump", "wait", "join", "unwind", "unwind_join", "done"}
    /\ toVm \in 0 .. 3 /\ Len(toHost) <= 4

\* `cargo xtask run` succeeds only if the runner passed every test up to its
\* last log line, the screenshot matched, and QEMU ended by itself.  On x86_64
\* the exit code shows that exit_boot_services worked too; the other
\* architectures cannot tell.
VerdictSound ==
    outcome = "Ok" =>
        /\ Range(Script) \ {"exit"} \subseteq passed
        /\ "screenshot" \in Range(Script) => host.compared
        /\ opt.arch = "x86_64" => "exit" \in passed
        /\ qemu # "signal"

\* It fails only if something went wrong.
VerdictFair == outcome \in {"Err", "panic", "abort"} => faults # {}

\* Whatever happened, no QEMU, no TPM emulator and no thread of the echo service
\* is left when run_qemu is done.
NoOrphans == host.pc = "done" => qemu \notin {"starting", "running"} /\ ~ swtpm /\ Joined

\* run_qemu comes to an end, with one exception: on Unix it waits for ever to
\* open the pipes of a QEMU that has already ended.
HarnessEnds == (host.pc # "start") ~> (host.pc = "done" \/ (Unix /\ host.pc = "open" /\ Dead))
=============================================================================
