----------------------------- MODULE Processors -----------------------------
(***************************************************************************)
(* Multi-processor services (proto/pi/mp.rs) and the test runner's use of   *)
(* them (proto/pi/mp.rs there): the boot processor calls, the application   *)
(* processors run a procedure at the same time.  Durations are in half      *)
(* microseconds, a tick of the clock is one microsecond, and usize ends at  *)
(* MpUMax.                                                                  *)
(***************************************************************************)
EXTENDS Integers, Sequences, FiniteSets

CONSTANTS
    NUM_CPUS,       \* the test machine's processors, 0 .. NUM_CPUS - 1
    Durations,      \* the timeouts an application passes, in half microseconds
    MpUMax

VARIABLES
    mpclient,   \* who runs ("tests" or "any") and how far
    cpu,        \* per processor: enabled, healthy, what it is doing
    bsp,        \* the boot processor
    mpcall,     \* the procedure being run on the others
    counter,    \* the AtomicUsize the procedure increments
    mpret       \* the last call's result

mpvars == <<mpclient, cpu, bsp, mpcall, counter, mpret>>

Cpus == 0 .. NUM_CPUS - 1
WaitTicks == 4      \* proc_wait_100ms takes longer than any timeout that is used
NoCall == [proc |-> "none", targets |-> {}, single |-> FALSE, blocking |-> TRUE, limit |-> 0, elapsed |-> 0]
Ok(numbers) == [status |-> "SUCCESS", numbers |-> numbers, flags |-> {}]
OkFlags(flags) == [status |-> "SUCCESS", numbers |-> <<>>, flags |-> flags]
Error(status) == [status |-> status, numbers |-> <<>>, flags |-> {}]

MpInit ==
    /\ mpclient \in [who : {"tests", "any"}, pc : {1}]
    /\ cpu = [n \in Cpus |-> [enabled |-> TRUE, healthy |-> TRUE, doing |-> "idle"]]
    /\ bsp = 0 /\ mpcall = NoCall /\ counter = 0 /\ mpret = Ok(<<>>)

Enabled == {n \in Cpus : cpu[n].enabled}
Flags(n) == {f \in {"BSP", "ENABLED", "HEALTH"} :
                \/ f = "BSP" /\ n = bsp
                \/ f = "ENABLED" /\ cpu[n].enabled
                \/ f = "HEALTH" /\ cpu[n].healthy}

get_number_of_processors ==
    /\ mpret' = Ok(<<NUM_CPUS, Cardinality(Enabled)>>)
    /\ UNCHANGED <<cpu, bsp, mpcall, counter>>

\* ProcessorInformation's is_bsp, is_enabled and is_healthy read these flags.
get_processor_info(n) ==
    /\ mpret' = OkFlags(Flags(n))
    /\ UNCHANGED <<cpu, bsp, mpcall, counter>>

\* The health flag is passed as a word with one bit, or not at all.
HealthFlag(healthy) == IF healthy = "none" THEN "null" ELSE IF healthy = "yes" THEN "set" ELSE "clear"

enable_disable_ap(n, enable, healthy) ==
    /\ IF n = bsp
       THEN mpret' = Error("INVALID_PARAMETER") /\ UNCHANGED cpu
       ELSE /\ mpret' = Ok(<<>>)
            /\ cpu' = [cpu EXCEPT ![n].enabled = enable,
                                  ![n].healthy = IF HealthFlag(healthy) = "null" THEN @ ELSE HealthFlag(healthy) = "set"]
    /\ UNCHANGED <<bsp, mpcall, counter>>

switch_bsp(n, enable_old) ==
    /\ IF n = bsp \/ ~cpu[n].enabled
       THEN mpret' = Error("INVALID_PARAMETER") /\ UNCHANGED <<cpu, bsp>>
       ELSE mpret' = Ok(<<>>) /\ bsp' = n /\ cpu' = [cpu EXCEPT ![bsp].enabled = enable_old]
    /\ UNCHANGED <<mpcall, counter>>

who_am_i ==
    /\ mpret' = Ok(<<bsp>>)
    /\ UNCHANGED <<cpu, bsp, mpcall, counter>>

(***************************************************************************)
(* Running a procedure.  None (-1) and every duration below a microsecond   *)
(* become 0, which the firmware takes for no timeout; one that does not fit *)
(* panics.                                                                  *)
(***************************************************************************)
as_micros(d) == d \div 2
TimeoutArg(timeout) == IF timeout = -1 THEN 0 ELSE as_micros(timeout)

\* A null event makes the call block.
EventArg(event) == event

\* `refusal`: what the firmware answers if there is nobody to start
startup(targets, refusal, single, proc, event, timeout) ==
    /\ mpcall = NoCall
    /\ IF TimeoutArg(timeout) > MpUMax THEN mpret' = Error("panic") /\ UNCHANGED <<cpu, mpcall, counter>>
       ELSE IF targets = {} THEN mpret' = Error(refusal) /\ UNCHANGED <<cpu, mpcall, counter>>
       ELSE /\ mpcall' = [proc |-> proc, targets |-> targets, single |-> single, blocking |-> ~EventArg(event),
                          limit |-> TimeoutArg(timeout), elapsed |-> 0]
            /\ cpu' = [n \in Cpus |-> IF n \in targets THEN [cpu[n] EXCEPT !.doing = "todo"] ELSE cpu[n]]
            /\ mpret' = Ok(<<>>)
            /\ UNCHANGED counter
    /\ UNCHANGED bsp

startup_all_aps(single, proc, event, timeout) ==
    startup(Enabled \ {bsp}, "NOT_STARTED", single, proc, event, timeout)
startup_this_ap(n, proc, event, timeout) ==
    startup(({n} \intersect Enabled) \ {bsp}, "INVALID_PARAMETER", FALSE, proc, event, timeout)

\* The firmware returns when every processor is done, or ends those that are not.
StartupReturns ==
    LET done == \A n \in mpcall.targets : cpu[n].doing = "idle"
        late == mpcall.limit > 0 /\ mpcall.elapsed >= mpcall.limit IN
    /\ mpcall # NoCall /\ (done \/ late)
    /\ mpret' = IF done THEN Ok(<<>>) ELSE Error("TIMEOUT")
    /\ cpu' = [n \in Cpus |-> [cpu[n] EXCEPT !.doing = "idle"]]
    /\ mpcall' = NoCall
    /\ UNCHANGED <<mpclient, bsp, counter>>

\* With single_thread the next processor starts when the previous one is done.
ApStarts(n) ==
    /\ cpu[n].doing = "todo"
    /\ mpcall.single => \A m \in Cpus : cpu[m].doing # "busy"
    /\ cpu' = [cpu EXCEPT ![n].doing = "busy"]
    /\ UNCHANGED <<mpclient, bsp, mpcall, counter, mpret>>

\* proc_increment_atomic (with fetch_add) or proc_wait_100ms.
fetch_add(c) == c + 1
ApEnds(n) ==
    /\ cpu[n].doing = "busy"
    /\ \/ mpcall.proc = "increment" /\ counter' = fetch_add(counter)
       \/ mpcall.proc = "wait" /\ mpcall.elapsed >= WaitTicks /\ UNCHANGED counter
    /\ cpu' = [cpu EXCEPT ![n].doing = "idle"]
    /\ UNCHANGED <<mpclient, bsp, mpcall, mpret>>

Clock ==
    /\ mpcall # NoCall
    /\ mpcall.elapsed < (IF mpcall.limit = 0 THEN WaitTicks ELSE mpcall.limit)
    /\ mpcall' = [mpcall EXCEPT !.elapsed = @ + 1]
    /\ UNCHANGED <<mpclient, cpu, bsp, counter, mpret>>

(***************************************************************************)
(* The tests, as the calls they make; `want` is the result asserted.        *)
(***************************************************************************)
Count(k) == [op |-> "count", want |-> Ok(<<NUM_CPUS, k>>)]
Info(n, mask, flags) == [op |-> "info", n |-> n, mask |-> mask, want |-> OkFlags(flags)]
Enable(n, on, healthy) == [op |-> "enable", n |-> n, on |-> on, healthy |-> healthy, want |-> Ok(<<>>)]
Zero == [op |-> "zero", want |-> Ok(<<>>)]
All(proc, timeout, want) == [op |-> "all", proc |-> proc, timeout |-> timeout, want |-> want]
This(n, proc, timeout, want) == [op |-> "this", n |-> n, proc |-> proc, timeout |-> timeout, want |-> want]
CounterIs == [op |-> "counter", want |-> Ok(<<NUM_CPUS - 1>>)]
Switch(n) == [op |-> "switch", n |-> n, want |-> Ok(<<>>)]
Who(n) == [op |-> "who", want |-> Ok(<<n>>)]

TestTimeout == 4    \* 50 ms, below WaitTicks
Aps == NUM_CPUS - 1

test_get_number_of_processors == <<Count(NUM_CPUS)>>
test_get_processor_info ==
    LET mask == {"BSP", "ENABLED"} IN
    <<Enable(1, FALSE, "none"), Info(0, mask, mask), Info(1, mask, {}), Info(2, mask, {"ENABLED"}),
      Enable(1, TRUE, "none")>>
test_startup_all_aps ==
    <<Zero, All("increment", -1, Ok(<<>>)), CounterIs, All("wait", TestTimeout, Error("TIMEOUT"))>>
test_startup_this_ap ==
    <<Zero>> \o [n \in 1 .. Aps |-> This(n, "increment", -1, Ok(<<>>))] \o <<CounterIs>>
    \o [n \in 1 .. Aps |-> This(n, "wait", TestTimeout, Error("TIMEOUT"))]
test_enable_disable_ap ==
    <<Enable(1, FALSE, "none"), Count(Aps), Enable(1, TRUE, "none"), Count(NUM_CPUS),
      Enable(1, TRUE, "no"), Info(1, {"HEALTH"}, {}), Enable(1, TRUE, "yes"), Info(1, {"HEALTH"}, {"HEALTH"})>>
test_switch_bsp_and_who_am_i == <<Who(0), Switch(1), Who(1), Switch(0), Who(0)>>

MpScript ==
    test_get_number_of_processors \o test_get_processor_info \o test_startup_all_aps
    \o test_startup_this_ap \o test_enable_disable_ap \o test_switch_bsp_and_who_am_i

\* A call of the script, or the assertion about the one that has returned.
MpTestStep ==
    /\ mpclient.who = "tests" /\ mpclient.pc \in 1 .. 2 * Len(MpScript) /\ mpcall = NoCall
    /\ LET step == MpScript[(mpclient.pc + 1) \div 2]
           result == IF step.op = "info" THEN OkFlags(mpret.flags \intersect step.mask)
                     ELSE IF step.op = "counter" THEN Ok(<<counter>>) ELSE mpret IN
       IF mpclient.pc % 2 = 0
       THEN /\ mpclient' = [mpclient EXCEPT !.pc = IF result = step.want THEN @ + 1 ELSE 0]
            /\ UNCHANGED <<cpu, bsp, mpcall, counter, mpret>>
       ELSE /\ \/ step.op = "count" /\ get_number_of_processors
               \/ step.op = "info" /\ get_processor_info(step.n)
               \/ step.op = "enable" /\ enable_disable_ap(step.n, step.on, step.healthy)
               \/ step.op = "all" /\ startup_all_aps(FALSE, step.proc, FALSE, step.timeout)
               \/ step.op = "this" /\ startup_this_ap(step.n, step.proc, FALSE, step.timeout)
               \/ step.op = "switch" /\ switch_bsp(step.n, TRUE)
               \/ step.op = "who" /\ who_am_i
               \/ /\ step.op \in {"zero", "counter"}
                  /\ counter' = IF step.op = "zero" THEN 0 ELSE counter
                  /\ mpret' = Ok(<<>>)
                  /\ UNCHANGED <<cpu, bsp, mpcall>>
            /\ mpclient' = [mpclient EXCEPT !.pc = @ + 1]

\* An application that makes any calls, one procedure at a time.
MpAnyCall ==
    /\ mpclient.who = "any" /\ mpcall = NoCall
    /\ \/ get_number_of_processors \/ who_am_i
       \/ \E n \in Cpus : get_processor_info(n)
       \/ \E n \in Cpus, on \in BOOLEAN, healthy \in {"none", "no", "yes"} : enable_disable_ap(n, on, healthy)
       \/ \E n \in Cpus, on \in BOOLEAN : switch_bsp(n, on)
       \/ \E single, event \in BOOLEAN, proc \in {"increment", "wait"}, timeout \in Durations \union {-1} :
            \/ counter = 0 /\ startup_all_aps(single, proc, event, timeout)
            \/ \E n \in Cpus : counter = 0 /\ startup_this_ap(n, proc, event, timeout)
    /\ UNCHANGED mpclient

\* A fresh counter.
MpForget ==
    /\ mpclient.who = "any" /\ mpcall = NoCall /\ counter # 0
    /\ counter' = 0
    /\ UNCHANGED <<mpclient, cpu, bsp, mpcall, mpret>>

MpNext ==
    \/ MpTestStep \/ MpAnyCall \/ MpForget \/ StartupReturns \/ Clock
    \/ \E n \in Cpus : ApStarts(n) \/ ApEnds(n)

MpTypeOK ==
    /\ bsp \in Cpus /\ counter \in 0 .. NUM_CPUS /\ mpcall.targets \subseteq Cpus
    /\ cpu \in [Cpus -> [enabled : BOOLEAN, healthy : BOOLEAN, doing : {"idle", "todo", "busy"}]]

\* The test's calls do not end before the processors they started: whenever
\* the boot processor goes on to the next statement, no processor runs the
\* procedure with a pointer to the test's local counter.
NoStrayProcessor ==
    mpclient.who = "tests" => (mpcall.blocking /\ (mpcall = NoCall => \A n \in Cpus : cpu[n].doing = "idle"))

\* Every assertion of the test holds, however the processors interleave: each
\* starts the procedure once, timeouts end the wait, and the state of
\* processors is what was set.
MpTestsPass == mpclient.who = "tests" => mpclient.pc # 0

MpTestsRun == mpclient.who = "tests" /\ mpclient.pc \notin {0, 2 * Len(MpScript) + 1}
=============================================================================
