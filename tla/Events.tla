------------------------------- MODULE Events -------------------------------
(***************************************************************************)
(* Events and timers (boot.rs), asynchronous disk reads                     *)
(* (proto/media/disk.rs) and the test runner's functions that use them.     *)
(* A call is one step; timer ticks, the completion of a disk read and the   *)
(* notification functions come between any two.                             *)
(***************************************************************************)
EXTENDS Integers, Sequences, FiniteSets

CONSTANTS
    AnyIds,         \* the events an arbitrary application creates
    TimerUnits      \* the times it asks timers for

ASSUME TimerAssumption == TimerUnits \subseteq Nat

VARIABLES
    client,     \* who runs ("tests" or "any"), how far, and whether its disk read failed
    events,     \* the firmware's event structures
    tpl,        \* the task priority level of the application
    running,      \* whether the function whose locals are context and buffer runs
    data,       \* whether these locals have been written
    dangling,   \* whether a callback or the disk wrote to a frame that is gone
    disk,       \* the event of the pending read, 0 if none
    ret,        \* the last call, tick or completion and its result
    unseen,     \* per event: 1 if signaled since it was last reported, -1 if
                \* reported without
    asked       \* per event: the trigger last asked for

evvars == <<client, events, tpl, running, data, dangling, disk, ret, unseen, asked>>

\* The first five are those of the tests.
EventIds == 1 .. 5 \union AnyIds
Closed == [kind |-> "closed", timer |-> FALSE, ctx |-> FALSE, signaled |-> FALSE,
           queued |-> FALSE, delay |-> "CANCEL", left |-> 0]
NoRet == [op |-> "none", ok |-> TRUE, val |-> 0]

Triggers == {[type |-> "Cancel", time |-> 0]}
            \union [type : {"Periodic", "Relative"}, time : TimerUnits]

EventsInit ==
    /\ client \in [who : {"tests", "any"}, pc : {1}, diskerr : {FALSE}]
    /\ events = [e \in EventIds |-> Closed]
    /\ tpl = "APPLICATION" /\ running = FALSE /\ data = FALSE /\ dangling = FALSE
    /\ disk = 0 /\ ret = NoRet
    /\ unseen = [e \in EventIds |-> 0]
    /\ asked = [e \in EventIds |-> "Cancel"]

(***************************************************************************)
(* The firmware: queued notification functions run as soon as the level     *)
(* allows.  All of them write to their context.                             *)
(***************************************************************************)
Notify(evts, level) ==
    LET runs == {e \in EventIds : evts[e].queued /\ level = "APPLICATION"} IN
    /\ events' = [e \in EventIds |-> [evts[e] EXCEPT !.queued = @ /\ e \notin runs]]
    /\ data' = (data \/ \E e \in runs : evts[e].ctx)
    /\ dangling' = (dangling \/ (~running /\ \E e \in runs : evts[e].ctx))

Signaled(evts, es) ==
    [e \in EventIds |->
        IF e \notin es THEN evts[e]
        ELSE IF evts[e].kind = "NOTIFY_SIGNAL" THEN [evts[e] EXCEPT !.queued = TRUE]
        ELSE [evts[e] EXCEPT !.signaled = TRUE]]

Counted(es) == unseen' = [e \in EventIds |-> IF e \in es THEN 1 ELSE unseen[e]]

Waited(evts, es) ==
    [e \in EventIds |->
        IF e \in es /\ evts[e].kind = "NOTIFY_WAIT" THEN [evts[e] EXCEPT !.queued = TRUE] ELSE evts[e]]

(***************************************************************************)
(* boot.rs.  create_event and create_event_ex differ in the event group and *)
(* in the revision the latter needs.                                        *)
(***************************************************************************)
create_event(e, kind, timer, ctx) ==
    /\ events[e] = Closed
    /\ \/ /\ events' = [events EXCEPT ![e] = [Closed EXCEPT !.kind = kind, !.timer = timer, !.ctx = ctx]]
          /\ ret' = [op |-> "create", ok |-> TRUE, val |-> e]
       \/ /\ ret' = [op |-> "create", ok |-> FALSE, val |-> 0]
          /\ UNCHANGED events
    /\ unseen' = [unseen EXCEPT ![e] = 0]
    /\ asked' = [asked EXCEPT ![e] = "Cancel"]
    /\ UNCHANGED <<tpl, running, data, dangling, disk>>

\* SUCCESS, NOT_READY and every other status.
Checked_ready(status) == [op |-> "check", ok |-> status \in {"SUCCESS", "NOT_READY"}, val |-> 1]
Checked(status) ==
    [op |-> "check", ok |-> status \in {"SUCCESS", "NOT_READY"}, val |-> IF status = "SUCCESS" THEN 1 ELSE 0]

check_event(e) ==
    LET kind == events[e].kind
        status == IF kind = "NOTIFY_SIGNAL" THEN "INVALID_PARAMETER"
                  ELSE IF events[e].signaled THEN "SUCCESS" ELSE "NOT_READY" IN
    /\ kind # "closed"
    /\ IF status = "SUCCESS" THEN Notify([events EXCEPT ![e].signaled = FALSE], tpl)
       ELSE Notify(Waited(events, {e}), tpl)
    /\ ret' = Checked(status)
    /\ unseen' = [unseen EXCEPT ![e] = @ - ret'.val]
    /\ UNCHANGED <<tpl, running, disk, asked>>

signal_event(e) ==
    /\ events[e].kind # "closed"
    /\ Notify(Signaled(events, {e}), tpl)
    /\ Counted({e})
    /\ ret' = [op |-> "signal", ok |-> TRUE, val |-> 0]
    /\ UNCHANGED <<tpl, running, disk, asked>>

close_event(e) ==
    /\ events[e].kind # "closed"
    /\ events' = [events EXCEPT ![e] = Closed]
    /\ ret' = [op |-> "close", ok |-> TRUE, val |-> 0]
    /\ asked' = [asked EXCEPT ![e] = "Cancel"]
    /\ UNCHANGED <<tpl, running, data, dangling, disk, unseen>>

Delay(type) ==
    CASE type = "Cancel" -> "CANCEL" [] type = "Periodic" -> "PERIODIC" [] type = "Relative" -> "RELATIVE"

\* Times are in units of 100 ns on both sides.
TriggerTime(trigger) == IF trigger.type = "Cancel" THEN 0 ELSE trigger.time

\* The firmware refuses an event that is no timer.
set_timer(e, trigger) ==
    /\ events[e].kind # "closed"
    /\ ret' = [op |-> "set_timer", ok |-> events[e].timer, val |-> 0]
    /\ IF events[e].timer
       THEN /\ events' = [events EXCEPT ![e].delay = Delay(trigger.type), ![e].left = TriggerTime(trigger)]
            /\ asked' = [asked EXCEPT ![e] = trigger.type]
       ELSE UNCHANGED <<events, asked>>
    /\ UNCHANGED <<tpl, running, data, dangling, disk, unseen>>

\* The error of wait_for_event: Some(index) for INVALID_PARAMETER (0 for an
\* empty slice, where the firmware leaves the index alone), else None (-1).
WaitError(status, i) == IF status = "INVALID_PARAMETER" THEN i ELSE -1

\* Blocks (is not enabled) until an event is signaled or an error is found.
wait_for_event(es) ==
    LET stops == {i \in DOMAIN es : events[es[i]].kind = "NOTIFY_SIGNAL" \/ events[es[i]].signaled}
        first == CHOOSE i \in stops : \A j \in stops : i <= j
        Error(status, i) == [op |-> "wait", ok |-> FALSE, val |-> WaitError(status, i), es |-> es, status |-> status] IN
    /\ \A i \in DOMAIN es : events[es[i]].kind # "closed"
    /\ IF tpl # "APPLICATION" \/ es = <<>>
       THEN /\ ret' = IF es = <<>> THEN Error("INVALID_PARAMETER", 0) ELSE Error("UNSUPPORTED", 0)
            /\ UNCHANGED <<events, data, dangling, unseen>>
       ELSE /\ stops # {}
            /\ IF events[es[first]].kind = "NOTIFY_SIGNAL"
               THEN ret' = Error("INVALID_PARAMETER", first - 1) /\ UNCHANGED unseen
               ELSE /\ ret' = [op |-> "wait", ok |-> TRUE, val |-> first - 1, es |-> es, status |-> "SUCCESS"]
                    /\ unseen' = [unseen EXCEPT ![es[first]] = @ - 1]
            /\ LET passed == Waited(events, {es[i] : i \in 1 .. first - 1}) IN
               Notify([passed EXCEPT ![es[first]].signaled = FALSE], tpl)
    /\ UNCHANGED <<tpl, running, disk, asked>>

raise_tpl ==
    /\ tpl' = "NOTIFY"
    /\ ret' = [op |-> "raise", ok |-> TRUE, val |-> 0]
    /\ UNCHANGED <<events, running, data, dangling, disk, unseen, asked>>

\* Dropping the guard of the outermost raise.
restore_tpl ==
    /\ tpl' = "APPLICATION"
    /\ Notify(events, "APPLICATION")
    /\ ret' = [op |-> "restore", ok |-> TRUE, val |-> 0]
    /\ UNCHANGED <<running, disk, unseen, asked>>

\* DiskIo2::read_disk_raw with a token: the firmware keeps the pointers.
read_disk_raw(e) ==
    /\ \/ disk' = e /\ ret' = [op |-> "read_disk", ok |-> TRUE, val |-> 0]
       \/ disk' = disk /\ ret' = [op |-> "read_disk", ok |-> FALSE, val |-> 0]
    /\ UNCHANGED <<events, tpl, running, data, dangling, unseen, asked>>

(***************************************************************************)
(* The tests, as the calls they make.  `want` is the value an assertion     *)
(* asks for; every call must return Ok.                                     *)
(***************************************************************************)
Step(op, e) == [op |-> op, e |-> e, want |-> 0]
Create(e, kind, timer, ctx) == [op |-> "create", e |-> e, want |-> e, kind |-> kind, timer |-> timer, ctx |-> ctx]

test_tpl == <<Step("raise", 0), Step("restore", 0)>>
test_check_event ==
    <<Create(1, "NOTIFY_WAIT", FALSE, FALSE), Step("check", 1), Step("close", 1)>>
test_timer_unset == <<Create(2, "plain", TRUE, FALSE), Step("wait", 2), Step("close", 2)>>
test_timer ==
    <<Create(2, "plain", TRUE, FALSE), Step("set_timer", 2), Step("wait", 2), Step("close", 2)>>
test_callback_with_ctx ==
    <<Step("enter", 0), Create(3, "NOTIFY_WAIT", FALSE, TRUE), Step("check", 3), Step("assert", 0), Step("leave", 0)>>
test_signal_event ==
    <<Step("enter", 0), Create(4, "NOTIFY_SIGNAL", FALSE, TRUE), Step("signal", 4), Step("assert", 0), Step("leave", 0)>>
test_raw_disk_io2_forget ==
    <<Step("enter", 0), Create(5, "plain", FALSE, FALSE), Step("read_disk", 5), Step("leave", 0)>>
test_raw_disk_io2 ==
    <<Step("enter", 0), Create(5, "plain", FALSE, FALSE), Step("read_disk", 5), Step("wait", 5),
      Step("assert", 0), Step("leave", 0)>>

Script == test_tpl \o test_timer \o test_check_event \o test_callback_with_ctx
          \o test_signal_event \o test_raw_disk_io2

Local(step) ==
    /\ \/ step.op = "enter" /\ running' = TRUE /\ data' = FALSE /\ ret' = NoRet
       \/ step.op = "leave" /\ running' = FALSE /\ data' = FALSE /\ ret' = NoRet
       \/ step.op = "assert" /\ ret' = [op |-> "assert", ok |-> data, val |-> 0] /\ UNCHANGED <<running, data>>
    /\ UNCHANGED <<events, tpl, dangling, disk, unseen, asked>>

TestStep ==
    /\ client.who = "tests" /\ client.pc \in DOMAIN Script
    /\ LET step == Script[client.pc] IN
       /\ \/ step.op = "create" /\ create_event(step.e, step.kind, step.timer, step.ctx)
          \/ step.op = "check" /\ check_event(step.e)
          \/ step.op = "signal" /\ signal_event(step.e)
          \/ step.op = "close" /\ close_event(step.e)
          \/ step.op = "set_timer" /\ set_timer(step.e, [type |-> "Relative", time |-> 1])
          \/ step.op = "wait" /\ wait_for_event(<<step.e>>)
          \/ step.op = "raise" /\ raise_tpl
          \/ step.op = "restore" /\ restore_tpl
          \/ step.op = "read_disk" /\ read_disk_raw(step.e)
          \/ Local(step)
       /\ client' = [client EXCEPT !.pc = IF ret'.ok /\ ret'.val = step.want THEN @ + 1 ELSE 0]

\* The slices of events an application waits for
WaitLists == {<<>>} \union {<<e>> : e \in AnyIds} \union {<<d, e>> : d, e \in AnyIds}

\* An application that makes any calls; its contexts stay alive.
AnyCall ==
    /\ client.who = "any"
    /\ \/ \E e \in AnyIds, kind \in {"plain", "NOTIFY_WAIT", "NOTIFY_SIGNAL"} :
            create_event(e, kind, kind # "NOTIFY_WAIT", FALSE)
       \/ \E e \in AnyIds : check_event(e) \/ signal_event(e) \/ close_event(e)
       \/ \E e \in AnyIds, trigger \in Triggers : set_timer(e, trigger)
       \/ \E es \in WaitLists : wait_for_event(es)
       \/ tpl = "APPLICATION" /\ raise_tpl
       \/ tpl = "NOTIFY" /\ restore_tpl
    /\ UNCHANGED client

\* One tick of the firmware's timer.
Tick ==
    LET armed == {e \in EventIds : events[e].delay # "CANCEL"}
        due == {e \in armed : events[e].left = 0} IN
    /\ armed # {}
    /\ Notify(Signaled([e \in EventIds |->
                  IF e \notin armed THEN events[e]
                  ELSE IF e \notin due THEN [events[e] EXCEPT !.left = @ - 1]
                  ELSE IF events[e].delay = "PERIODIC" THEN events[e]
                  ELSE [events[e] EXCEPT !.delay = "CANCEL"]], due), tpl)
    /\ Counted(due)
    /\ asked' = [e \in EventIds |-> IF e \in due /\ asked[e] = "Relative" THEN "Cancel" ELSE asked[e]]
    /\ ret' = [op |-> "tick", ok |-> TRUE, val |-> 0, es |-> due]
    /\ UNCHANGED <<client, tpl, running, disk>>

\* The disk writes the token and, unless the read fails, the buffer, and signals
\* the event.  `data` is a status of SUCCESS in the token and the sector in the buffer.
DiskCompletes ==
    /\ disk # 0
    /\ disk' = 0
    /\ events' = Signaled(events, {disk})
    /\ \/ data' = TRUE /\ UNCHANGED client
       \/ data' = data /\ client' = [client EXCEPT !.diskerr = TRUE]
    /\ dangling' = (dangling \/ ~running)
    /\ Counted({disk})
    /\ ret' = [op |-> "disk", ok |-> TRUE, val |-> 0]
    /\ UNCHANGED <<tpl, running, asked>>

EventsNext == TestStep \/ AnyCall \/ Tick \/ DiskCompletes

\* Events and timers on their own
EventsSpec == EventsInit /\ [][EventsNext]_evvars

EventsTypeOK ==
    /\ client.who \in {"tests", "any"} /\ client.pc \in 0 .. Len(Script) + 1
    /\ \A e \in EventIds :
        /\ events[e].kind \in {"closed", "plain", "NOTIFY_WAIT", "NOTIFY_SIGNAL"}
        /\ events[e].delay \in {"CANCEL", "PERIODIC", "RELATIVE"}
        /\ events[e].left \in Nat
    /\ tpl \in {"APPLICATION", "NOTIFY"} /\ disk \in {0} \union EventIds
    /\ {running, data, dangling} \subseteq BOOLEAN

\* A signal is reported once at most: over all calls of check_event and
\* wait_for_event, an event is reported only if it was signaled since the last
\* report.
SignalsSeenOnce == \A e \in EventIds : unseen[e] >= 0

\* What wait_for_event returns means what its documentation says: Err(Some(i))
\* that event i cannot be waited for (or that there is no event at all), and
\* any other error carries no index.
WaitMeaning ==
    (ret.op = "wait" /\ ~ret.ok) =>
        IF ret.status = "UNSUPPORTED" THEN ret.val = -1
        ELSE ret.es = <<>> \/ events[ret.es[ret.val + 1]].kind = "NOTIFY_SIGNAL"

\* Events and timers do what was asked.  A signal is reported at most once
\* and an error of wait_for_event names the event at fault; a tick signals an
\* event whose timer is periodic, or relative and has not fired, never one
\* that was cancelled, never set, or closed (boot.rs set_timer).
EventsExact ==
    [][/\ SignalsSeenOnce' /\ WaitMeaning'
       /\ ret'.op = "tick" => \A e \in ret'.es : asked[e] \in {"Periodic", "Relative"}]_evvars

\* Notification functions and the disk write only to frames that are alive:
\* the test runner's callbacks ("this callback is run within the parent
\* function's scope, so the context pointer is still valid") and the buffer
\* and token of its asynchronous read.
ContextLive == ~dangling

\* A test of the runner fails only if the firmware refused one of its calls or
\* the disk could not be read, which its assertion on the token detects whenever
\* it happens.  (None of its callbacks is late, and no wait comes at a raised
\* level.)
EventTestsPass ==
    /\ client.pc = 0 => (ret.op \in {"create", "read_disk"} /\ ~ret.ok) \/ client.diskerr
    /\ client.diskerr => client.pc <= Len(Script)

EventTestsRun == client.who = "tests" /\ client.pc \notin {0, Len(Script) + 1}
=============================================================================
