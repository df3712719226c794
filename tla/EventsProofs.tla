---------------------------- MODULE EventsProofs ----------------------------
(***************************************************************************)
(* Proofs about Events: for any number of events, whatever an application  *)
(* or the tests call, signals are reported once, errors of wait_for_event  *)
(* mean what they say, and only timers that were asked for fire.           *)
(***************************************************************************)
EXTENDS Events, WellFoundedInduction, TLAPS

-----------------------------------------------------------------------------
(* The inductive invariant *)

Kinds == {"plain", "NOTIFY_WAIT", "NOTIFY_SIGNAL"}
Types3 == {"Cancel", "Periodic", "Relative"}

\* A family of event structures
Structures(evts) == DOMAIN evts = EventIds /\ \A e \in EventIds : DOMAIN evts[e] = DOMAIN Closed

Types ==
    /\ Structures(events)
    /\ unseen \in [EventIds -> {0, 1}]
    /\ asked \in [EventIds -> Types3]
    /\ disk \in EventIds \union {0}

\* An event the firmware holds as signaled has not been reported since.
SeenIn(evts, seen) == \A e \in EventIds : evts[e].signaled => seen[e] = 1

\* The firmware's timer of an event is the one last asked for.
TimerIn(evts, ask) == \A e \in EventIds : evts[e].delay = Delay(ask[e])

IInv == Types /\ SeenIn(events, unseen) /\ TimerIn(events, asked) /\ WaitMeaning

\* What a step must establish
Exact ==
    /\ SignalsSeenOnce' /\ WaitMeaning'
    /\ ret'.op = "tick" => \A e \in ret'.es : asked[e] \in {"Periodic", "Relative"}
Good == IInv' /\ Exact

-----------------------------------------------------------------------------
(* Notifications and signals *)

\* g is f with notifications queued or run, and possibly fewer signals
Quiet(f, g) ==
    /\ Structures(g)
    /\ \A e \in EventIds :
         g[e].kind = f[e].kind /\ g[e].delay = f[e].delay /\ (g[e].signaled => f[e].signaled)

\* Running notification functions touches no signal, timer or kind.
LEMMA NotifyQuiet ==
    ASSUME NEW evts, NEW level, Structures(evts), Notify(evts, level)
    PROVE  Quiet(evts, events')
<1> DEFINE runs == {e \in EventIds : evts[e].queued /\ level = "APPLICATION"}
<1>1. events' = [e \in EventIds |-> [evts[e] EXCEPT !.queued = @ /\ e \notin runs]]
  BY DEF Notify
<1> HIDE DEF runs
<1>2. ASSUME NEW e \in EventIds
      PROVE  /\ DOMAIN events'[e] = DOMAIN Closed /\ events'[e].kind = evts[e].kind
             /\ events'[e].delay = evts[e].delay /\ events'[e].signaled = evts[e].signaled
  <2>1. events'[e] = [evts[e] EXCEPT !.queued = @ /\ e \notin runs] /\ DOMAIN evts[e] = DOMAIN Closed
    BY <1>1 DEF Structures
  <2> QED BY <2>1 DEF Closed
<1> QED BY <1>1, <1>2 DEF Quiet, Structures

\* Queueing the notifications of a wait touches none of them either.
LEMMA WaitedQuiet ==
    ASSUME NEW evts, NEW es, Structures(evts)
    PROVE  Quiet(evts, Waited(evts, es))
<1>1. ASSUME NEW e \in EventIds
      PROVE  /\ DOMAIN Waited(evts, es)[e] = DOMAIN Closed /\ Waited(evts, es)[e].kind = evts[e].kind
             /\ Waited(evts, es)[e].delay = evts[e].delay /\ Waited(evts, es)[e].signaled = evts[e].signaled
  <2>1. Waited(evts, es)[e] \in {evts[e], [evts[e] EXCEPT !.queued = TRUE]} /\ DOMAIN evts[e] = DOMAIN Closed
    BY DEF Structures, Waited
  <2> QED BY <2>1 DEF Closed
<1>2. DOMAIN Waited(evts, es) = EventIds
  BY DEF Waited
<1> QED BY <1>1, <1>2 DEF Quiet, Structures

\* Taking the signal of an event.
LEMMA TakenQuiet ==
    ASSUME NEW evts, NEW d \in EventIds, Structures(evts)
    PROVE  LET g == [evts EXCEPT ![d].signaled = FALSE]
           IN  Quiet(evts, g) /\ ~g[d].signaled
<1> DEFINE g == [evts EXCEPT ![d].signaled = FALSE]
<1>1. ASSUME NEW e \in EventIds
      PROVE  /\ DOMAIN g[e] = DOMAIN Closed /\ g[e].kind = evts[e].kind
             /\ g[e].delay = evts[e].delay /\ (g[e].signaled => evts[e].signaled)
             /\ e = d => ~g[e].signaled
  <2>1. g[e] = IF e = d THEN [evts[e] EXCEPT !.signaled = FALSE] ELSE evts[e]
    BY Zenon DEF Structures
  <2>2. DOMAIN evts[e] = DOMAIN Closed
    BY DEF Structures
  <2> QED BY <2>1, <2>2 DEF Closed
<1>2. DOMAIN g = EventIds
  BY DEF Structures
<1> HIDE DEF g
<1>3. Quiet(evts, g) /\ ~g[d].signaled
  BY <1>1, <1>2 DEF Quiet, Structures
<1> QED BY <1>3 DEF g

\* Two quiet changes are one.
LEMMA QuietTwice ==
    ASSUME NEW f, NEW g, NEW h, Quiet(f, g), Quiet(g, h)
    PROVE  Quiet(f, h)
BY DEF Quiet

\* Signaling the events of a set touches no timer or kind, and no signal of
\* the others.
LEMMA SignaledStep ==
    ASSUME NEW evts, NEW es, Structures(evts)
    PROVE  /\ Structures(Signaled(evts, es))
           /\ \A e \in EventIds :
                /\ Signaled(evts, es)[e].kind = evts[e].kind
                /\ Signaled(evts, es)[e].delay = evts[e].delay
                /\ e \notin es => Signaled(evts, es)[e] = evts[e]
<1>1. ASSUME NEW e \in EventIds
      PROVE  /\ DOMAIN Signaled(evts, es)[e] = DOMAIN Closed /\ Signaled(evts, es)[e].kind = evts[e].kind
             /\ Signaled(evts, es)[e].delay = evts[e].delay
             /\ e \notin es => Signaled(evts, es)[e] = evts[e]
  <2>1. /\ Signaled(evts, es)[e] \in
             {evts[e], [evts[e] EXCEPT !.queued = TRUE], [evts[e] EXCEPT !.signaled = TRUE]}
        /\ e \notin es => Signaled(evts, es)[e] = evts[e]
        /\ DOMAIN evts[e] = DOMAIN Closed
    BY DEF Structures, Signaled
  <2> QED BY <2>1 DEF Closed
<1>2. DOMAIN Signaled(evts, es) = EventIds
  BY DEF Signaled
<1> QED BY <1>1, <1>2 DEF Structures

-----------------------------------------------------------------------------
(* The calls *)

\* A step that leaves timers alone and accounts for the signals it takes
\* keeps the invariant.
LEMMA Kept ==
    ASSUME IInv, Quiet(events, events'), asked' = asked, disk' \in EventIds \union {0},
           unseen' \in [EventIds -> {0, 1}],
           \A e \in EventIds : events'[e].signaled => unseen'[e] = 1,
           WaitMeaning', ret'.op # "tick"
    PROVE  Good
<1>1. Types'
  BY DEF IInv, Types, Quiet
<1>2. SeenIn(events', unseen') /\ TimerIn(events', asked')
  BY DEF IInv, SeenIn, TimerIn, Quiet
<1>3. SignalsSeenOnce'
  BY <1>1 DEF Types, SignalsSeenOnce
<1>4. IInv'
  BY <1>1, <1>2 DEF IInv
<1>5. Exact
  BY <1>3 DEF Exact
<1> QED BY <1>4, <1>5 DEF Good

\* Nothing about events changes.
LEMMA Unmoved ==
    ASSUME IInv, UNCHANGED <<events, unseen, asked>>, disk' \in EventIds \union {0},
           ret'.op \notin {"tick", "wait"}
    PROVE  Good
<1>1. Quiet(events, events')
  BY DEF IInv, Types, Quiet
<1>2. unseen' \in [EventIds -> {0, 1}]
  BY DEF IInv, Types
<1>3. \A e \in EventIds : events'[e].signaled => unseen'[e] = 1
  BY DEF IInv, SeenIn
<1>4. WaitMeaning'
  BY DEF WaitMeaning
<1> QED BY <1>1, <1>2, <1>3, <1>4, Kept

\* One event is replaced; its report count and trigger start again.
LEMMA ReplacedStep ==
    ASSUME IInv, NEW d \in EventIds, NEW new, DOMAIN events' = EventIds,
           events'[d] = new, \A e \in EventIds : e # d => events'[e] = events[e],
           DOMAIN new = DOMAIN Closed, ~new.signaled, new.delay = "CANCEL",
           unseen' \in {unseen, [unseen EXCEPT ![d] = 0]}, asked' = [asked EXCEPT ![d] = "Cancel"],
           disk' = disk, ret'.op \notin {"tick", "wait"}
    PROVE  Good
<1>1. Structures(events')
  BY DEF IInv, Types, Structures
<1>2. unseen' \in [EventIds -> {0, 1}] /\ \A e \in EventIds : e # d => unseen'[e] = unseen[e]
  BY DEF IInv, Types
<1>3. asked' \in [EventIds -> Types3] /\ asked'[d] = "Cancel" /\ \A e \in EventIds : e # d => asked'[e] = asked[e]
  BY DEF IInv, Types, Types3
<1>5. Types'
  BY <1>1, <1>2, <1>3 DEF IInv, Types
<1>6. SeenIn(events', unseen')
  BY <1>2 DEF IInv, SeenIn
<1>7. TimerIn(events', asked')
  <2>1. Delay("Cancel") = "CANCEL"
    BY DEF Delay
  <2> QED BY <2>1, <1>3 DEF IInv, TimerIn
<1>8. WaitMeaning'
  BY DEF WaitMeaning
<1>9. SignalsSeenOnce'
  BY <1>2 DEF SignalsSeenOnce
<1> QED BY <1>5, <1>6, <1>7, <1>8, <1>9 DEF Good, Exact, IInv

\* create_event, also when the firmware refuses.
LEMMA CreateStep ==
    ASSUME IInv, NEW e \in EventIds, NEW kind, NEW timer, NEW ctx, create_event(e, kind, timer, ctx)
    PROVE  Good
<1> DEFINE new == [Closed EXCEPT !.kind = kind, !.timer = timer, !.ctx = ctx]
<1>1. /\ unseen' = [unseen EXCEPT ![e] = 0] /\ asked' = [asked EXCEPT ![e] = "Cancel"]
      /\ disk' = disk /\ events[e] = Closed
  BY DEF create_event
<1>2. CASE events' = [events EXCEPT ![e] = new] /\ ret' = [op |-> "create", ok |-> TRUE, val |-> e]
  <2>1. DOMAIN new = DOMAIN Closed /\ ~new.signaled /\ new.delay = "CANCEL"
    BY DEF Closed
  <2> HIDE DEF new
  <2>2. ret'.op = "create"
    BY <1>2
  <2>3. DOMAIN events' = EventIds /\ events'[e] = new /\ \A d \in EventIds : d # e => events'[d] = events[d]
    BY <1>2 DEF IInv, Types, Structures
  <2> QED BY <1>1, <2>1, <2>2, <2>3, ReplacedStep, Zenon
<1>3. CASE events' = events /\ ret' = [op |-> "create", ok |-> FALSE, val |-> 0]
  <2>1. DOMAIN events' = EventIds /\ events'[e] = Closed /\ \A d \in EventIds : d # e => events'[d] = events[d]
    BY <1>1, <1>3 DEF IInv, Types, Structures
  <2>2. ~Closed.signaled /\ Closed.delay = "CANCEL" /\ ret'.op = "create"
    BY <1>3 DEF Closed
  <2> QED BY <1>1, <2>1, <2>2, ReplacedStep, Zenon
<1> QED BY <1>2, <1>3 DEF create_event

\* close_event keeps the event's report count; create_event resets it.
LEMMA CloseStep ==
    ASSUME IInv, NEW e \in EventIds, close_event(e)
    PROVE  Good
<1>1. /\ events' = [events EXCEPT ![e] = Closed] /\ asked' = [asked EXCEPT ![e] = "Cancel"]
      /\ disk' = disk /\ unseen' = unseen /\ ret' = [op |-> "close", ok |-> TRUE, val |-> 0]
  BY DEF close_event
<1>2. ~Closed.signaled /\ Closed.delay = "CANCEL" /\ ret'.op = "close"
  BY <1>1 DEF Closed
<1>3. DOMAIN events' = EventIds /\ events'[e] = Closed /\ \A d \in EventIds : d # e => events'[d] = events[d]
  BY <1>1 DEF IInv, Types, Structures
<1> QED BY <1>1, <1>2, <1>3, ReplacedStep, Zenon

\* check_event reports a signal only if there is one, and takes it.
LEMMA CheckStep ==
    ASSUME IInv, NEW e \in EventIds, check_event(e)
    PROVE  Good
<1> DEFINE status == IF events[e].kind = "NOTIFY_SIGNAL" THEN "INVALID_PARAMETER"
                     ELSE IF events[e].signaled THEN "SUCCESS" ELSE "NOT_READY"
<1>1. /\ IF status = "SUCCESS" THEN Notify([events EXCEPT ![e].signaled = FALSE], tpl)
         ELSE Notify(Waited(events, {e}), tpl)
      /\ ret' = Checked(status) /\ unseen' = [unseen EXCEPT ![e] = @ - ret'.val]
      /\ disk' = disk /\ asked' = asked
  BY DEF check_event
<1>2. status = "SUCCESS" => events[e].signaled
  OBVIOUS
<1> HIDE DEF status
<1>3. Structures(events) /\ unseen \in [EventIds -> {0, 1}]
  BY DEF IInv, Types
<1>4. ret'.op = "check" /\ WaitMeaning' /\ disk' \in EventIds \union {0}
  BY <1>1 DEF Checked, WaitMeaning, IInv, Types
<1>5. CASE status = "SUCCESS"
  <2> DEFINE g == [events EXCEPT ![e].signaled = FALSE]
  <2>1. Quiet(events, g) /\ ~g[e].signaled
    BY <1>3, TakenQuiet
  <2>2. Notify(g, tpl)
    BY <1>1, <1>5
  <2> HIDE DEF g
  <2>3. Quiet(g, events')
    BY <2>1, <2>2, NotifyQuiet DEF Quiet
  <2>4. Quiet(events, events') /\ ~events'[e].signaled
    BY <2>1, <2>3, QuietTwice DEF Quiet
  <2>5. ret'.val = 1 /\ unseen[e] = 1
    BY <1>1, <1>2, <1>5 DEF Checked, IInv, SeenIn
  <2>6. unseen' = [unseen EXCEPT ![e] = 0]
    BY <1>1, <2>5
  <2>7. unseen' \in [EventIds -> {0, 1}]
    BY <2>6, <1>3
  <2>8. \A d \in EventIds : events'[d].signaled => unseen'[d] = 1
    BY <2>4, <2>6, <1>3 DEF Quiet, IInv, SeenIn
  <2> QED BY <1>1, <1>4, <2>4, <2>7, <2>8, Kept
<1>6. CASE status # "SUCCESS"
  <2>1. Quiet(events, Waited(events, {e}))
    BY <1>3, WaitedQuiet
  <2>2. Quiet(Waited(events, {e}), events')
    BY <2>1, <1>1, <1>6, NotifyQuiet DEF Quiet
  <2>3. Quiet(events, events')
    BY <2>1, <2>2, QuietTwice
  <2>4. ret'.val = 0
    BY <1>1, <1>6 DEF Checked
  <2>5. unseen' = unseen
    BY <1>1, <2>4, <1>3
  <2>6. \A d \in EventIds : events'[d].signaled => unseen'[d] = 1
    BY <2>3, <2>5 DEF Quiet, IInv, SeenIn
  <2> QED BY <1>1, <1>3, <1>4, <2>3, <2>5, <2>6, Kept
<1> QED BY <1>5, <1>6

\* Signals are counted as the firmware takes them: whatever is signaled has
\* not been reported.
LEMMA SignalKept ==
    ASSUME IInv, NEW evts, NEW es, Structures(evts), Quiet(Signaled(evts, es), events'),
           \A e \in EventIds : evts[e].signaled => events[e].signaled,
           \A e \in EventIds : evts[e].delay = Delay(asked'[e]), asked' \in [EventIds -> Types3],
           Counted(es), disk' \in EventIds \union {0}, ret'.op # "wait"
    PROVE  IInv' /\ SignalsSeenOnce' /\ WaitMeaning'
<1>1. unseen' = [e \in EventIds |-> IF e \in es THEN 1 ELSE unseen[e]]
  BY DEF Counted
<1>2. unseen' \in [EventIds -> {0, 1}]
  BY <1>1 DEF IInv, Types
<1>3. Types'
  BY <1>2 DEF Types, Quiet
<1>4. SeenIn(events', unseen')
  <2> SUFFICES ASSUME NEW e \in EventIds, events'[e].signaled PROVE unseen'[e] = 1
    BY DEF SeenIn
  <2>1. Signaled(evts, es)[e].signaled
    BY DEF Quiet
  <2>2. CASE e \in es
    BY <1>1, <2>2
  <2>3. CASE e \notin es
    <3>1. events[e].signaled
      BY <2>1, <2>3, SignaledStep
    <3> QED BY <3>1, <2>3, <1>1 DEF IInv, SeenIn
  <2> QED BY <2>2, <2>3
<1>5. TimerIn(events', asked')
  <2> SUFFICES ASSUME NEW e \in EventIds PROVE events'[e].delay = Delay(asked'[e])
    BY DEF TimerIn
  <2>1. events'[e].delay = Signaled(evts, es)[e].delay
    BY DEF Quiet
  <2> QED BY <2>1, SignaledStep
<1>6. SignalsSeenOnce'
  BY <1>2 DEF SignalsSeenOnce
<1>7. WaitMeaning'
  BY DEF WaitMeaning
<1> QED BY <1>3, <1>4, <1>5, <1>6, <1>7 DEF IInv

\* signal_event.
LEMMA SignalStep ==
    ASSUME IInv, NEW e \in EventIds, signal_event(e)
    PROVE  Good
<1>1. /\ Notify(Signaled(events, {e}), tpl) /\ Counted({e}) /\ disk' = disk /\ asked' = asked
      /\ ret' = [op |-> "signal", ok |-> TRUE, val |-> 0]
  BY DEF signal_event
<1>2. Structures(events) /\ disk' \in EventIds \union {0} /\ asked' \in [EventIds -> Types3]
  BY <1>1 DEF IInv, Types
<1>3. Quiet(Signaled(events, {e}), events')
  BY <1>1, <1>2, SignaledStep, NotifyQuiet
<1>4. \A d \in EventIds : events[d].delay = Delay(asked'[d])
  BY <1>1 DEF IInv, TimerIn
<1>5. ret'.op = "signal"
  BY <1>1
<1>6. IInv' /\ SignalsSeenOnce' /\ WaitMeaning'
  BY <1>1, <1>2, <1>3, <1>4, <1>5, SignalKept
<1> QED BY <1>5, <1>6 DEF Good, Exact

\* The completion of a disk read, whose event may be gone by then.
LEMMA DiskStep ==
    ASSUME IInv, DiskCompletes
    PROVE  Good
<1>1. /\ events' = Signaled(events, {disk}) /\ Counted({disk}) /\ disk' = 0 /\ asked' = asked
      /\ ret' = [op |-> "disk", ok |-> TRUE, val |-> 0]
  BY DEF DiskCompletes
<1>2. Structures(events) /\ disk' \in EventIds \union {0} /\ asked' \in [EventIds -> Types3]
  BY <1>1 DEF IInv, Types
<1>3. Quiet(Signaled(events, {disk}), events')
  BY <1>1, <1>2, SignaledStep DEF Quiet
<1>4. \A d \in EventIds : events[d].delay = Delay(asked'[d])
  BY <1>1 DEF IInv, TimerIn
<1>5. ret'.op = "disk"
  BY <1>1
<1>6. IInv' /\ SignalsSeenOnce' /\ WaitMeaning'
  BY <1>1, <1>2, <1>3, <1>4, <1>5, SignalKept
<1> QED BY <1>5, <1>6 DEF Good, Exact

\* A tick: the timers that fire are those asked for, and a relative one
\* counts as cancelled from then on.
LEMMA TickStep ==
    ASSUME IInv, Tick
    PROVE  Good
<1> DEFINE armed == {e \in EventIds : events[e].delay # "CANCEL"}
           due == {e \in armed : events[e].left = 0}
           Timed(e) == IF e \notin armed THEN events[e]
                       ELSE IF e \notin due THEN [events[e] EXCEPT !.left = @ - 1]
                       ELSE IF events[e].delay = "PERIODIC" THEN events[e]
                       ELSE [events[e] EXCEPT !.delay = "CANCEL"]
           evts == [e \in EventIds |-> Timed(e)]
<1>1. /\ Notify(Signaled(evts, due), tpl) /\ Counted(due) /\ disk' = disk
      /\ asked' = [e \in EventIds |-> IF e \in due /\ asked[e] = "Relative" THEN "Cancel" ELSE asked[e]]
      /\ ret' = [op |-> "tick", ok |-> TRUE, val |-> 0, es |-> due]
  BY DEF Tick
<1>2. Structures(events) /\ asked \in [EventIds -> Types3] /\ disk' \in EventIds \union {0}
  BY <1>1 DEF IInv, Types
<1>3. asked' \in [EventIds -> Types3]
  BY <1>1, <1>2 DEF Types3
<1>4. ASSUME NEW e \in EventIds
      PROVE  events[e].delay = Delay(asked[e]) /\ asked[e] \in Types3
  BY <1>2 DEF IInv, TimerIn
<1>5. /\ Delay("Cancel") = "CANCEL" /\ Delay("Periodic") = "PERIODIC" /\ Delay("Relative") = "RELATIVE"
  BY DEF Delay
<1>6. ASSUME NEW e \in EventIds
      PROVE  /\ DOMAIN Timed(e) = DOMAIN Closed /\ Timed(e).signaled = events[e].signaled
             /\ Timed(e).delay = IF e \in due /\ events[e].delay # "PERIODIC" THEN "CANCEL" ELSE events[e].delay
  <2>1. DOMAIN events[e] = DOMAIN Closed
    BY <1>2 DEF Structures
  <2>2. DOMAIN Closed = {"kind", "timer", "ctx", "signaled", "queued", "delay", "left"}
    BY DEF Closed
  <2>3. CASE e \notin due
    <3>1. Timed(e) \in {events[e], [events[e] EXCEPT !.left = @ - 1]}
      BY <2>3
    <3> HIDE DEF Timed, due
    <3> QED BY <3>1, <2>1, <2>2, <2>3
  <2>4. CASE e \in due
    <3>1. Timed(e) = IF events[e].delay = "PERIODIC" THEN events[e] ELSE [events[e] EXCEPT !.delay = "CANCEL"]
      BY <2>4
    <3> HIDE DEF Timed, due
    <3> QED BY <3>1, <2>1, <2>2, <2>4
  <2> QED BY <2>3, <2>4
<1>7. \A e \in due : e \in EventIds /\ events[e].delay # "CANCEL"
  OBVIOUS
<1> HIDE DEF Timed, armed, due
<1>8. Structures(evts) /\ \A e \in EventIds : evts[e].signaled => events[e].signaled
  BY <1>6 DEF Structures
<1>9. ASSUME NEW e \in EventIds
      PROVE  evts[e].delay = Delay(asked'[e])
  <2>1. asked'[e] = IF e \in due /\ asked[e] = "Relative" THEN "Cancel" ELSE asked[e]
    BY <1>1
  <2>2. evts[e].delay = IF e \in due /\ events[e].delay # "PERIODIC" THEN "CANCEL" ELSE events[e].delay
    BY <1>6
  <2> QED BY <2>1, <2>2, <1>4, <1>5, <1>7 DEF Types3
<1> HIDE DEF evts
<1>10. Quiet(Signaled(evts, due), events')
  BY <1>1, <1>8, SignaledStep, NotifyQuiet
<1>11. ret'.op = "tick" /\ ret'.es = due
  BY <1>1
<1>12. IInv' /\ SignalsSeenOnce' /\ WaitMeaning'
  BY <1>1, <1>2, <1>3, <1>8, <1>9, <1>10, <1>11, SignalKept
<1>13. \A e \in due : asked[e] \in {"Periodic", "Relative"}
  BY <1>4, <1>5, <1>7 DEF Types3
<1> QED BY <1>11, <1>12, <1>13 DEF Good, Exact

\* set_timer: the firmware arms what was asked, or refuses both.
LEMMA TimerStep ==
    ASSUME IInv, NEW e \in EventIds, NEW trigger, trigger.type \in Types3, set_timer(e, trigger)
    PROVE  Good
<1>1. /\ ret' = [op |-> "set_timer", ok |-> events[e].timer, val |-> 0]
      /\ disk' = disk /\ unseen' = unseen
  BY DEF set_timer
<1>2. ret'.op = "set_timer" /\ disk' \in EventIds \union {0}
  BY <1>1 DEF IInv, Types
<1>3. CASE UNCHANGED <<events, asked>>
  BY <1>1, <1>2, <1>3, Unmoved
<1>4. CASE /\ events' = [events EXCEPT ![e].delay = Delay(trigger.type), ![e].left = TriggerTime(trigger)]
           /\ asked' = [asked EXCEPT ![e] = trigger.type]
  <2>1. Structures(events) /\ asked \in [EventIds -> Types3] /\ unseen' \in [EventIds -> {0, 1}]
    BY <1>1 DEF IInv, Types
  <2>2. asked' \in [EventIds -> Types3]
    BY <1>4, <2>1
  <2>3. ASSUME NEW d \in EventIds
        PROVE  /\ DOMAIN events'[d] = DOMAIN Closed /\ events'[d].signaled = events[d].signaled
               /\ events'[d].delay = IF d = e THEN Delay(trigger.type) ELSE events[d].delay
    <3>1. DOMAIN events[d] = DOMAIN Closed
      BY <2>1 DEF Structures
    <3>2. DOMAIN Closed = {"kind", "timer", "ctx", "signaled", "queued", "delay", "left"}
      BY DEF Closed
    <3>3. CASE d = e
      <4>1. events'[d] = [events[d] EXCEPT !.delay = Delay(trigger.type), !.left = TriggerTime(trigger)]
        BY <1>4, <2>1, <3>3, ZenonT(60) DEF Structures
      <4> QED BY <4>1, <3>1, <3>2, <3>3
    <3>4. CASE d # e
      <4>1. events'[d] = events[d]
        BY <1>4, <2>1, <3>4 DEF Structures
      <4> QED BY <4>1, <3>1, <3>4
    <3> QED BY <3>3, <3>4
  <2>4. Types'
    <3>1. DOMAIN events' = EventIds
      BY <1>4, <2>1 DEF Structures
    <3> QED BY <3>1, <2>1, <2>2, <2>3, <1>2 DEF Types, Structures
  <2>5. SeenIn(events', unseen')
    BY <1>1, <2>3 DEF IInv, SeenIn
  <2>6. TimerIn(events', asked')
    <3>1. \A d \in EventIds : asked'[d] = IF d = e THEN trigger.type ELSE asked[d]
      BY <1>4, <2>1
    <3> QED BY <3>1, <2>3 DEF IInv, TimerIn
  <2>7. WaitMeaning'
    BY <1>2 DEF WaitMeaning
  <2>8. SignalsSeenOnce'
    BY <2>1 DEF SignalsSeenOnce
  <2> QED BY <1>2, <2>4, <2>5, <2>6, <2>7, <2>8 DEF Good, Exact, IInv
<1> QED BY <1>3, <1>4 DEF set_timer

\* A set of indices has a smallest one, which the search finds.
LEMMA Smallest ==
    ASSUME NEW S, S \subseteq Nat, S # {}
    PROVE  \E i \in S : \A j \in S : i <= j
<1>1. IsWellFoundedOn(OpToRel(<, Nat), Nat)
  BY NatLessThanWellFounded
<1>2. PICK i \in S : \A j \in S : ~(<<j, i>> \in OpToRel(<, Nat))
  BY <1>1, WFMin, Zenon
<1>3. \A j \in S : ~(j < i)
  BY <1>2, ZenonT(60) DEF OpToRel
<1> QED BY <1>3

\* wait_for_event takes the signal of the first event that stops it.
LEMMA WaitStep ==
    ASSUME IInv, NEW es \in Seq(EventIds), wait_for_event(es)
    PROVE  Good
<1> DEFINE stops == {i \in DOMAIN es : events[es[i]].kind = "NOTIFY_SIGNAL" \/ events[es[i]].signaled}
           first == CHOOSE i \in stops : \A j \in stops : i <= j
           Error(status, i) == [op |-> "wait", ok |-> FALSE, val |-> WaitError(status, i), es |-> es, status |-> status]
           passed == Waited(events, {es[i] : i \in 1 .. first - 1})
           g == [passed EXCEPT ![es[first]].signaled = FALSE]
<1>1. /\ disk' = disk /\ asked' = asked
      /\ IF tpl # "APPLICATION" \/ es = <<>>
         THEN /\ ret' = IF es = <<>> THEN Error("INVALID_PARAMETER", 0) ELSE Error("UNSUPPORTED", 0)
              /\ UNCHANGED <<events, data, dangling, unseen>>
         ELSE /\ stops # {}
              /\ IF events[es[first]].kind = "NOTIFY_SIGNAL"
                 THEN ret' = Error("INVALID_PARAMETER", first - 1) /\ UNCHANGED unseen
                 ELSE /\ ret' = [op |-> "wait", ok |-> TRUE, val |-> first - 1, es |-> es, status |-> "SUCCESS"]
                      /\ unseen' = [unseen EXCEPT ![es[first]] = @ - 1]
              /\ Notify(g, tpl)
  BY ZenonT(60) DEF wait_for_event
<1>2. stops \subseteq Nat /\ \A i \in stops : es[i] \in EventIds
  OBVIOUS
<1>3. stops # {} => first \in stops
  <2> HIDE DEF stops
  <2> QED BY <1>2, Smallest, ZenonT(60)
<1>4. \A i \in stops : events[es[i]].kind = "NOTIFY_SIGNAL" \/ events[es[i]].signaled
  OBVIOUS
<1> HIDE DEF stops, first
<1>5. /\ Structures(events) /\ unseen \in [EventIds -> {0, 1}] /\ disk' \in EventIds \union {0}
  BY <1>1 DEF IInv, Types
<1>6. CASE tpl # "APPLICATION" \/ es = <<>>
  <2>1. UNCHANGED <<events, unseen>>
    BY <1>1, <1>6
  <2>2. ret'.op = "wait" /\ WaitMeaning'
    <3>1. CASE es = <<>>
      <4>1. ret' = Error("INVALID_PARAMETER", 0)
        BY <1>1, <3>1
      <4> QED BY <4>1, <3>1 DEF WaitMeaning
    <3>2. CASE es # <<>>
      <4>1. ret' = Error("UNSUPPORTED", 0)
        BY <1>1, <1>6, <3>2
      <4> QED BY <4>1 DEF WaitMeaning, WaitError
    <3> QED BY <3>1, <3>2
  <2>3. Quiet(events, events') /\ \A d \in EventIds : events'[d].signaled => unseen'[d] = 1
    BY <2>1, <1>5 DEF Quiet, IInv, SeenIn
  <2> QED BY <1>1, <1>5, <2>1, <2>2, <2>3, Kept
<1>7. CASE ~(tpl # "APPLICATION" \/ es = <<>>)
  <2>1. first \in stops /\ Notify(g, tpl) /\ es[first] \in EventIds /\ first \in Nat
    BY <1>1, <1>2, <1>3, <1>7
  <2>2. Quiet(events, passed)
    BY <1>5, WaitedQuiet
  <2> HIDE DEF passed
  <2>3. Quiet(passed, g) /\ ~g[es[first]].signaled
    BY <2>1, <2>2, TakenQuiet, ZenonT(60) DEF Quiet
  <2> HIDE DEF g
  <2>4. Quiet(g, events')
    BY <2>1, <2>3, NotifyQuiet DEF Quiet
  <2>5. Quiet(events, events') /\ ~events'[es[first]].signaled
    <3>1. Quiet(passed, events')
      BY <2>3, <2>4, QuietTwice, Zenon
    <3>2. Quiet(events, events')
      BY <2>2, <3>1, QuietTwice, Zenon
    <3>3. ~events'[es[first]].signaled
      BY <2>1, <2>3, <2>4, Zenon DEF Quiet
    <3> QED BY <3>2, <3>3
  <2>6. CASE events[es[first]].kind = "NOTIFY_SIGNAL"
    <3>1. ret' = Error("INVALID_PARAMETER", first - 1) /\ unseen' = unseen
      BY <1>1, <1>7, <2>6
    <3>2. ret'.op = "wait" /\ ret'.es = es /\ ret'.val = first - 1 /\ ret'.status = "INVALID_PARAMETER"
      BY <3>1 DEF WaitError
    <3>3. events'[es[first]].kind = "NOTIFY_SIGNAL" /\ first - 1 + 1 = first
      BY <2>1, <2>5, <2>6 DEF Quiet
    <3>4. WaitMeaning'
      BY <3>2, <3>3 DEF WaitMeaning
    <3>5. \A d \in EventIds : events'[d].signaled => unseen'[d] = 1
      BY <2>5, <3>1 DEF Quiet, IInv, SeenIn
    <3> QED BY <1>1, <1>5, <2>5, <3>1, <3>2, <3>4, <3>5, Kept
  <2>7. CASE events[es[first]].kind # "NOTIFY_SIGNAL"
    <3>1. /\ ret' = [op |-> "wait", ok |-> TRUE, val |-> first - 1, es |-> es, status |-> "SUCCESS"]
          /\ unseen' = [unseen EXCEPT ![es[first]] = @ - 1]
      BY <1>1, <1>7, <2>7
    <3>2. unseen[es[first]] = 1
      BY <1>4, <2>1, <2>7 DEF IInv, SeenIn
    <3>3. unseen' = [unseen EXCEPT ![es[first]] = 0]
      BY <3>1, <3>2
    <3>4. unseen' \in [EventIds -> {0, 1}]
      BY <3>3, <1>5, ZenonT(60)
    <3>5. \A d \in EventIds : events'[d].signaled => unseen'[d] = 1
      BY <2>1, <2>5, <3>3, <1>5 DEF Quiet, IInv, SeenIn
    <3>6. ret'.op = "wait" /\ WaitMeaning'
      BY <3>1 DEF WaitMeaning
    <3> QED BY <1>1, <1>5, <2>5, <3>4, <3>5, <3>6, Kept, SMTT(30)
  <2> QED BY <2>6, <2>7
<1> QED BY <1>6, <1>7

\* Levels: restore_tpl runs what is queued.
LEMMA LevelStep ==
    ASSUME IInv, raise_tpl \/ restore_tpl
    PROVE  Good
<1>1. disk' = disk /\ asked' = asked /\ unseen' = unseen /\ ret'.op \in {"raise", "restore"}
  BY DEF raise_tpl, restore_tpl
<1>2. Quiet(events, events')
  <2>1. Structures(events)
    BY DEF IInv, Types
  <2>2. CASE raise_tpl
    BY <2>1, <2>2 DEF raise_tpl, Quiet
  <2>3. CASE restore_tpl
    BY <2>1, <2>3, NotifyQuiet DEF restore_tpl
  <2> QED BY <2>2, <2>3
<1>3. unseen' \in [EventIds -> {0, 1}] /\ disk' \in EventIds \union {0}
  BY <1>1 DEF IInv, Types
<1>4. \A d \in EventIds : events'[d].signaled => unseen'[d] = 1
  BY <1>1, <1>2 DEF Quiet, IInv, SeenIn
<1>5. WaitMeaning'
  BY <1>1 DEF WaitMeaning
<1> QED BY <1>1, <1>2, <1>3, <1>4, <1>5, Kept

-----------------------------------------------------------------------------
(* The tests and the application *)

\* The calls a test makes name one of its five events.
Calls ==
    {Step(op, e) : op \in {"check", "signal", "close", "set_timer", "wait", "read_disk"}, e \in {1, 2, 3, 4, 5}}
    \union {Step(op, 0) : op \in {"raise", "restore", "enter", "leave", "assert"}}
    \union {Create(e, kind, timer, ctx) :
                e \in {1, 2, 3, 4, 5}, kind \in Kinds, timer \in BOOLEAN, ctx \in BOOLEAN}

\* A tuple of elements of a set is a sequence over it.
LEMMA Tuples ==
    ASSUME NEW S
    PROVE  /\ \A a, b, c \in S : <<a, b, c>> \in Seq(S)
           /\ \A a, b, c, d \in S : <<a, b, c, d>> \in Seq(S)
           /\ \A a, b, c, d, x \in S : <<a, b, c, d, x>> \in Seq(S)
           /\ \A a, b, c, d, x, y \in S : <<a, b, c, d, x, y>> \in Seq(S)
OBVIOUS

LEMMA ScriptCalls == Script \in Seq(Calls)
<1>1. \A e \in {1, 2, 3, 4, 5}, op \in {"check", "signal", "close", "set_timer", "wait", "read_disk"} :
          Step(op, e) \in Calls
  BY DEF Calls
<1>2. \A op \in {"raise", "restore", "enter", "leave", "assert"} : Step(op, 0) \in Calls
  BY DEF Calls
<1>3. \A e \in {1, 2, 3, 4, 5}, kind \in Kinds, timer \in BOOLEAN, ctx \in BOOLEAN :
          Create(e, kind, timer, ctx) \in Calls
  BY DEF Calls
<1>4. test_tpl \in Seq(Calls)
  BY <1>2 DEF test_tpl
<1>5. test_check_event \in Seq(Calls)
  <2>1. Create(1, "NOTIFY_WAIT", FALSE, FALSE) \in Calls /\ Step("check", 1) \in Calls /\ Step("close", 1) \in Calls
    BY <1>1, <1>3, Zenon DEF Kinds
  <2> QED BY <2>1, Tuples, Zenon DEF test_check_event
<1>6. test_timer \in Seq(Calls)
  <2>1. /\ Create(2, "plain", TRUE, FALSE) \in Calls /\ Step("set_timer", 2) \in Calls
        /\ Step("wait", 2) \in Calls /\ Step("close", 2) \in Calls
    BY <1>1, <1>3, Zenon DEF Kinds
  <2> QED BY <2>1, Tuples, Zenon DEF test_timer
<1>7. test_callback_with_ctx \in Seq(Calls)
  <2>1. Create(3, "NOTIFY_WAIT", FALSE, TRUE) \in Calls /\ Step("check", 3) \in Calls
    BY <1>1, <1>3, Zenon DEF Kinds
  <2>2. Step("enter", 0) \in Calls /\ Step("assert", 0) \in Calls /\ Step("leave", 0) \in Calls
    BY <1>2
  <2> QED BY <2>1, <2>2, Tuples, Zenon DEF test_callback_with_ctx
<1>8. test_signal_event \in Seq(Calls)
  <2>1. Create(4, "NOTIFY_SIGNAL", FALSE, TRUE) \in Calls /\ Step("signal", 4) \in Calls
    BY <1>1, <1>3, Zenon DEF Kinds
  <2>2. Step("enter", 0) \in Calls /\ Step("assert", 0) \in Calls /\ Step("leave", 0) \in Calls
    BY <1>2
  <2> QED BY <2>1, <2>2, Tuples, Zenon DEF test_signal_event
<1>9. test_raw_disk_io2 \in Seq(Calls)
  <2>1. Create(5, "plain", FALSE, FALSE) \in Calls /\ Step("read_disk", 5) \in Calls /\ Step("wait", 5) \in Calls
    BY <1>1, <1>3, Zenon DEF Kinds
  <2>2. Step("enter", 0) \in Calls /\ Step("assert", 0) \in Calls /\ Step("leave", 0) \in Calls
    BY <1>2
  <2> QED BY <2>1, <2>2, Tuples, Zenon DEF test_raw_disk_io2
<1> QED BY <1>4, <1>5, <1>6, <1>7, <1>8, <1>9 DEF Script

\* A step of the tests.
LEMMA TestsStep ==
    ASSUME IInv, TestStep
    PROVE  Good
<1> DEFINE step == Script[client.pc]
<1>1. step \in Calls
  BY ScriptCalls DEF TestStep
<1>2. \/ step.op = "create" /\ create_event(step.e, step.kind, step.timer, step.ctx)
      \/ step.op = "check" /\ check_event(step.e)
      \/ step.op = "signal" /\ signal_event(step.e)
      \/ step.op = "close" /\ close_event(step.e)
      \/ step.op = "set_timer" /\ set_timer(step.e, [type |-> "Relative", time |-> 1])
      \/ step.op = "wait" /\ wait_for_event(<<step.e>>)
      \/ step.op = "raise" /\ raise_tpl
      \/ step.op = "restore" /\ restore_tpl
      \/ step.op = "read_disk" /\ read_disk_raw(step.e)
      \/ Local(step)
  BY DEF TestStep
<1> HIDE DEF step
<1>3. step.op \in {"create", "check", "signal", "close", "set_timer", "wait", "read_disk"} => step.e \in EventIds
  <2>1. CASE \E op \in {"check", "signal", "close", "set_timer", "wait", "read_disk"}, e \in {1, 2, 3, 4, 5} :
                 step = Step(op, e)
    BY <2>1 DEF Step, EventIds
  <2>2. CASE \E op \in {"raise", "restore", "enter", "leave", "assert"} : step = Step(op, 0)
    BY <2>2 DEF Step
  <2>3. CASE \E e \in {1, 2, 3, 4, 5}, kind \in Kinds, timer \in BOOLEAN, ctx \in BOOLEAN :
                 step = Create(e, kind, timer, ctx)
    BY <2>3 DEF Create, EventIds
  <2> QED BY <1>1, <2>1, <2>2, <2>3 DEF Calls
<1>4. CASE step.op = "create" /\ create_event(step.e, step.kind, step.timer, step.ctx)
  BY <1>3, <1>4, CreateStep
<1>5. CASE step.op = "check" /\ check_event(step.e)
  BY <1>3, <1>5, CheckStep
<1>6. CASE step.op = "signal" /\ signal_event(step.e)
  BY <1>3, <1>6, SignalStep
<1>7. CASE step.op = "close" /\ close_event(step.e)
  BY <1>3, <1>7, CloseStep
<1>8. CASE step.op = "set_timer" /\ set_timer(step.e, [type |-> "Relative", time |-> 1])
  BY <1>3, <1>8, TimerStep DEF Types3
<1>9. CASE step.op = "wait" /\ wait_for_event(<<step.e>>)
  <2>1. <<step.e>> \in Seq(EventIds)
    BY <1>3, <1>9
  <2> QED BY <1>9, <2>1, WaitStep, ZenonT(60)
<1>10. CASE raise_tpl \/ restore_tpl
  BY <1>10, LevelStep
<1>11. CASE step.op = "read_disk" /\ read_disk_raw(step.e)
  <2>1. UNCHANGED <<events, unseen, asked>> /\ disk' \in {step.e, disk} /\ ret'.op = "read_disk"
    BY <1>11 DEF read_disk_raw
  <2>2. disk' \in EventIds \union {0}
    BY <1>3, <1>11, <2>1 DEF IInv, Types
  <2> QED BY <2>1, <2>2, Unmoved
<1>12. CASE Local(step)
  <2>1. UNCHANGED <<events, unseen, asked>> /\ disk' = disk /\ ret'.op \in {"none", "assert"}
    BY <1>12 DEF Local, NoRet
  <2>2. disk' \in EventIds \union {0}
    BY <2>1 DEF IInv, Types
  <2> QED BY <2>1, <2>2, Unmoved
<1> QED BY <1>2, <1>4, <1>5, <1>6, <1>7, <1>8, <1>9, <1>10, <1>11, <1>12

\* A call of any other application.
LEMMA AnyStep ==
    ASSUME IInv, AnyCall
    PROVE  Good
<1>1. AnyIds \subseteq EventIds
  BY DEF EventIds
<1>2. ASSUME NEW e \in AnyIds, NEW kind, create_event(e, kind, kind # "NOTIFY_WAIT", FALSE)
      PROVE  Good
  BY <1>1, <1>2, CreateStep, ZenonT(60)
<1>3. ASSUME NEW e \in AnyIds, check_event(e) \/ signal_event(e) \/ close_event(e)
      PROVE  Good
  BY <1>1, <1>3, CheckStep, SignalStep, CloseStep
<1>4. ASSUME NEW e \in AnyIds, NEW trigger \in Triggers, set_timer(e, trigger)
      PROVE  Good
  <2>1. trigger.type \in Types3
    BY DEF Triggers, Types3
  <2> QED BY <1>1, <1>4, <2>1, TimerStep
<1>5. ASSUME NEW es \in WaitLists, wait_for_event(es)
      PROVE  Good
  <2>1. es \in Seq(EventIds)
    <3>1. CASE es = <<>>
      BY <3>1
    <3>2. CASE \E e \in AnyIds : es = <<e>>
      BY <3>2, <1>1
    <3>3. CASE \E d, e \in AnyIds : es = <<d, e>>
      BY <3>3, <1>1
    <3> QED BY <3>1, <3>2, <3>3 DEF WaitLists
  <2> QED BY <1>5, <2>1, WaitStep
<1>6. CASE raise_tpl \/ restore_tpl
  BY <1>6, LevelStep
<1>7. CASE \E e \in AnyIds, kind \in {"plain", "NOTIFY_WAIT", "NOTIFY_SIGNAL"} :
               create_event(e, kind, kind # "NOTIFY_WAIT", FALSE)
  BY <1>2, <1>7, Zenon
<1>8. CASE \E e \in AnyIds : check_event(e) \/ signal_event(e) \/ close_event(e)
  BY <1>3, <1>8, Zenon
<1>9. CASE \E e \in AnyIds, trigger \in Triggers : set_timer(e, trigger)
  BY <1>4, <1>9, Zenon
<1>10. CASE \E es \in WaitLists : wait_for_event(es)
  BY <1>5, <1>10, Zenon
<1> QED BY <1>6, <1>7, <1>8, <1>9, <1>10, ZenonT(60) DEF AnyCall

-----------------------------------------------------------------------------
(* The results *)

LEMMA InitialStates == EventsInit => IInv
<1> SUFFICES ASSUME EventsInit PROVE IInv
  OBVIOUS
<1>1. events = [e \in EventIds |-> Closed] /\ ~Closed.signaled /\ Closed.delay = "CANCEL"
  BY DEF EventsInit, Closed
<1>2. Types
  BY <1>1 DEF EventsInit, Types, Structures, Types3
<1>3. SeenIn(events, unseen) /\ TimerIn(events, asked)
  BY <1>1 DEF EventsInit, SeenIn, TimerIn, Delay
<1>4. WaitMeaning
  BY DEF EventsInit, NoRet, WaitMeaning
<1> QED BY <1>2, <1>3, <1>4 DEF IInv

LEMMA InvariantStep == IInv /\ [EventsNext]_evvars => IInv'
<1>1. ASSUME IInv, EventsNext PROVE IInv'
  BY <1>1, TestsStep, AnyStep, TickStep, DiskStep, SMTT(30) DEF EventsNext, Good
<1>2. ASSUME IInv, UNCHANGED evvars PROVE IInv'
  BY <1>2 DEF evvars, IInv, Types, WaitMeaning
<1> QED BY <1>1, <1>2

\* Signals are reported once, errors of wait_for_event name the event at
\* fault, and a tick signals only events whose timer was set and neither
\* cancelled nor closed since (boot.rs): for any number of events, any calls
\* and any times.
THEOREM EventsExactCorrect == EventsSpec => EventsExact
<1>1. EventsInit => IInv
  BY InitialStates
<1>2. IInv /\ [EventsNext]_evvars => IInv'
  BY InvariantStep
<1>3. IInv /\ [EventsNext]_evvars => [Exact]_evvars
  <2>1. ASSUME IInv, EventsNext PROVE Exact
    BY <2>1, TestsStep, AnyStep, TickStep, DiskStep DEF EventsNext, Good
  <2> QED BY <2>1
<1> QED BY <1>1, <1>2, <1>3, PTL DEF EventsSpec, EventsExact, Exact
=============================================================================
