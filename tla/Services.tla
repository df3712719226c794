------------------------------ MODULE Services ------------------------------
(***************************************************************************)
(* Programs on the services of the firmware: the graphics output, events    *)
(* and timers, the processors, a network card, images, the text console,    *)
(* HTTP and IPv4 configuration.  The test runner uses one after the other;  *)
(* `part` is the one in use, by the test of that service or by any other    *)
(* program.                                                                 *)
(***************************************************************************)
EXTENDS Gop, Events, Processors, Snp, Images, TextOutput, Network

VARIABLE part

servicevars == <<part, gopvars, evvars, mpvars, snpvars, imgvars, outvars, vars>>

ServicesInit ==
    /\ part \in {"gop", "events", "processors", "snp", "images", "text", "network"}
    /\ IF part = "gop" THEN GopInit
       ELSE /\ table = [i \in 0 .. MaxMode - 1 |-> CHOOSE m \in Modes : m.ok] /\ current = 0
            /\ modeiter = NoIter /\ modesout = <<>> /\ infos = {} /\ access = NoAccess
    /\ EventsInit /\ (part # "events" => client.who = "any")
    /\ MpInit /\ (part # "processors" => mpclient.who = "any")
    /\ SnpInit /\ (part # "snp" => /\ \A n \in DOMAIN nics : nics[n].openable /\ nics[n].media /\ nics[n].mac
                                   /\ nic.state = "STOPPED" /\ nic.ints = {} /\ nic.stats = "counts")
    /\ ImagesInit /\ (part # "images" => path = <<>>)
    /\ TextOutputInit /\ (part # "text" => console.max = 0)
    /\ Init /\ (part # "network" => ~ address)

ServicesNext ==
    /\ UNCHANGED part
    /\ \/ part = "gop" /\ GopNext /\ UNCHANGED <<evvars, mpvars, snpvars, imgvars, outvars, vars>>
       \/ part = "events" /\ EventsNext /\ UNCHANGED <<gopvars, mpvars, snpvars, imgvars, outvars, vars>>
       \/ part = "processors" /\ MpNext /\ UNCHANGED <<gopvars, evvars, snpvars, imgvars, outvars, vars>>
       \/ part = "snp" /\ SnpNext /\ UNCHANGED <<gopvars, evvars, mpvars, imgvars, outvars, vars>>
       \/ part = "images" /\ ImagesNext /\ UNCHANGED <<gopvars, evvars, mpvars, snpvars, outvars, vars>>
       \/ part = "text" /\ TextOutputNext /\ UNCHANGED <<gopvars, evvars, mpvars, snpvars, imgvars, vars>>
       \/ part = "network" /\ Next /\ UNCHANGED <<gopvars, evvars, mpvars, snpvars, imgvars, outvars>>

(***************************************************************************)
(* The test programs go on; while one runs, timers expire, disk requests    *)
(* and processors finish, the card sends what it was given.  Nobody else    *)
(* has to act, no frame has to arrive and nothing has to fail.  Of the      *)
(* network what its FairSpec assumes: calls go on, and the firmware         *)
(* completes its tokens.                                                    *)
(***************************************************************************)
EventsGoOn(A) ==
    /\ part = "events" /\ EventTestsRun /\ A
    /\ UNCHANGED <<part, gopvars, mpvars, snpvars, imgvars, outvars, vars>>
ProcessorsGoOn(A) ==
    /\ part = "processors" /\ MpTestsRun /\ A
    /\ UNCHANGED <<part, gopvars, evvars, snpvars, imgvars, outvars, vars>>
SnpGoesOn(A) ==
    /\ part = "snp" /\ SnpRuns /\ A
    /\ UNCHANGED <<part, gopvars, evvars, mpvars, imgvars, outvars, vars>>
NetworkGoesOn(A) ==
    /\ part = "network" /\ A
    /\ UNCHANGED <<part, gopvars, evvars, mpvars, snpvars, imgvars, outvars>>

ServicesFairness ==
    /\ WF_servicevars(EventsGoOn(TestStep)) /\ WF_servicevars(EventsGoOn(Tick))
    /\ WF_servicevars(EventsGoOn(DiskCompletes))
    /\ WF_servicevars(ProcessorsGoOn(MpTestStep)) /\ WF_servicevars(ProcessorsGoOn(StartupReturns))
    /\ WF_servicevars(ProcessorsGoOn(Clock))
    /\ WF_servicevars(ProcessorsGoOn(\E n \in Cpus : ApStarts(n) \/ ApEnds(n)))
    /\ WF_servicevars(SnpGoesOn(SnpTest)) /\ WF_servicevars(SnpGoesOn(NicSends))
    /\ WF_servicevars(NetworkGoesOn((HttpCall /\ ip4_quiet) \/ (Ip4Call /\ UNCHANGED http_vars)))
    /\ WF_servicevars(NetworkGoesOn((\E f \in pending : fw_complete(f)) /\ ip4_quiet))

ServicesSpec == ServicesInit /\ [][ServicesNext]_servicevars /\ ServicesFairness

\* Every part's state has its type.
ServicesTypeOK ==
    /\ GopTypeOK /\ EventsTypeOK /\ MpTypeOK /\ SnpTypeOK /\ ImagesTypeOK /\ TextOutputTypeOK

\* Every wait ends.  The tests of events (misc.rs, media.rs), processors
\* (pi/mp.rs) and the network card (network/snp.rs) pass or panic: no
\* wait_for_event, busy loop on an event or a blocking start of processors
\* waits for something that does not happen.  request, response_first and
\* response_more (http.rs) return because the firmware completes or aborts the
\* tokens it holds, ifup (ip4config2.rs) by its own count.
Waiting ==
    \/ part = "events" /\ EventTestsRun
    \/ part = "processors" /\ MpTestsRun
    \/ part = "snp" /\ SnpRuns
    \/ part = "network" /\ (pc = "poll" \/ ifup_pc # "idle")
ServicesEnd == Waiting ~> ~ Waiting

\* Nothing is used after its end or kept beyond it: contexts, buffers and
\* tokens the firmware or another processor writes to, pool memory of images,
\* and the network interface the test opens.
LifetimesExact ==
    /\ ServicesTypeOK
    /\ ContextLive /\ NoStrayProcessor
    /\ PoolAccounted /\ OneDeviceOpen

\* The repository's programs do their job: the tests of events, processors,
\* the network card and the console fail only for a reason outside them, and
\* the shell launcher runs the image that was asked for.
ProgramsExact ==
    /\ EventTestsPass /\ MpTestsPass /\ SnpPanicsForAReason /\ BestModeSet
    /\ LoadsWhatWasAsked

-----------------------------------------------------------------------------
\* Display modes for TLC: a linear frame buffer, none, and a broken mode.
MCModes == {[ok |-> TRUE, width |-> 2, height |-> 2, format |-> "Rgb", size |-> 16],
            [ok |-> TRUE, width |-> 3, height |-> 1, format |-> "BltOnly", size |-> 12],
            [ok |-> FALSE, width |-> 0, height |-> 0, format |-> "Rgb", size |-> 0]}
=============================================================================
