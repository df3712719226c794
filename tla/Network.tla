------------------------------- MODULE Network -------------------------------
(***************************************************************************)
(* An application that brings an interface up and speaks HTTP over it:     *)
(* HttpHelper and Ip4Config2 on one network interface.                     *)
(***************************************************************************)
EXTENDS HttpHelper, Ip4Config2

vars == <<http_vars, ip4_vars>>

Init == HttpInit /\ Ip4Init

\* One thread: a call starts when the other component is idle.
Next ==
    \/ ifup_pc = "idle" /\ HttpStart /\ ip4_quiet
    \/ ifup_pc = "idle" /\ configure(address) /\ ip4_quiet
    \/ (HttpCall \/ poll) /\ ip4_quiet
    \/ At("idle") /\ ifup /\ UNCHANGED http_vars
    \/ Ip4Call /\ UNCHANGED http_vars
    \/ HttpFirmware /\ ip4_quiet
    \/ fw_lease /\ UNCHANGED http_vars

\* The processor goes on with a call that has started.  The firmware
\* completes the tokens it holds: configure gives it a time limit of ten
\* seconds for each.  poll is not obliged to fail.
FairSpec ==
    /\ Init /\ [][Next]_vars
    /\ WF_vars(HttpCall /\ ip4_quiet)
    /\ WF_vars(Ip4Call /\ UNCHANGED http_vars)
    /\ WF_vars((\E f \in pending : fw_complete(f)) /\ ip4_quiet)

-----------------------------------------------------------------------------
Statuses == {"NOT_READY", "SUCCESS", "HTTP_ERROR", "ABORTED"}

\* Types: every variable has the type of what it stands for in http.rs and
\* ip4config2.rs; the token belongs to the frame of a call in progress.
TypeOK ==
    /\ Cardinality(helper) <= 1 /\ \A h \in helper : h.child \in Children
    /\ frame \in 0 .. MaxFrames /\ pending \subseteq 1 .. frame
    /\ IF pc = "poll" THEN call \in Responses \cup {"request"} /\ status \in Statuses
                      ELSE call = None /\ status = None
    /\ body_length <= capacity /\ capacity \in {0, BufferUnits}
    /\ child \in Children \cup {None} /\ kept \subseteq Children
    /\ policy \in {"STATIC", "DHCP"} /\ round \in 0 .. Seconds
    /\ outcome \in {"none", "Ok", "TIMEOUT", "BUFFER_TOO_SMALL", "DEVICE_ERROR"}

\* HttpHelper: the firmware never holds, or writes to, a token of a call
\* that has returned, unless that call returned because poll failed; and the
\* bytes response_first and response_more return are the bytes the firmware
\* delivered, as long as no response ended in an error.
ResponseIntact ==
    /\ TypeOK
    /\ pending \subseteq {f \in {frame} : pc = "poll"} \cup abandoned
    /\ stray \subseteq abandoned
    /\ At("idle") /\ ~ failed => received = sent

\* The two records a helper stands for
NicRecord == Record(NicPair, App, None, "GetProtocol")
ChildRecord(c) == Record(ChildPair(c), App, None, "GetProtocol")
OpenBy(h) == {NicRecord, ChildRecord(h.child)}

\* HttpHelper::new and drop: whenever no call is in progress the only child
\* in the system is the helper's, apart from those the firmware refused to
\* destroy, and the application has open exactly what the helper holds.  A
\* new that fails halfway leaves nothing behind.
NothingLeftBehind ==
    At("idle") =>
        /\ Existing \subseteq {h.child : h \in helper} \cup kept
        /\ ~ unplugged => opens = SetToBag(UNION {OpenBy(h) : h \in helper})

\* ifup: TIMEOUT only after all its seconds with DHCP turned on; Ok only
\* with an address at that moment; BUFFER_TOO_SMALL only if the address
\* came between the two calls of get_data.
IfupOutcome ==
    [][ outcome' # outcome =>
          /\ outcome' = "TIMEOUT" => stalled = Seconds /\ policy = "DHCP" /\ ~ address
          /\ outcome' = "Ok" => address
          /\ outcome' = "BUFFER_TOO_SMALL" => grew ]_vars
=============================================================================
