----------------------------- MODULE HttpHelper ------------------------------
(***************************************************************************)
(* HttpHelper (uefi/src/proto/network/http.rs): the child handle it        *)
(* creates and destroys, the two protocols it holds open, and the tokens   *)
(* it lends to the firmware while a call waits for them.                   *)
(*                                                                         *)
(* A token, its message and its buffers live in the stack frame of the     *)
(* call.  Frames are numbered; a frame is alive while its call runs.  The  *)
(* firmware completes a token at a time of its own choosing and then       *)
(* writes to the frame.  A body is a number of units, and a buffer of      *)
(* 16 KiB holds BufferUnits of them.                                       *)
(***************************************************************************)
EXTENDS HandleDatabase

CONSTANTS
    Nic, Children,      \* bound: handles the binding can create
    HttpBinding, Http,  \* the protocols
    MaxFrames,          \* bound: calls that lend a token
    BufferUnits,
    MaxBody             \* bound: units the server sends

ASSUME BodyAssumption == BufferUnits \in Nat \ {0} /\ MaxBody \in Nat /\ MaxFrames \in Nat

VARIABLES
    helper,         \* HttpHelper: {} or [child, binding, protocol]
    configured,     \* the firmware has the configuration of the child
    pc,             \* the call in progress
    child, binding, \* locals of new
    frame,          \* frames used so far; the last one is alive while pc is "poll"
    call, status, body_length, capacity,    \* the call that owns the frame, its token
    pending,        \* tokens the firmware holds, by frame
    sent,           \* history: body units the firmware wrote to tokens
    received,       \* history: body units returned to the application
    stray,          \* history: frames written to after their call had returned
    abandoned,      \* history: frames left because poll failed
    kept,           \* history: children whose destruction failed
    failed,         \* history: a response returned Err, or its Ok could not be built
    unplugged,      \* history: the driver removed the binding
    panic

token == <<frame, call, status, body_length, capacity, pending, sent, received, stray, abandoned, failed>>
http_vars == <<iface, opens, helper, configured, pc, child, binding, token, kept, unplugged, panic>>

ChildPair(c) == <<c, Http>>
NicPair == <<Nic, HttpBinding>>
HttpPairs == {NicPair} \cup {ChildPair(c) : c \in Children}
Existing == {c \in Children : iface[ChildPair(c)] # NoIface}

ASSUME HttpPairsAssumption == HttpPairs \subseteq Pairs /\ HttpBinding # Http

HttpInit ==
    /\ iface = [hp \in Pairs |-> IF hp = NicPair THEN "binding" ELSE NoIface]
    /\ opens = EmptyBag
    /\ helper = {} /\ configured = FALSE /\ pc = "idle" /\ child = None /\ binding = {}
    /\ frame = 0 /\ call = None /\ status = None /\ body_length = 0 /\ capacity = 0
    /\ pending = {} /\ sent = 0 /\ received = 0 /\ stray = {} /\ abandoned = {}
    /\ kept = {} /\ failed = FALSE /\ unplugged = FALSE /\ panic = FALSE

At(label) == ~ panic /\ pc = label

\* create_child installs the protocol on a new handle; destroy_child removes
\* it, whoever has it open, and aborts what is pending on it.
fw_create_child(c) == fw_install(ChildPair(c), "http")
fw_destroy_child(c) == fw_replace(ChildPair(c), "http", NoIface)

\* The drop of a ScopedProtocol: its record goes, or the assertion panics.
Close(s, label) ==
    \E o \in close_protocol(s) :
        /\ opens' = o[2] /\ UNCHANGED iface
        /\ IF o[1] = "SUCCESS" THEN pc' = label /\ UNCHANGED panic
                               ELSE panic' = TRUE /\ UNCHANGED pc

-----------------------------------------------------------------------------
(* HttpHelper::new *)

new ==
    /\ At("idle") /\ helper = {}
    /\ \E o \in open_protocol(NicPair, None) :
          /\ opens' = o.opens /\ binding' = o.scoped
          /\ pc' = IF o.scoped = {} THEN "idle" ELSE "create_child"
    /\ UNCHANGED <<configured, iface, helper, child, token, kept, unplugged, panic>>

new_create_child ==
    /\ At("create_child")
    /\ \/ \E c \in Children : ~ unplugged /\ fw_create_child(c) /\ child' = c /\ pc' = "open_http"
       \/ pc' = "drop_binding" /\ UNCHANGED <<iface, opens, child>>
    /\ configured' = FALSE
    /\ UNCHANGED <<helper, binding, token, kept, unplugged, panic>>

\* Mutated form: the child is left behind when its protocol cannot be opened.
OpenFailsTo_drop_binding == "drop_binding"

OpenFailsTo == "destroy_child"

\* The firmware may refuse to open the protocol of a child it created.
new_open_http ==
    /\ At("open_http")
    /\ \/ \E o \in open_protocol(ChildPair(child), None) :
             /\ o.scoped # {} /\ opens' = o.opens
             /\ helper' = {[child |-> child, binding |-> binding, protocol |-> o.scoped]}
             /\ pc' = "idle" /\ child' = None /\ binding' = {}
       \/ pc' = OpenFailsTo /\ UNCHANGED <<opens, helper, child, binding>>
    /\ UNCHANGED <<configured, iface, token, kept, unplugged, panic>>

\* The result of destroy_child is ignored.
Destroy(c, label) ==
    /\ pc' = label
    /\ \/ fw_destroy_child(c) /\ UNCHANGED kept
       \/ kept' = kept \cup {c} /\ UNCHANGED <<iface, opens>>

new_destroy_child ==
    /\ At("destroy_child") /\ Destroy(child, "drop_binding")
    /\ UNCHANGED <<configured, helper, child, binding, token, unplugged, panic>>

new_drop_binding ==
    /\ At("drop_binding") /\ \E s \in binding : Close(s, "idle")
    /\ binding' = {} /\ child' = None
    /\ UNCHANGED <<configured, helper, token, kept, unplugged>>

-----------------------------------------------------------------------------
(* The drop of HttpHelper *)

FirstDropped == "drop_protocol"

drop_helper ==
    /\ At("idle") /\ helper # {}
    /\ pc' = FirstDropped
    /\ UNCHANGED <<configured, iface, opens, helper, child, binding, token, kept, unplugged, panic>>

\* protocol = None
drop_protocol ==
    /\ At("drop_protocol")
    /\ \E h \in helper : \E s \in h.protocol :
          Close(s, IF FirstDropped = "drop_protocol" THEN "drop_child" ELSE "drop_fields")
    /\ UNCHANGED <<configured, helper, child, binding, token, kept, unplugged>>

drop_child ==
    /\ At("drop_child")
    /\ \E h \in helper :
          Destroy(h.child, IF FirstDropped = "drop_protocol" THEN "drop_fields" ELSE "drop_protocol")
    /\ UNCHANGED <<configured, helper, child, binding, token, unplugged, panic>>

\* The fields are dropped after drop has run: binding is the last one open.
drop_fields ==
    /\ At("drop_fields")
    /\ \E h \in helper : \E s \in h.binding : Close(s, "idle")
    /\ helper' = {}
    /\ UNCHANGED <<configured, child, binding, token, kept, unplugged>>

-----------------------------------------------------------------------------
(* request, response_first and response_more: lend a token, poll until its *)
(* status changes.                                                         *)

Responses == {"response_first", "response_head", "response_more"}

\* The body buffer of a call; response_head is response_first(false).
BufferOf(c) == IF c \in {"response_first", "response_more"} THEN BufferUnits ELSE 0

\* The firmware takes the token of a configured child, or refuses it.
lend(c) ==
    /\ frame < MaxFrames /\ frame' = frame + 1
    /\ \/ /\ configured /\ ~ unplugged
          /\ pending' = pending \cup {frame'} /\ pc' = "poll"
          /\ call' = c /\ status' = "NOT_READY" /\ capacity' = BufferOf(c) /\ body_length' = BufferOf(c)
       \/ UNCHANGED <<pending, pc, call, status, capacity, body_length>>
    /\ UNCHANGED <<sent, received, stray, abandoned, failed>>

Urls == {"with host", "no host", "not UCS-2"}

\* A URL that does not fit CString16 panics; one without a host is refused.
request(url) ==
    /\ At("idle") /\ helper # {}
    /\ \/ url = "not UCS-2" /\ panic' = TRUE /\ UNCHANGED <<token, pc>>
       \/ url = "no host" /\ UNCHANGED <<token, pc, panic>>
       \/ url = "with host" /\ lend("request") /\ UNCHANGED panic
    /\ UNCHANGED <<iface, opens, helper, configured, child, binding, kept, unplugged>>

response(c) ==
    /\ At("idle") /\ helper # {} /\ lend(c)
    /\ UNCHANGED <<iface, opens, helper, configured, child, binding, kept, unplugged, panic>>

\* A station address has to be there for use_default_addr.
configure(address) ==
    /\ At("idle") /\ helper # {}
    /\ configured' \in {configured} \cup (IF address /\ ~ unplugged THEN {TRUE} ELSE {})
    /\ UNCHANGED <<iface, opens, helper, pc, child, binding, token, kept, unplugged, panic>>

\* The call returns and its frame is gone.
Return ==
    /\ pc' = "idle" /\ call' = None /\ status' = None /\ body_length' = 0 /\ capacity' = 0

\* Mutated form: a token that is still not ready counts as done.
Done_any == TRUE

Done == status # "NOT_READY"

BodyReturned == body_length

\* HTTP_ERROR is an answer of the server: response_first passes its headers
\* and body on; the other calls turn it into Err.
Accepted == IF call \in {"response_first", "response_head"} THEN {"SUCCESS", "HTTP_ERROR"} ELSE {"SUCCESS"}

\* Err, Ok, or a panic for a header that is not UTF-8
finish ==
    /\ At("poll") /\ Done
    /\ Return
    /\ \/ /\ status \in Accepted
          /\ received' = received + (IF call = "request" THEN 0 ELSE BodyReturned)
          /\ UNCHANGED <<failed, panic>>
       \/ status \notin Accepted /\ failed' = TRUE /\ UNCHANGED <<received, panic>>
       \/ /\ status \in Accepted /\ call \in {"response_first", "response_head"}
          /\ failed' = TRUE /\ panic' = TRUE /\ UNCHANGED received
    /\ UNCHANGED <<configured, iface, opens, helper, child, binding, frame, pending, sent, stray, abandoned, kept, unplugged>>

\* An error of poll returns at once, with the token still lent.
poll ==
    /\ At("poll") /\ ~ Done
    /\ \/ UNCHANGED http_vars
       \/ /\ Return /\ abandoned' = abandoned \cup {frame} /\ failed' = TRUE
          /\ UNCHANGED <<configured, iface, opens, helper, child, binding, frame, pending, sent, received, stray, kept, unplugged, panic>>

-----------------------------------------------------------------------------
(* The firmware and the driver below it *)

Alive(f) == pc = "poll" /\ f = frame

\* A token is completed: its status is written and, for a response, the
\* number of units put into its buffer.
fw_complete(f) ==
    /\ ~ panic /\ f \in pending
    /\ pending' = pending \ {f}
    /\ IF Alive(f)
       THEN \E st \in {"SUCCESS", "HTTP_ERROR", "ABORTED"}, n \in 0 .. capacity :
               /\ sent + n <= MaxBody
               /\ (st = "ABORTED" \/ call = "request") => n = 0
               /\ status' = st /\ body_length' = n /\ sent' = sent + n
               /\ UNCHANGED stray
       ELSE stray' = stray \cup {f} /\ UNCHANGED <<status, body_length, sent>>
    /\ UNCHANGED <<configured, iface, opens, helper, pc, child, binding, frame, call, capacity, received, abandoned, failed, kept, unplugged, panic>>

\* The network driver stops: all its interfaces are removed.
unplug ==
    /\ ~ panic /\ ~ unplugged /\ unplugged' = TRUE
    /\ iface' = [hp \in Pairs |-> NoIface] /\ opens' = EmptyBag
    /\ UNCHANGED <<configured, helper, pc, child, binding, token, kept, panic>>

HttpCall ==
    \/ new_create_child \/ new_open_http \/ new_destroy_child \/ new_drop_binding
    \/ drop_protocol \/ drop_child \/ drop_fields
    \/ finish

HttpStart ==
    \/ new \/ drop_helper
    \/ \E url \in Urls : request(url)
    \/ \E c \in Responses : response(c)

HttpFirmware == unplug \/ \E f \in pending : fw_complete(f)
=============================================================================
