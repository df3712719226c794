---------------------------- MODULE NetworkProofs ----------------------------
(***************************************************************************)
(* Proofs about Network: what HttpHelper leaves in the firmware's handle   *)
(* database, what its tokens do, and the outcomes of ifup.                 *)
(***************************************************************************)
EXTENDS Network, FiniteSetTheorems, TLAPS

-----------------------------------------------------------------------------
(* The inductive invariant *)

\* Labels of HttpHelper::new, of its drop, and all of them
NewLabels == {"create_child", "open_http", "destroy_child", "drop_binding"}
DropLabels == {"drop_protocol", "drop_child", "drop_fields"}
Labels == {"idle", "poll"} \cup NewLabels \cup DropLabels

\* The ScopedProtocols of new, and the helper it makes of them
ScopedOn(hp, interface) ==
    [hp |-> hp, agent |-> App, controller |-> None, interface |-> interface, by |-> "open_protocol"]
HelperOf(c) ==
    [child |-> c, binding |-> {ScopedOn(NicPair, "binding")}, protocol |-> {ScopedOn(ChildPair(c), "http")}]

HttpTypes ==
    /\ pc \in Labels 
    /\ helper \subseteq {HelperOf(c) : c \in Children} /\ \A h, k \in helper : h = k
    /\ child \in Children \cup {None} /\ kept \subseteq Children
    /\ DOMAIN iface = Pairs /\ iface[NicPair] \in {"binding", NoIface}
    /\ \A c \in Children : iface[ChildPair(c)] \in {"http", NoIface}

\* What each place in new and drop has in its hands
Holdings ==
    /\ binding = IF pc \in NewLabels THEN {ScopedOn(NicPair, "binding")} ELSE {}
    /\ pc \in NewLabels => helper = {}
    /\ pc \in DropLabels \cup {"poll"} => helper # {}
    /\ pc \in {"open_http", "destroy_child"} => child \in Children

\* The children that should exist, and the records that should be open
ExpectedChildren ==
    IF pc \in {"open_http", "destroy_child"} THEN {child}
    ELSE IF pc = "drop_fields" THEN {} ELSE {h.child : h \in helper}
ExpectedRecords ==
    IF pc \in NewLabels \cup {"drop_child", "drop_fields"} THEN {NicRecord}
    ELSE UNION {OpenBy(h) : h \in helper}

DatabaseInv ==
    /\ unplugged => \A hp \in Pairs : iface[hp] = NoIface
    /\ Existing \subseteq ExpectedChildren \cup kept
    /\ ~ unplugged => opens = SetToBag(ExpectedRecords)

TokenTypes ==
    /\ frame \in 0 .. MaxFrames /\ pending \subseteq 1 .. frame /\ abandoned \subseteq 1 .. frame
    /\ IF pc = "poll" THEN call \in Responses \cup {"request"} /\ status \in Statuses /\ frame > 0
                      ELSE call = None /\ status = None
    /\ capacity \in {0, BufferUnits} /\ body_length \in 0 .. capacity
    /\ sent \in Nat /\ received \in Nat

\* The bytes of a response that is complete and not yet returned are in
\* its buffer.
TokenInv ==
    /\ pending \subseteq {f \in {frame} : pc = "poll"} \cup abandoned
    /\ stray \subseteq abandoned
    /\ pc = "poll" /\ frame \in pending => status = "NOT_READY"
    /\ call = "request" => capacity = 0
    /\ ~ failed => sent = received + IF pc = "poll" /\ status # "NOT_READY" THEN body_length ELSE 0

Ip4Types ==
    /\ policy \in {"STATIC", "DHCP"}
    /\ ifup_pc \in {"idle", "size", "data", "set_policy", "stall"}
    /\ round \in 0 .. Seconds
    /\ outcome \in {"none", "Ok", "TIMEOUT", "BUFFER_TOO_SMALL", "DEVICE_ERROR"}

\* ifup stalls once a round, with DHCP on; the size it got in a call of
\* get_data can only be too small if the address came afterwards.
Ip4Inv ==
    /\ stalled = round
    /\ ifup_pc = "stall" => round < Seconds
    /\ ifup_pc = "set_policy" => round = 0
    /\ ifup_pc = "stall" \/ round > 0 => policy = "DHCP"
    /\ ifup_pc = "data" => data_size \in {1, 2} /\ (address /\ data_size = 1 => grew)

HttpInv == HttpTypes /\ (~ panic => Holdings /\ DatabaseInv)
IInv == HttpInv /\ TokenTypes /\ TokenInv /\ Ip4Types /\ Ip4Inv

-----------------------------------------------------------------------------
(* ifup *)

\* ifup: its invariant is kept by every step of Network.
LEMMA Ip4Step ==
    ASSUME Ip4Types, Ip4Inv, [Next]_vars
    PROVE  Ip4Types' /\ Ip4Inv'
  <1> USE SecondsAssumption DEF Ip4Types, Ip4Inv
  <1>1. CASE ip4_quiet
    BY <1>1 DEF ip4_quiet
  <1>2. CASE UNCHANGED ip4_vars
    BY <1>2 DEF ip4_vars, ip4_locals
  <1>3. CASE ifup
    BY <1>3 DEF ifup
  <1>4. CASE fw_lease
    BY <1>4, ZenonT(60) DEF fw_lease
  <1>5. CASE get_data_size
    BY <1>5 DEF get_data_size, fw_size, Leave
  <1>6. CASE get_data_data
    BY <1>6 DEF get_data_data, fw_size, Leave, LastRound
  <1>7. CASE set_policy
    BY <1>7 DEF set_policy, Leave
  <1>8. CASE stall
    BY <1>8 DEF stall
  <1>9. QED
    BY <1>1, <1>2, <1>3, <1>4, <1>5, <1>6, <1>7, <1>8, ZenonT(60) DEF Next, vars, Ip4Call

\* What a step of Network may make of the outcome of ifup
OutcomeStep ==
    outcome' # outcome =>
        /\ outcome' = "TIMEOUT" => stalled = Seconds /\ policy = "DHCP" /\ ~ address
        /\ outcome' = "Ok" => address
        /\ outcome' = "BUFFER_TOO_SMALL" => grew

\* ifup: with the invariant, every step has an outcome IfupOutcome allows.
LEMMA OutcomeAllowed ==
    ASSUME Ip4Types, Ip4Inv, [Next]_vars
    PROVE  OutcomeStep
  <1> USE SecondsAssumption DEF Ip4Types, Ip4Inv, OutcomeStep
  <1>1. CASE ip4_quiet
    BY <1>1 DEF ip4_quiet
  <1>2. CASE UNCHANGED ip4_vars
    BY <1>2, ZenonT(60) DEF ip4_vars, ip4_locals
  <1>3. CASE ifup
    BY <1>3, ZenonT(60) DEF ifup
  <1>4. CASE fw_lease
    BY <1>4, ZenonT(60) DEF fw_lease
  <1>5. CASE get_data_size
    BY <1>5, ZenonT(60) DEF get_data_size, Leave
  <1>6. CASE get_data_data
    BY <1>6 DEF get_data_data, fw_size, Leave, LastRound
  <1>7. CASE set_policy
    BY <1>7, ZenonT(60) DEF set_policy, Leave
  <1>8. CASE stall
    BY <1>8, ZenonT(60) DEF stall
  <1>9. QED
    BY <1>1, <1>2, <1>3, <1>4, <1>5, <1>6, <1>7, <1>8, ZenonT(60) DEF Next, vars, Ip4Call

-----------------------------------------------------------------------------
(* The tokens of HttpHelper *)

\* new, drop and unplug: a step that touches no token and starts and ends
\* outside the polling loop keeps what is known of the tokens.
LEMMA TokenQuiet ==
    ASSUME TokenTypes, TokenInv, UNCHANGED token, pc = "poll" <=> pc' = "poll"
    PROVE  TokenTypes' /\ TokenInv'
  BY ZenonT(60) DEF TokenTypes, TokenInv, token

\* request and response_*: lending a token keeps what is known of them all.
LEMMA TokenLent ==
    ASSUME TokenTypes, TokenInv, pc = "idle",
           NEW c \in Responses \cup {"request"}, lend(c)
    PROVE  TokenTypes' /\ TokenInv'
  <1> USE BodyAssumption DEF TokenTypes, TokenInv
  <1>1. CASE UNCHANGED <<pending, pc, call, status, capacity, body_length>>
    BY <1>1 DEF lend
  <1>2. CASE ~ UNCHANGED <<pending, pc, call, status, capacity, body_length>>
    <2>1. /\ frame' = frame + 1 /\ frame' \in 0 .. MaxFrames
          /\ pending' = pending \cup {frame'} /\ pc' = "poll" /\ call' = c
          /\ status' = "NOT_READY" /\ capacity' = BufferOf(c) /\ body_length' = BufferOf(c)
          /\ UNCHANGED <<sent, received, stray, abandoned, failed>>
      BY <1>2 DEF lend
    <2>2. BufferOf(c) \in {0, BufferUnits} /\ (c = "request" => BufferOf(c) = 0)
      BY DEF BufferOf
    <2>3. TokenTypes'
      BY <2>1, <2>2 DEF Statuses
    <2>4. TokenInv'
      BY <2>1, <2>2
    <2>5. QED
      BY <2>3, <2>4, ZenonT(60)
  <1>3. QED
    BY <1>1, <1>2, ZenonT(60)

\* The polling loop and the firmware: every step of Network keeps what is
\* known of the tokens.
LEMMA TokenStep ==
    ASSUME HttpTypes, TokenTypes, TokenInv, [Next]_vars
    PROVE  TokenTypes' /\ TokenInv'
  <1>1. CASE UNCHANGED http_vars
    BY <1>1, TokenQuiet, ZenonT(60) DEF http_vars
  <1>2. CASE new \/ drop_helper \/ configure(address)
    BY <1>2, TokenQuiet, ZenonT(60) DEF new, drop_helper, configure, At, FirstDropped
  <1>3. ASSUME NEW url \in Urls, request(url)
        PROVE  TokenTypes' /\ TokenInv'
    BY <1>3, TokenQuiet, TokenLent DEF request, At
  <1>4. ASSUME NEW c \in Responses, response(c)
        PROVE  TokenTypes' /\ TokenInv'
    BY <1>4, TokenLent DEF response, At
  <1>5. CASE new_create_child \/ new_open_http \/ new_destroy_child \/ new_drop_binding
    BY <1>5, TokenQuiet
    DEF new_create_child, new_open_http, new_destroy_child, new_drop_binding, Destroy, Close, At, OpenFailsTo
  <1>6. CASE drop_protocol \/ drop_child \/ drop_fields
    BY <1>6, TokenQuiet, ZenonT(60) DEF drop_protocol, drop_child, drop_fields, Destroy, Close, At, FirstDropped
  <1>7. CASE finish
    <2> USE DEF TokenTypes, TokenInv
    <2>1. pc = "poll" /\ status # "NOT_READY" /\ pc' = "idle" /\ call' = None /\ status' = None
          /\ body_length' = 0 /\ capacity' = 0 /\ UNCHANGED <<frame, pending, sent, stray, abandoned>>
      BY <1>7 DEF finish, Done, Return, At
    <2>2. TokenTypes'
      <3>1. received' \in Nat
        BY <1>7, BodyAssumption DEF finish, BodyReturned
      <3>2. QED
        BY <2>1, <3>1
    <2>3. ~ failed' => sent = received'
      BY <1>7, <2>1, BodyAssumption DEF finish, BodyReturned
    <2>4. TokenInv'
      BY <2>1, <2>3 DEF None
    <2>5. QED
      BY <2>2, <2>4, ZenonT(60)
  <1>8. CASE poll
    <2>1. CASE UNCHANGED http_vars
      BY <1>1, <2>1
    <2>2. CASE ~ UNCHANGED http_vars
      <3>1. /\ pc = "poll" /\ pc' = "idle" /\ call' = None /\ status' = None /\ body_length' = 0 /\ capacity' = 0
            /\ abandoned' = abandoned \cup {frame} /\ failed'
            /\ UNCHANGED <<frame, pending, sent, received, stray>>
        BY <1>8, <2>2, ZenonT(60) DEF poll, Return, At
      <3>2. TokenTypes'
        <4>1. frame \in 1 .. frame
          BY <3>1 DEF TokenTypes
        <4>2. QED
          BY <3>1, <4>1 DEF TokenTypes
      <3>3. TokenInv'
        BY <3>1, ZenonT(60) DEF TokenInv, None
      <3>4. QED
        BY <3>2, <3>3, ZenonT(60)
    <2>3. QED
      BY <2>1, <2>2
  <1>9. ASSUME NEW f \in pending, fw_complete(f)
        PROVE  TokenTypes' /\ TokenInv'
    <2> USE DEF TokenTypes, TokenInv
    <2>0. pending' = pending \ {f} /\ UNCHANGED <<pc, frame, call, capacity, received, abandoned, failed>>
      BY <1>9, ZenonT(60) DEF fw_complete
    <2>1. CASE Alive(f)
      <3>1. PICK st \in {"SUCCESS", "HTTP_ERROR", "ABORTED"}, n \in 0 .. capacity :
               /\ status' = st /\ body_length' = n /\ sent' = sent + n /\ UNCHANGED stray
        BY <1>9, <2>1 DEF fw_complete
      <3>2. pc = "poll" /\ f = frame /\ status = "NOT_READY"
        BY <2>1 DEF Alive
      <3>3. TokenTypes'
        BY <2>0, <3>1, <3>2, BodyAssumption, SMTT(30) DEF Statuses
      <3>4. TokenInv'
        BY <2>0, <3>1, <3>2, BodyAssumption
      <3>5. QED
        BY <3>3, <3>4, ZenonT(60)
    <2>2. CASE ~ Alive(f)
      <3>1. stray' = stray \cup {f} /\ UNCHANGED <<status, body_length, sent>>
        BY <1>9, <2>2 DEF fw_complete
      <3>2. f \in abandoned
        BY <2>2 DEF Alive
      <3>3. TokenTypes'
        BY <2>0, <3>1
      <3>4. TokenInv'
        BY <2>0, <3>1, <3>2, ZenonT(60)
      <3>5. QED
        BY <3>3, <3>4, ZenonT(60)
    <2>3. QED
      BY <2>1, <2>2, ZenonT(60)
  <1>10. CASE unplug
    BY <1>10, TokenQuiet, ZenonT(60) DEF unplug
  <1>11. QED
    BY <1>1, <1>2, <1>3, <1>4, <1>5, <1>6, <1>7, <1>8, <1>9, <1>10, ZenonT(60)
    DEF Next, vars, HttpStart, HttpCall, HttpFirmware

-----------------------------------------------------------------------------
(* The handle database *)

\* A bag of records without repetition gains a record, loses one, or loses
\* several, as the set does (the open records of fw_open_protocol,
\* fw_close_protocol and fw_replace).
LEMMA BagAdd ==
    ASSUME NEW S, NEW r, r \notin S
    PROVE  SetToBag(S) (+) One(r) = SetToBag(S \cup {r})
  BY DEF SetToBag, (+), One

LEMMA BagRemove ==
    ASSUME NEW S, NEW r, r \in S
    PROVE  SetToBag(S) (-) One(r) = SetToBag(S \ {r})
  BY DEF SetToBag, (-), One

LEMMA BagWithout ==
    ASSUME NEW S, NEW R, opens = SetToBag(S)
    PROVE  Without(R) = SetToBag(S \ R)
  BY ZenonT(60) DEF SetToBag, BagToSet, Without

\* open_protocol on an installed pair adds a record and returns a guard;
\* otherwise it changes nothing.
LEMMA OpenGet ==
    ASSUME NEW hp, NEW o \in open_protocol(hp, None)
    PROVE  \/ iface[hp] = NoIface /\ o.opens = opens /\ o.scoped = {}
           \/ /\ iface[hp] # NoIface
              /\ o.opens = opens (+) One(Record(hp, App, None, "GetProtocol"))
              /\ o.scoped = {ScopedOn(hp, iface[hp])}
  BY DEF open_protocol, OpenFor, fw_open_protocol, Record, Scoped, ScopedOn

\* The drop of a guard whose record is there removes that record.
LEMMA CloseHeld ==
    ASSUME NEW S, opens = SetToBag(S), NEW hp, NEW interface,
           Record(hp, App, None, "GetProtocol") \in S,
           \A q \in S : q.hp = hp => q = Record(hp, App, None, "GetProtocol"),
           NEW o \in close_protocol(ScopedOn(hp, interface))
    PROVE  o[1] = "SUCCESS" /\ o[2] = SetToBag(S \ {Record(hp, App, None, "GetProtocol")})
  <1> DEFINE r == Record(hp, App, None, "GetProtocol")
  <1>1. On(hp) = {r}
    BY DEF On, BagToSet, SetToBag, Record
  <1>2. {q \in On(hp) : q.agent = App /\ q.controller = None} = {r}
    BY <1>1 DEF Record
  <1>3. o \in {<<"SUCCESS", opens (-) One(q)>> : q \in {r}}
    BY <1>2, ZenonT(60) DEF close_protocol, fw_close_protocol, ScopedOn
  <1>4. o = <<"SUCCESS", opens (-) One(r)>>
    BY <1>3, ZenonT(60)
  <1>5. QED
    BY <1>4, BagRemove, ZenonT(60)

\* The pairs of the card and of its children are different ones of Pairs.
LEMMA PairsApart ==
    /\ NicPair \in Pairs /\ NicRecord.hp = NicPair
    /\ \A c \in Children : /\ ChildPair(c) \in Pairs /\ ChildPair(c) # NicPair
                           /\ ChildRecord(c).hp = ChildPair(c) /\ ChildRecord(c) # NicRecord
    /\ \A c, d \in Children : ChildPair(c) = ChildPair(d) => c = d
  BY HttpPairsAssumption, ZenonT(60) DEF HttpPairs, NicPair, ChildPair, NicRecord, ChildRecord, Record

\* Steps that leave the database and the helper alone: the calls that wait
\* for a token, configure, and the firmware's completions.
LEMMA HttpQuiet ==
    ASSUME HttpInv, ~ panic, UNCHANGED <<iface, opens, helper, child, binding, kept, unplugged>>,
           {pc, pc'} \subseteq {"idle", "poll"}, helper # {}
    PROVE  HttpInv'
  BY DEF HttpInv, HttpTypes, Holdings, DatabaseInv, Existing, ExpectedChildren, ExpectedRecords,
         Labels, NewLabels, DropLabels, NicRecord, ChildRecord, OpenBy

\* HttpHelper::new opens the binding.
LEMMA NewStep ==
    ASSUME HttpInv, new
    PROVE  HttpInv'
  <1>1. /\ ~ panic /\ pc = "idle" /\ helper = {}
        /\ UNCHANGED <<iface, helper, child, kept, unplugged, panic>>
    BY DEF new, At
  <1>2. HttpTypes /\ Holdings /\ DatabaseInv
    BY <1>1, ZenonT(60) DEF HttpInv
  <1>3. PICK o \in open_protocol(NicPair, None) :
            /\ opens' = o.opens /\ binding' = o.scoped
            /\ pc' = IF o.scoped = {} THEN "idle" ELSE "create_child"
    BY ZenonT(60) DEF new
  <1>4. HttpTypes'
    BY <1>1, <1>2, <1>3, ZenonT(60) DEF HttpTypes, Labels, NewLabels
  <1>5. ExpectedRecords = {}
    BY <1>1, ZenonT(60) DEF ExpectedRecords, NewLabels
  <1>6. Existing' \subseteq kept'
    BY <1>1, <1>2, ZenonT(60) DEF DatabaseInv, Existing, ExpectedChildren
  <1>7. CASE iface[NicPair] = NoIface
    <2>1. opens' = opens /\ binding' = {} /\ pc' = "idle"
      BY <1>3, <1>7, OpenGet, ZenonT(60)
    <2>2. ExpectedRecords' = {}
      BY <1>1, <2>1, ZenonT(60) DEF ExpectedRecords, NewLabels
    <2>3. Holdings' /\ DatabaseInv'
      BY <1>1, <1>2, <1>5, <1>6, <2>1, <2>2, ZenonT(60) DEF Holdings, DatabaseInv, NewLabels, DropLabels
    <2>4. QED
      BY <1>4, <2>3, ZenonT(60) DEF HttpInv
  <1>8. CASE iface[NicPair] # NoIface
    <2>1. /\ opens' = opens (+) One(NicRecord)
          /\ binding' = {ScopedOn(NicPair, iface[NicPair])} /\ pc' = "create_child"
      BY <1>3, <1>8, OpenGet, ZenonT(60) DEF NicRecord
    <2>2. iface[NicPair] = "binding" /\ ~ unplugged
      BY <1>2, <1>8, PairsApart, ZenonT(60) DEF HttpTypes, DatabaseInv
    <2>3. opens' = SetToBag({NicRecord})
      <3>1. opens = SetToBag({})
        BY <1>2, <1>5, <2>2, ZenonT(60) DEF DatabaseInv
      <3>2. SetToBag({}) (+) One(NicRecord) = SetToBag({} \cup {NicRecord})
        BY BagAdd, ZenonT(60)
      <3>3. {} \cup {NicRecord} = {NicRecord}
        OBVIOUS
      <3>4. QED
        BY <2>1, <3>1, <3>2, <3>3, ZenonT(60)
    <2>4. ExpectedRecords' = {NicRecord}
      BY <2>1 DEF ExpectedRecords, NewLabels
    <2>5. Holdings'
      BY <1>1, <2>1, <2>2, ZenonT(60) DEF Holdings, NewLabels, DropLabels
    <2>6. DatabaseInv'
      BY <1>1, <1>6, <2>2, <2>3, <2>4, ZenonT(60) DEF DatabaseInv
    <2>7. QED
      BY <1>4, <2>5, <2>6, ZenonT(60) DEF HttpInv
  <1>9. QED
    BY <1>7, <1>8, ZenonT(60)

\* HttpHelper::new: create_child
LEMMA CreateStep ==
    ASSUME HttpInv, new_create_child
    PROVE  HttpInv'
  <1>1. /\ ~ panic /\ pc = "create_child"
        /\ UNCHANGED <<helper, binding, kept, unplugged, panic>>
    BY ZenonT(60) DEF new_create_child, At
  <1>2. HttpTypes /\ Holdings /\ DatabaseInv
    BY <1>1, ZenonT(60) DEF HttpInv
  <1>3. helper = {} /\ ExpectedRecords = {NicRecord} /\ Existing \subseteq kept
    BY <1>1, <1>2 DEF Holdings, DatabaseInv, ExpectedRecords, ExpectedChildren, NewLabels
  <1>4. CASE UNCHANGED <<iface, opens, child>> /\ pc' = "drop_binding"
    <2>1. HttpTypes' /\ Holdings'
      BY <1>1, <1>2, <1>4 DEF HttpTypes, Holdings, Labels, NewLabels, DropLabels
    <2>2. ExpectedRecords' = {NicRecord} /\ Existing' \subseteq kept
      BY <1>3, <1>4, ZenonT(60) DEF ExpectedRecords, NewLabels, Existing
    <2>3. DatabaseInv'
      BY <1>1, <1>2, <1>3, <1>4, <2>2, ZenonT(60) DEF DatabaseInv
    <2>4. QED
      BY <2>1, <2>3, ZenonT(60) DEF HttpInv
  <1>5. ASSUME NEW c \in Children, ~ unplugged, fw_create_child(c), child' = c, pc' = "open_http"
        PROVE  HttpInv'
    <2>1. iface' = [iface EXCEPT ![ChildPair(c)] = "http"] /\ opens' = opens
      BY <1>5, ZenonT(60) DEF fw_create_child, fw_install
    <2>2. HttpTypes'
      BY <1>1, <1>2, <1>5, <2>1, PairsApart, ZenonT(60) DEF HttpTypes, Labels, NewLabels
    <2>3. Holdings'
      BY <1>1, <1>2, <1>5, ZenonT(60) DEF Holdings, NewLabels, DropLabels
    <2>4. Existing' \subseteq Existing \cup {c}
      BY <1>2, <2>1, PairsApart, ZenonT(60) DEF Existing, HttpTypes
    <2>5. ExpectedRecords' = {NicRecord} /\ ExpectedChildren' = {c}
      BY <1>5, ZenonT(60) DEF ExpectedRecords, ExpectedChildren, NewLabels
    <2>6. DatabaseInv'
      BY <1>1, <1>2, <1>3, <1>5, <2>1, <2>4, <2>5, ZenonT(60) DEF DatabaseInv
    <2>7. QED
      BY <2>2, <2>3, <2>6, ZenonT(60) DEF HttpInv
  <1>6. QED
    BY <1>4, <1>5, ZenonT(60) DEF new_create_child

\* HttpHelper::new: the protocol of the child is opened and the helper made,
\* or the child has to go.
LEMMA OpenHttpStep ==
    ASSUME HttpInv, new_open_http
    PROVE  HttpInv'
  <1>1. /\ ~ panic /\ pc = "open_http" /\ UNCHANGED <<iface, kept, unplugged, panic>>
    BY ZenonT(60) DEF new_open_http, At
  <1>2. HttpTypes /\ Holdings /\ DatabaseInv
    BY <1>1, ZenonT(60) DEF HttpInv
  <1>3. /\ helper = {} /\ ExpectedRecords = {NicRecord} /\ child \in Children
        /\ binding = {ScopedOn(NicPair, "binding")} /\ Existing \subseteq {child} \cup kept
    BY <1>1, <1>2, ZenonT(60) DEF Holdings, DatabaseInv, ExpectedRecords, ExpectedChildren, NewLabels
  <1>4. CASE pc' = "destroy_child" /\ UNCHANGED <<opens, helper, child, binding>>
    <2>1. HttpTypes' /\ Holdings'
      BY <1>1, <1>2, <1>4, ZenonT(60) DEF HttpTypes, Holdings, Labels, NewLabels, DropLabels
    <2>2. ExpectedRecords' = {NicRecord} /\ Existing' = Existing /\ ExpectedChildren' = {child}
      BY <1>1, <1>3, <1>4, ZenonT(60) DEF ExpectedRecords, ExpectedChildren, NewLabels, Existing
    <2>3. DatabaseInv'
      BY <1>1, <1>2, <1>3, <1>4, <2>2, ZenonT(60) DEF DatabaseInv
    <2>4. QED
      BY <2>1, <2>3 DEF HttpInv
  <1>5. ASSUME NEW o \in open_protocol(ChildPair(child), None), o.scoped # {}, opens' = o.opens,
               helper' = {[child |-> child, binding |-> binding, protocol |-> o.scoped]},
               pc' = "idle", child' = None, binding' = {}
        PROVE  HttpInv'
    <2>1. /\ iface[ChildPair(child)] # NoIface /\ opens' = opens (+) One(ChildRecord(child))
          /\ o.scoped = {ScopedOn(ChildPair(child), iface[ChildPair(child)])}
      BY <1>5, OpenGet, ZenonT(60) DEF ChildRecord
    <2>2. iface[ChildPair(child)] = "http" /\ ~ unplugged
      BY <1>2, <1>3, <2>1, PairsApart, ZenonT(60) DEF HttpTypes, DatabaseInv
    <2>3. helper' = {HelperOf(child)}
      BY <1>3, <1>5, <2>1, <2>2, ZenonT(60) DEF HelperOf
    <2>4. HelperOf(child).child = child
      BY ZenonT(60) DEF HelperOf
    <2>5. opens' = SetToBag({NicRecord, ChildRecord(child)})
      <3>1. ChildRecord(child) \notin {NicRecord}
        BY <1>3, PairsApart
      <3>2. {NicRecord} \cup {ChildRecord(child)} = {NicRecord, ChildRecord(child)}
        BY ZenonT(60)
      <3>3. opens = SetToBag({NicRecord})
        BY <1>2, <1>3, <2>2, ZenonT(60) DEF DatabaseInv
      <3>4. QED
        BY <2>1, <3>1, <3>2, <3>3, BagAdd, ZenonT(60)
    <2>6. HttpTypes'
      BY <1>1, <1>2, <1>3, <1>5, <2>3, ZenonT(60) DEF HttpTypes, Labels
    <2>7. Holdings'
      BY <1>5, <2>3, ZenonT(60) DEF Holdings, NewLabels, DropLabels
    <2>8. ExpectedRecords' = {NicRecord, ChildRecord(child)} /\ ExpectedChildren' = {child}
      BY <1>5, <2>3, <2>4, ZenonT(60) DEF ExpectedRecords, ExpectedChildren, NewLabels, OpenBy
    <2>9. DatabaseInv'
      BY <1>1, <1>2, <1>3, <2>2, <2>5, <2>8, ZenonT(60) DEF DatabaseInv, Existing
    <2>10. QED
      BY <2>6, <2>7, <2>9, ZenonT(60) DEF HttpInv
  <1>6. QED
    BY <1>4, <1>5, ZenonT(60) DEF new_open_http, OpenFailsTo

\* destroy_child, in new and in drop: the child is gone or kept, and the
\* record of the binding is what stays open.
LEMMA Destroyed ==
    ASSUME HttpTypes, DatabaseInv, NEW c \in Children, NEW label, Destroy(c, label),
           ExpectedRecords = {NicRecord}, ExpectedChildren = {c}, UNCHANGED unplugged
    PROVE  /\ DOMAIN iface' = Pairs /\ iface'[NicPair] = iface[NicPair]
           /\ \A d \in Children : iface'[ChildPair(d)] \in {"http", NoIface}
           /\ unplugged => \A hp \in Pairs : iface'[hp] = NoIface
           /\ Existing' \subseteq kept' /\ kept' \subseteq Children
           /\ ~ unplugged => opens' = SetToBag({NicRecord})
  <1>1. CASE kept' = kept \cup {c} /\ UNCHANGED <<iface, opens>>
    BY <1>1, ZenonT(60) DEF HttpTypes, DatabaseInv, Existing
  <1>2. CASE fw_destroy_child(c) /\ UNCHANGED kept
    <2>1. iface' = [iface EXCEPT ![ChildPair(c)] = NoIface] /\ opens' = Without(On(ChildPair(c)))
      BY <1>2, ZenonT(60) DEF fw_destroy_child, fw_replace
    <2>2. Existing' \subseteq Existing \ {c}
      BY <2>1, PairsApart, ZenonT(60) DEF Existing, HttpTypes
    <2>3. ASSUME ~ unplugged
          PROVE  opens' = SetToBag({NicRecord})
      <3>1. opens = SetToBag({NicRecord})
        BY <2>3, ZenonT(60) DEF DatabaseInv
      <3>2. {NicRecord} \ On(ChildPair(c)) = {NicRecord}
        BY PairsApart, ZenonT(60) DEF On
      <3>3. QED
        BY <2>1, <3>1, <3>2, BagWithout, ZenonT(60)
    <2>4. QED
      BY <1>2, <2>1, <2>2, <2>3, PairsApart, ZenonT(60) DEF HttpTypes, DatabaseInv
  <1>3. QED
    BY <1>1, <1>2, ZenonT(60) DEF Destroy

\* HttpHelper::new, after a failure: the child is destroyed.
LEMMA NewDestroyStep ==
    ASSUME HttpInv, new_destroy_child
    PROVE  HttpInv'
  <1>1. /\ ~ panic /\ pc = "destroy_child" /\ Destroy(child, "drop_binding") /\ pc' = "drop_binding"
        /\ UNCHANGED <<helper, child, binding, unplugged, panic>>
    BY ZenonT(60) DEF new_destroy_child, At, Destroy
  <1>2. HttpTypes /\ Holdings /\ DatabaseInv
    BY <1>1, ZenonT(60) DEF HttpInv
  <1>3. /\ helper = {} /\ child \in Children
        /\ ExpectedRecords = {NicRecord} /\ ExpectedChildren = {child}
    BY <1>1, <1>2, ZenonT(60) DEF Holdings, ExpectedRecords, ExpectedChildren, NewLabels
  <1>4. /\ DOMAIN iface' = Pairs /\ iface'[NicPair] = iface[NicPair]
        /\ \A d \in Children : iface'[ChildPair(d)] \in {"http", NoIface}
        /\ unplugged => \A hp \in Pairs : iface'[hp] = NoIface
        /\ Existing' \subseteq kept' /\ kept' \subseteq Children
        /\ ~ unplugged => opens' = SetToBag({NicRecord})
    BY <1>1, <1>2, <1>3, Destroyed, ZenonT(60)
  <1>5. HttpTypes'
    BY <1>1, <1>2, <1>4, ZenonT(60) DEF HttpTypes, Labels, NewLabels
  <1>6. Holdings'
    BY <1>1, <1>2, ZenonT(60) DEF Holdings, NewLabels, DropLabels
  <1>7. ExpectedRecords' = {NicRecord}
    BY <1>1, ZenonT(60) DEF ExpectedRecords, NewLabels
  <1>8. DatabaseInv'
    BY <1>1, <1>4, <1>7, ZenonT(60) DEF DatabaseInv
  <1>9. QED
    BY <1>5, <1>6, <1>8, ZenonT(60) DEF HttpInv

\* The binding's guard is dropped, at the end of new or of drop.
LEMMA BindingClosed ==
    ASSUME HttpTypes, DatabaseInv, ExpectedRecords = {NicRecord}, UNCHANGED unplugged,
           Close(ScopedOn(NicPair, "binding"), "idle")
    PROVE  /\ UNCHANGED iface /\ (~ panic' => ~ panic /\ pc' = "idle") /\ pc' \in {pc, "idle"}
           /\ ~ unplugged => opens' = SetToBag({})
  <1>1. PICK o \in close_protocol(ScopedOn(NicPair, "binding")) :
            /\ opens' = o[2] /\ UNCHANGED iface
            /\ IF o[1] = "SUCCESS" THEN pc' = "idle" /\ UNCHANGED panic
                                   ELSE panic' = TRUE /\ UNCHANGED pc
    BY ZenonT(60) DEF Close
  <1>2. ASSUME ~ unplugged
        PROVE  opens' = SetToBag({})
    <2>1. opens = SetToBag({NicRecord})
      BY <1>2, ZenonT(60) DEF DatabaseInv
    <2>2. o[2] = SetToBag({NicRecord} \ {NicRecord})
      BY <2>1, CloseHeld DEF NicRecord
    <2>3. {NicRecord} \ {NicRecord} = {}
      BY ZenonT(60)
    <2>4. QED
      BY <1>1, <2>2, <2>3, ZenonT(60)
  <1>3. QED
    BY <1>1, <1>2, ZenonT(60)

\* HttpHelper::new, after a failure: the binding is dropped last.
LEMMA DropBindingStep ==
    ASSUME HttpInv, new_drop_binding
    PROVE  HttpInv'
  <1>1. /\ ~ panic /\ pc = "drop_binding" /\ binding' = {} /\ child' = None
        /\ \E s \in binding : Close(s, "idle") /\ UNCHANGED <<helper, kept, unplugged>>
    BY ZenonT(60) DEF new_drop_binding, At
  <1>2. HttpTypes /\ Holdings /\ DatabaseInv
    BY <1>1, ZenonT(60) DEF HttpInv
  <1>3. /\ helper = {} /\ binding = {ScopedOn(NicPair, "binding")}
        /\ ExpectedRecords = {NicRecord} /\ Existing \subseteq kept
    BY <1>1, <1>2, ZenonT(60) DEF Holdings, DatabaseInv, ExpectedRecords, ExpectedChildren, NewLabels
  <1>4. /\ UNCHANGED iface /\ (~ panic' => ~ panic /\ pc' = "idle") /\ pc' \in {pc, "idle"}
        /\ ~ unplugged => opens' = SetToBag({})
    BY <1>1, <1>2, <1>3, BindingClosed, ZenonT(60)
  <1>5. HttpTypes'
    BY <1>1, <1>2, <1>4, ZenonT(60) DEF HttpTypes, Labels, NewLabels
  <1>6. ASSUME ~ panic'
        PROVE  Holdings' /\ DatabaseInv'
    <2>1. pc' = "idle"
      BY <1>4, <1>6, ZenonT(60)
    <2>2. Holdings'
      BY <1>1, <1>3, <2>1, ZenonT(60) DEF Holdings, NewLabels, DropLabels
    <2>3. ExpectedRecords' = {} /\ Existing' = Existing
      BY <1>1, <1>3, <1>4, <2>1, ZenonT(60) DEF ExpectedRecords, NewLabels, Existing
    <2>4. DatabaseInv'
      BY <1>1, <1>2, <1>3, <1>4, <2>3 DEF DatabaseInv
    <2>5. QED
      BY <2>2, <2>4, ZenonT(60)
  <1>7. QED
    BY <1>5, <1>6, ZenonT(60) DEF HttpInv

\* The drop of HttpHelper: protocol = None closes the child's record.
LEMMA DropProtocolStep ==
    ASSUME HttpInv, drop_protocol
    PROVE  HttpInv'
  <1>1. /\ ~ panic /\ pc = "drop_protocol" /\ UNCHANGED <<helper, child, binding, kept, unplugged>>
        /\ \E h \in helper : \E s \in h.protocol : Close(s, "drop_child")
    BY ZenonT(60) DEF drop_protocol, At, FirstDropped
  <1>2. HttpTypes /\ Holdings /\ DatabaseInv
    BY <1>1, ZenonT(60) DEF HttpInv
  <1>3. PICK c \in Children : HelperOf(c) \in helper /\ Close(ScopedOn(ChildPair(c), "http"), "drop_child")
    <2>1. PICK h \in helper : \E s \in h.protocol : Close(s, "drop_child")
      BY <1>1
    <2>2. PICK c \in Children : h = HelperOf(c)
      BY <1>2, ZenonT(60) DEF HttpTypes
    <2>3. h.protocol = {ScopedOn(ChildPair(c), "http")}
      BY <2>2, ZenonT(60) DEF HelperOf
    <2>4. QED
      BY <2>1, <2>2, <2>3, ZenonT(60)
  <1>4. helper = {HelperOf(c)} /\ HelperOf(c).child = c
    BY <1>2, <1>3, ZenonT(60) DEF HttpTypes, HelperOf
  <1>5. PICK o \in close_protocol(ScopedOn(ChildPair(c), "http")) :
            /\ opens' = o[2] /\ UNCHANGED iface
            /\ IF o[1] = "SUCCESS" THEN pc' = "drop_child" /\ UNCHANGED panic
                                   ELSE panic' = TRUE /\ UNCHANGED pc
    BY <1>3, ZenonT(60) DEF Close
  <1>6. HttpTypes'
    BY <1>1, <1>2, <1>5, ZenonT(60) DEF HttpTypes, Labels, DropLabels
  <1>7. ASSUME ~ panic'
        PROVE  Holdings' /\ DatabaseInv'
    <2>1. pc' = "drop_child"
      BY <1>5, <1>7, ZenonT(60)
    <2>2. Holdings'
      BY <1>1, <1>2, <2>1, ZenonT(60) DEF Holdings, NewLabels, DropLabels
    <2>3. ExpectedRecords' = {NicRecord} /\ Existing' = Existing /\ ExpectedChildren' = ExpectedChildren
      BY <1>1, <1>5, <2>1, ZenonT(60) DEF ExpectedRecords, ExpectedChildren, NewLabels, Existing
    <2>4. ASSUME ~ unplugged
          PROVE  opens' = SetToBag({NicRecord})
      <3> DEFINE S == {NicRecord, ChildRecord(c)}
      <3>1. ExpectedRecords = S
        BY <1>1, <1>4, ZenonT(60) DEF ExpectedRecords, NewLabels, OpenBy
      <3>2. opens = SetToBag(S)
        BY <1>2, <2>4, <3>1, ZenonT(60) DEF DatabaseInv
      <3>3. \A q \in S : q.hp = ChildPair(c) => q = ChildRecord(c)
        BY <1>3, PairsApart, ZenonT(60)
      <3>4. o[2] = SetToBag(S \ {ChildRecord(c)})
        BY <3>2, <3>3, CloseHeld DEF ChildRecord
      <3>5. S \ {ChildRecord(c)} = {NicRecord}
        BY <1>3, PairsApart, ZenonT(60)
      <3>6. QED
        BY <1>5, <3>4, <3>5, ZenonT(60)
    <2>5. DatabaseInv'
      BY <1>1, <1>2, <1>5, <2>3, <2>4, ZenonT(60) DEF DatabaseInv
    <2>6. QED
      BY <2>2, <2>5, ZenonT(60)
  <1>8. QED
    BY <1>6, <1>7, ZenonT(60) DEF HttpInv

\* The drop of HttpHelper: destroy_child
LEMMA DropChildStep ==
    ASSUME HttpInv, drop_child
    PROVE  HttpInv'
  <1>1. /\ ~ panic /\ pc = "drop_child" /\ UNCHANGED <<helper, child, binding, unplugged, panic>>
        /\ \E h \in helper : Destroy(h.child, "drop_fields")
    BY ZenonT(60) DEF drop_child, At, FirstDropped
  <1>2. HttpTypes /\ Holdings /\ DatabaseInv
    BY <1>1, ZenonT(60) DEF HttpInv
  <1>3. PICK c \in Children : HelperOf(c) \in helper /\ Destroy(c, "drop_fields")
    <2>1. PICK h \in helper : Destroy(h.child, "drop_fields")
      BY <1>1, ZenonT(60)
    <2>2. PICK c \in Children : h = HelperOf(c)
      BY <1>2 DEF HttpTypes
    <2>3. h.child = c
      BY <2>2, ZenonT(60) DEF HelperOf
    <2>4. QED
      BY <2>1, <2>2, <2>3, ZenonT(60)
  <1>4. helper = {HelperOf(c)} /\ HelperOf(c).child = c /\ pc' = "drop_fields"
    BY <1>2, <1>3, ZenonT(60) DEF HttpTypes, HelperOf, Destroy
  <1>5. ExpectedRecords = {NicRecord} /\ ExpectedChildren = {c}
    BY <1>1, <1>4, ZenonT(60) DEF ExpectedRecords, ExpectedChildren, NewLabels
  <1>6. /\ DOMAIN iface' = Pairs /\ iface'[NicPair] = iface[NicPair]
        /\ \A d \in Children : iface'[ChildPair(d)] \in {"http", NoIface}
        /\ unplugged => \A hp \in Pairs : iface'[hp] = NoIface
        /\ Existing' \subseteq kept' /\ kept' \subseteq Children
        /\ ~ unplugged => opens' = SetToBag({NicRecord})
    BY <1>1, <1>2, <1>3, <1>5, Destroyed, ZenonT(60)
  <1>7. HttpTypes'
    BY <1>1, <1>2, <1>4, <1>6, ZenonT(60) DEF HttpTypes, Labels, DropLabels
  <1>8. Holdings'
    BY <1>1, <1>2, <1>4, ZenonT(60) DEF Holdings, NewLabels, DropLabels
  <1>9. ExpectedRecords' = {NicRecord}
    BY <1>4, ZenonT(60) DEF ExpectedRecords, NewLabels
  <1>10. DatabaseInv'
    BY <1>1, <1>6, <1>9, ZenonT(60) DEF DatabaseInv
  <1>11. QED
    BY <1>7, <1>8, <1>10 DEF HttpInv

\* The drop of HttpHelper: its binding goes with its fields.
LEMMA DropFieldsStep ==
    ASSUME HttpInv, drop_fields
    PROVE  HttpInv'
  <1>1. /\ ~ panic /\ pc = "drop_fields" /\ helper' = {} /\ UNCHANGED <<child, binding, kept, unplugged>>
        /\ \E h \in helper : \E s \in h.binding : Close(s, "idle")
    BY ZenonT(60) DEF drop_fields, At
  <1>2. HttpTypes /\ Holdings /\ DatabaseInv
    BY <1>1, ZenonT(60) DEF HttpInv
  <1>3. Close(ScopedOn(NicPair, "binding"), "idle")
    <2>1. PICK h \in helper : \E s \in h.binding : Close(s, "idle")
      BY <1>1, ZenonT(60)
    <2>2. PICK c \in Children : h = HelperOf(c)
      BY <1>2, ZenonT(60) DEF HttpTypes
    <2>3. h.binding = {ScopedOn(NicPair, "binding")}
      BY <2>2, ZenonT(60) DEF HelperOf
    <2>4. QED
      BY <2>1, <2>3, ZenonT(60)
  <1>4. binding = {} /\ ExpectedRecords = {NicRecord} /\ Existing \subseteq kept
    BY <1>1, <1>2, ZenonT(60) DEF Holdings, DatabaseInv, ExpectedRecords, ExpectedChildren, NewLabels
  <1>5. /\ UNCHANGED iface /\ (~ panic' => ~ panic /\ pc' = "idle") /\ pc' \in {pc, "idle"}
        /\ ~ unplugged => opens' = SetToBag({})
    BY <1>1, <1>2, <1>3, <1>4, BindingClosed, ZenonT(60)
  <1>6. HttpTypes'
    BY <1>1, <1>2, <1>5, ZenonT(60) DEF HttpTypes, Labels, DropLabels
  <1>7. ASSUME ~ panic'
        PROVE  Holdings' /\ DatabaseInv'
    <2>1. pc' = "idle"
      BY <1>5, <1>7
    <2>2. Holdings'
      BY <1>1, <1>4, <2>1, ZenonT(60) DEF Holdings, NewLabels, DropLabels
    <2>3. ExpectedRecords' = {} /\ Existing' = Existing
      BY <1>1, <1>5, <2>1, ZenonT(60) DEF ExpectedRecords, NewLabels, Existing
    <2>4. DatabaseInv'
      BY <1>1, <1>2, <1>4, <1>5, <2>3, ZenonT(60) DEF DatabaseInv
    <2>5. QED
      BY <2>2, <2>4
  <1>8. QED
    BY <1>6, <1>7 DEF HttpInv

\* The driver stops: no interface and no record is left.
LEMMA UnplugStep ==
    ASSUME HttpInv, unplug
    PROVE  HttpInv'
  <1>1. /\ ~ panic /\ unplugged' /\ iface' = [hp \in Pairs |-> NoIface]
        /\ UNCHANGED <<helper, pc, child, binding, kept, panic>>
    BY DEF unplug
  <1>2. HttpTypes /\ Holdings
    BY <1>1, ZenonT(60) DEF HttpInv
  <1>3. Existing' = {}
    BY <1>1, PairsApart, ZenonT(60) DEF Existing
  <1>4. HttpTypes'
    BY <1>1, <1>2, PairsApart, ZenonT(60) DEF HttpTypes
  <1>5. Holdings' /\ DatabaseInv'
    BY <1>1, <1>2, <1>3 DEF Holdings, DatabaseInv
  <1>6. QED
    BY <1>4, <1>5, ZenonT(60) DEF HttpInv

\* drop starts: nothing has been closed yet.
LEMMA DropHelperStep ==
    ASSUME HttpInv, drop_helper
    PROVE  HttpInv'
  <1>1. /\ ~ panic /\ pc = "idle" /\ helper # {} /\ pc' = "drop_protocol"
        /\ UNCHANGED <<iface, opens, helper, child, binding, kept, unplugged, panic>>
    BY ZenonT(60) DEF drop_helper, At, FirstDropped
  <1>2. HttpTypes /\ Holdings /\ DatabaseInv
    BY <1>1, ZenonT(60) DEF HttpInv
  <1>3. HttpTypes' /\ Holdings'
    BY <1>1, <1>2, ZenonT(60) DEF HttpTypes, Holdings, Labels, NewLabels, DropLabels
  <1>4. ExpectedRecords' = ExpectedRecords /\ ExpectedChildren' = ExpectedChildren /\ Existing' = Existing
    BY <1>1, ZenonT(60) DEF ExpectedRecords, ExpectedChildren, NewLabels, Existing
  <1>5. DatabaseInv'
    BY <1>1, <1>2, <1>4, ZenonT(60) DEF DatabaseInv
  <1>6. QED
    BY <1>3, <1>5 DEF HttpInv

\* HttpHelper: every step of Network keeps its invariant.
LEMMA HttpStep ==
    ASSUME HttpInv, [Next]_vars
    PROVE  HttpInv'
  <1>1. CASE UNCHANGED http_vars
    BY <1>1, ZenonT(60) DEF http_vars, token, HttpInv, HttpTypes, Holdings, DatabaseInv, Existing, ExpectedChildren,
                ExpectedRecords
  <1>2. CASE new \/ drop_helper
    BY <1>2, NewStep, DropHelperStep, ZenonT(60)
  <1>3. CASE configure(address)
    BY <1>3, HttpQuiet, ZenonT(60) DEF configure, At
  <1>4. ASSUME NEW c, lend(c), pc = "idle"
        PROVE  pc' \in {"idle", "poll"}
    BY <1>4, ZenonT(60) DEF lend
  <1>5. ASSUME NEW url \in Urls, request(url)
        PROVE  HttpInv'
    <2>1. /\ ~ panic /\ pc = "idle" /\ helper # {} /\ pc' \in {"idle", "poll"}
          /\ UNCHANGED <<iface, opens, helper, child, binding, kept, unplugged>>
      BY <1>4, <1>5, ZenonT(60) DEF request, At
    <2>2. QED
      BY <2>1, HttpQuiet, ZenonT(60)
  <1>6. ASSUME NEW c \in Responses, response(c)
        PROVE  HttpInv'
    BY <1>4, <1>6, HttpQuiet, ZenonT(60) DEF response, At
  <1>7. CASE new_create_child \/ new_open_http \/ new_destroy_child \/ new_drop_binding
    BY <1>7, CreateStep, OpenHttpStep, NewDestroyStep, DropBindingStep, ZenonT(60)
  <1>8. CASE drop_protocol \/ drop_child \/ drop_fields
    BY <1>8, DropProtocolStep, DropChildStep, DropFieldsStep, ZenonT(60)
  <1>9. pc = "poll" /\ ~ panic => helper # {}
    BY ZenonT(60) DEF HttpInv, Holdings
  <1>10. CASE finish
    BY <1>9, <1>10, HttpQuiet, ZenonT(60) DEF finish, Return, At
  <1>11. CASE poll
    BY <1>1, <1>9, <1>11, HttpQuiet, ZenonT(60) DEF poll, Return, At
  <1>12. ASSUME NEW f \in pending, fw_complete(f)
         PROVE  HttpInv'
    BY <1>12, ZenonT(60) DEF fw_complete, HttpInv, HttpTypes, Holdings, DatabaseInv, Existing, ExpectedChildren,
                ExpectedRecords
  <1>13. CASE unplug
    BY <1>13, UnplugStep, ZenonT(60)
  <1>14. QED
    BY <1>1, <1>2, <1>3, <1>5, <1>6, <1>7, <1>8, <1>10, <1>11, <1>12, <1>13, ZenonT(60)
    DEF Next, vars, HttpStart, HttpCall, HttpFirmware

-----------------------------------------------------------------------------
(* The theorems.  Fairness plays no part in them. *)

\* The initial state of both components satisfies the invariant.
LEMMA InitIInv == Init => IInv
  <1> SUFFICES ASSUME HttpInit, Ip4Init PROVE IInv
    BY ZenonT(60) DEF Init
  <1>1. HttpTypes
    BY PairsApart, ZenonT(60) DEF HttpInit, HttpTypes, Labels
  <1>2. ExpectedRecords = {} /\ Existing = {}
    BY PairsApart, ZenonT(60) DEF HttpInit, ExpectedRecords, Existing, NewLabels
  <1>3. Holdings /\ DatabaseInv
    BY <1>2, ZenonT(60) DEF HttpInit, Holdings, DatabaseInv, NewLabels, DropLabels, EmptyBag
  <1>4. TokenTypes /\ TokenInv
    BY BodyAssumption DEF HttpInit, TokenTypes, TokenInv, None
  <1>5. Ip4Types /\ Ip4Inv
    BY SecondsAssumption DEF Ip4Init, Ip4Types, Ip4Inv
  <1>6. QED
    BY <1>1, <1>3, <1>4, <1>5, ZenonT(60) DEF IInv, HttpInv

\* HttpHelper and Ip4Config2: the invariant holds in every reachable state.
THEOREM Invariance == FairSpec => []IInv
  <1>1. IInv /\ [Next]_vars => IInv'
    BY Ip4Step, TokenStep, HttpStep, ZenonT(60) DEF IInv, HttpInv
  <1>2. QED
    BY <1>1, InitIInv, PTL DEF FairSpec

\* HttpHelper: no token outlives its call unless poll failed, and the bytes
\* returned are the bytes delivered (http.rs, request, response_first and
\* response_more).
THEOREM ResponseIntactCorrect == FairSpec => []ResponseIntact
  <1>1. ASSUME HttpTypes
        PROVE  Cardinality(helper) <= 1 /\ \A h \in helper : h.child \in Children
    <2>1. CASE helper = {}
      BY <2>1, FS_EmptySet
    <2>2. CASE helper # {}
      <3>1. PICK h : helper = {h}
        BY <1>1, <2>2, ZenonT(60) DEF HttpTypes
      <3>2. Cardinality(helper) = 1
        BY <3>1, FS_Singleton, ZenonT(60)
      <3>3. h.child \in Children
        BY <1>1, <3>1 DEF HttpTypes, HelperOf
      <3>4. QED
        BY <3>1, <3>2, <3>3
    <2>3. QED
      BY <2>1, <2>2, ZenonT(60)
  <1>2. IInv => TypeOK
    BY <1>1, BodyAssumption DEF IInv, HttpInv, HttpTypes, TokenTypes, Ip4Types, TypeOK
  <1>3. ASSUME IInv PROVE ResponseIntact
    <2>1. TokenInv /\ TokenTypes
      BY <1>3, ZenonT(60) DEF IInv
    <2>2. pending \subseteq {f \in {frame} : pc = "poll"} \cup abandoned /\ stray \subseteq abandoned
      BY <2>1, ZenonT(60) DEF TokenInv
    <2>3. ASSUME pc = "idle", ~ failed PROVE received = sent
      <3>1. sent = received + 0
        BY <2>1, <2>3 DEF TokenInv
      <3>2. received \in Nat
        BY <2>1, ZenonT(60) DEF TokenTypes
      <3>3. QED
        BY <3>1, <3>2, SMTT(30)
    <2>4. QED
      BY <1>2, <1>3, <2>2, <2>3, ZenonT(60) DEF ResponseIntact, At
  <1>4. QED
    BY <1>3, Invariance, PTL

\* HttpHelper::new and drop leave no child and no open record behind
\* (http.rs).
THEOREM NothingLeftBehindCorrect == FairSpec => []NothingLeftBehind
  <1>1. IInv => NothingLeftBehind
    BY ZenonT(60) DEF IInv, HttpInv, DatabaseInv, ExpectedChildren, ExpectedRecords, NewLabels, NothingLeftBehind, At
  <1>2. QED
    BY <1>1, Invariance, PTL

\* Ip4Config2::ifup: TIMEOUT only after all its seconds with DHCP on, Ok only
\* with an address, BUFFER_TOO_SMALL only if the address came in between.
THEOREM IfupOutcomeCorrect == FairSpec => IfupOutcome
  <1>1. IInv /\ [Next]_vars => [OutcomeStep]_vars
    BY OutcomeAllowed DEF IInv
  <1>2. FairSpec => [][OutcomeStep]_vars
    BY <1>1, Invariance, PTL DEF FairSpec
  <1>3. QED
    BY <1>2, ZenonT(60) DEF IfupOutcome, OutcomeStep
=============================================================================
