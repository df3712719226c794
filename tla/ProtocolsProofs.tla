--------------------------- MODULE ProtocolsProofs ---------------------------
(***************************************************************************)
(* Proofs about Protocols: what the guards of the application guarantee,   *)
(* whatever drivers do between its calls.                                  *)
(***************************************************************************)
EXTENDS Protocols, FiniteSetTheorems, SequenceTheorems, TLAPS

-----------------------------------------------------------------------------
(* The inductive invariant *)

\* How often a record is open
Copies(e, B) == IF e \in DOMAIN B THEN B[e] ELSE 0
Total(hp, c, B) == Copies(Record(hp, App, c, "GetProtocol"), B) + Copies(Record(hp, App, c, "Exclusive"), B)

\* Guards in any assignment f of guards to places
GuardsIn(f, hp, c) == {s \in DOMAIN f : \E x \in f[s] : x.hp = hp /\ x.controller = c}

\* Drivers never open a pair with GetProtocol, nor the application with
\* ByDriver.
IsRecord(r) ==
    /\ r = Record(r.hp, r.agent, r.controller, r.attr)
    /\ \/ r.agent = App /\ r.attr \in {"GetProtocol", "Exclusive"}
       \/ r.agent = Driver /\ r.attr \in {"ByDriver", "Exclusive"}

IsScoped(x) ==
    /\ x.agent = App /\ x.hp \in Pairs /\ x.interface # NoIface
    /\ x.by = "open_protocol" \/ (x.by = "open_protocol_exclusive" /\ x.controller = None)

Types ==
    /\ iface \in [Pairs -> {NoIface, Fixed} \cup Ifaces]
    /\ IsABag(opens) /\ \A r \in DOMAIN opens : IsRecord(r)
    /\ DOMAIN scoped = Slots \cup Temps /\ scoped = [s \in DOMAIN scoped |-> scoped[s]]
    /\ \A s \in DOMAIN scoped : /\ \A x \in scoped[s] : IsScoped(x)
                                /\ \A x, y \in scoped[s] : x = y

\* Every record of the application has a guard of its own.
Counted == \A hp \in Pairs : \A c : Total(hp, c, opens) <= Cardinality(GuardsIn(scoped, hp, c))

\* An exclusive guard has its record, which keeps everyone else away; two
\* guards on one pair make it a mixed one.
ExclusiveHeld(x) ==
    /\ iface[x.hp] = x.interface
    /\ Record(x.hp, App, None, "Exclusive") \in DOMAIN opens
    /\ \A r \in DOMAIN opens : r.hp = x.hp => r.agent = App
Exclusion ==
    \A s \in DOMAIN scoped : \A x \in scoped[s] :
        x.by = "open_protocol_exclusive" /\ x.hp \notin mixed => ExclusiveHeld(x)
Alone ==
    \A s, t \in DOMAIN scoped : \A x \in scoped[s], y \in scoped[t] :
        s # t /\ x.hp = y.hp => x.hp \in mixed

DatabaseInv == Types /\ Counted /\ Exclusion /\ Alone

\* The locals of get_image_file_system exist only within it.
LocalsInv ==
    /\ pc \in {"idle", "find", "device", "locate", "drop_path", "drop_image"}
    /\ pc \in {"idle", "find"} => scoped["loaded_image"] = {}
    /\ pc \in {"idle", "find", "device", "drop_image"} => scoped["device_path"] = {}
    /\ device # None => <<device, DevicePath>> \in Pairs

PanicInv ==
    panic # "no" =>
        /\ panic \in DOMAIN scoped
        /\ \A x \in scoped[panic] : /\ x.by = "open_protocol" \/ x.hp \in mixed
                                    /\ Records(x.hp, x.controller) = {}

\* Without a race, find_handles finds no more handles than it counted.
FindInv ==
    /\ raced => pc = "find" /\ tpl < CALLBACK
    /\ pc = "find" => num_handles \in Nat
    /\ pc = "find" /\ ~ raced => Cardinality(Installed(SimpleFileSystem)) <= num_handles

\* The level below the guard at place i of g
Below(g, i) == IF i = 1 THEN APPLICATION ELSE g[i - 1].raised

TplGuards == [old_tpl : Tpls, raised : Tpls]

LevelInv ==
    /\ tpl \in Tpls /\ guards \in Seq(TplGuards) /\ Len(guards) <= MaxGuards
    /\ inOrder => /\ tpl = Below(guards, Len(guards) + 1)
                  /\ \A i \in 1 .. Len(guards) : guards[i].old_tpl = Below(guards, i)

IInv == DatabaseInv /\ LocalsInv /\ PanicInv /\ FindInv /\ LevelInv

-----------------------------------------------------------------------------
(* Bags and sequences *)

\* OpenProtocol: the bag gains one copy of a record.
LEMMA AddCopy ==
    ASSUME NEW B, IsABag(B), NEW r
    PROVE  /\ IsABag(B (+) One(r)) /\ DOMAIN (B (+) One(r)) = DOMAIN B \cup {r}
           /\ \A e : Copies(e, B (+) One(r)) = Copies(e, B) + IF e = r THEN 1 ELSE 0
  <1> DEFINE C == B (+) One(r)
  <1>1. C = [e \in DOMAIN B \cup {r} |-> Copies(e, B) + IF e = r THEN 1 ELSE 0]
    BY DEF IsABag, (+), One, SetToBag, Copies
  <1>2. \A e : Copies(e, B) \in Nat /\ (e \in DOMAIN B => Copies(e, B) > 0)
    BY DEF IsABag, Copies
  <1> HIDE DEF C
  <1>3. IsABag(C) /\ DOMAIN C = DOMAIN B \cup {r}
    BY <1>1, <1>2 DEF IsABag
  <1>4. \A e : Copies(e, C) = Copies(e, B) + IF e = r THEN 1 ELSE 0
    BY <1>1, <1>2 DEF Copies
  <1>5. QED
    BY <1>3, <1>4 DEF C

\* CloseProtocol: the bag loses one copy of a record.
LEMMA RemoveCopy ==
    ASSUME NEW B, IsABag(B), NEW r \in DOMAIN B
    PROVE  /\ IsABag(B (-) One(r)) /\ DOMAIN B \ {r} \subseteq DOMAIN (B (-) One(r))
           /\ DOMAIN (B (-) One(r)) \subseteq DOMAIN B
           /\ \A e : Copies(e, B (-) One(r)) = Copies(e, B) - IF e = r THEN 1 ELSE 0
  <1> DEFINE C == B (-) One(r)
             N(e) == Copies(e, B) - IF e = r THEN 1 ELSE 0
  <1>1. C = [e \in {d \in DOMAIN B : N(d) > 0} |-> N(e)]
    BY DEF IsABag, (-), One, SetToBag, Copies
  <1>2. \A e : N(e) \in Nat /\ (e \in DOMAIN B \ {r} => N(e) > 0) /\ (N(e) > 0 => e \in DOMAIN B)
    BY DEF IsABag, Copies
  <1> HIDE DEF C, N
  <1>3. IsABag(C) /\ DOMAIN C = {d \in DOMAIN B : N(d) > 0}
    BY <1>1, <1>2, ZenonT(60) DEF IsABag
  <1>4. \A e : Copies(e, C) = N(e)
    BY <1>1, <1>2 DEF Copies
  <1>5. QED
    BY <1>2, <1>3, <1>4, ZenonT(60) DEF C, N

\* A driver that stops, an interface that goes: all copies of some records go.
LEMMA WithoutCopies ==
    ASSUME NEW R, IsABag(opens)
    PROVE  /\ IsABag(Without(R)) /\ DOMAIN Without(R) = DOMAIN opens \ R
           /\ \A e : Copies(e, Without(R)) = IF e \in R THEN 0 ELSE Copies(e, opens)
  BY ZenonT(60) DEF IsABag, Without, BagToSet, Copies

\* drop_tpl_guard: one element less, those before it in place
LEMMA Removed ==
    ASSUME NEW S, NEW g \in Seq(S), NEW i \in 1 .. Len(g)
    PROVE  LET r == SubSeq(g, 1, i - 1) \o SubSeq(g, i + 1, Len(g))
           IN  /\ r \in Seq(S) /\ Len(r) = Len(g) - 1
               /\ \A k \in 1 .. i - 1 : r[k] = g[k]
  <1> DEFINE a == SubSeq(g, 1, i - 1)
             b == SubSeq(g, i + 1, Len(g))
  <1>1. Len(g) \in Nat /\ \A k \in 1 .. Len(g) : g[k] \in S
    OBVIOUS
  <1>2. a \in Seq(S) /\ Len(a) = i - 1 /\ \A k \in 1 .. i - 1 : a[k] = g[k]
    <2>1. \A k \in 1 .. i - 1 : g[k] \in S
      BY <1>1
    <2>2. /\ a \in Seq(S) /\ Len(a) = IF 1 <= i - 1 THEN i - 1 - 1 + 1 ELSE 0
          /\ \A k \in 1 .. i - 1 - 1 + 1 : a[k] = g[1 + k - 1]
      BY <1>1, <2>1, SubSeqProperties
    <2>3. QED
      BY <1>1, <2>2
  <1>3. b \in Seq(S) /\ Len(b) = Len(g) - i
    <2>1. \A k \in i + 1 .. Len(g) : g[k] \in S
      BY <1>1
    <2>2. b \in Seq(S) /\ Len(b) = IF i + 1 <= Len(g) THEN Len(g) - (i + 1) + 1 ELSE 0
      BY <1>1, <2>1, SubSeqProperties
    <2>3. QED
      BY <1>1, <2>2
  <1> HIDE DEF a, b
  <1>4. /\ a \o b \in Seq(S) /\ Len(a \o b) = Len(a) + Len(b)
        /\ \A k \in 1 .. Len(a) + Len(b) : (a \o b)[k] = IF k <= Len(a) THEN a[k] ELSE b[k - Len(a)]
    BY <1>2, <1>3, ConcatProperties, ZenonT(60)
  <1>5. Len(a) + Len(b) = Len(g) - 1 /\ \A k \in 1 .. i - 1 : k \in 1 .. Len(a) + Len(b) /\ k <= Len(a)
    BY <1>1, <1>2, <1>3
  <1>6. \A k \in 1 .. i - 1 : (a \o b)[k] = g[k]
    BY <1>2, <1>4, <1>5
  <1>7. QED
    BY <1>4, <1>5, <1>6, ZenonT(60) DEF a, b

\* Any set of places for guards is finite.
LEMMA PlacesFinite == \A S \in SUBSET (Slots \cup Temps) : IsFiniteSet(S) /\ Cardinality(S) \in Nat
  <1>1. IsFiniteSet({"loaded_image"} \cup {"device_path"})
    BY FS_Singleton, FS_AddElement, ZenonT(60)
  <1>2. Temps = {"loaded_image"} \cup {"device_path"}
    BY DEF Temps
  <1>3. IsFiniteSet(Slots \cup Temps)
    BY <1>1, <1>2, FS_Union, FiniteAssumption, ZenonT(60)
  <1>4. QED
    BY <1>3, FS_Subset, FS_CardinalityType

-----------------------------------------------------------------------------
(* The open records *)

\* A record is made of its four parts.
LEMMA RecordParts ==
    ASSUME NEW hp, NEW agent, NEW c, NEW attr
    PROVE  LET r == Record(hp, agent, c, attr)
           IN  r.hp = hp /\ r.agent = agent /\ r.controller = c /\ r.attr = attr
  BY DEF Record

\* OpenProtocol fails and changes nothing, or it adds the record; when it is
\* not for GetProtocol, nobody else has the pair exclusively and the drivers
\* that had it open have stopped.
LEMMA OpenOutcomes ==
    ASSUME Types, NEW r, IsRecord(r), NEW q \in fw_open_protocol(r)
    PROVE  \/ q[1] # "SUCCESS" /\ q[2] = opens
           \/ /\ q[1] = "SUCCESS" /\ iface[r.hp] # NoIface
              /\ \E R : /\ R \subseteq By(r.hp, "ByDriver") /\ r \notin R
                        /\ r.attr # "GetProtocol" => R = By(r.hp, "ByDriver") /\ By(r.hp, "Exclusive") = {}
                        /\ q[2] = Without(R) (+) One(r)
  <1> DEFINE drivers == By(r.hp, "ByDriver")
  <1>1. Without({}) = opens
    BY DEF Without, BagToSet, Types, IsABag
  <1>2. CASE iface[r.hp] = NoIface
    BY <1>2 DEF fw_open_protocol
  <1>3. CASE iface[r.hp] # NoIface /\ r.attr = "GetProtocol"
    <2>1. q = <<"SUCCESS", opens (+) One(r)>>
      BY <1>3 DEF fw_open_protocol
    <2>2. q[2] = Without({}) (+) One(r)
      BY <1>1, <2>1
    <2>3. QED
      BY <1>3, <2>1, <2>2
  <1>4. CASE iface[r.hp] # NoIface /\ r.attr # "GetProtocol"
    <2>1. CASE By(r.hp, "Exclusive") # {} \/ (r.attr = "ByDriver" /\ drivers # {})
      BY <1>4, <2>1 DEF fw_open_protocol
    <2>2. CASE ~ (By(r.hp, "Exclusive") # {} \/ (r.attr = "ByDriver" /\ drivers # {}))
      <3>1. q = <<"ACCESS_DENIED", opens>> \/ q = <<"SUCCESS", Without(drivers) (+) One(r)>>
        BY <1>4, <2>2 DEF fw_open_protocol
      <3>2. r \notin drivers
        BY <2>2 DEF By
      <3>3. QED
        BY <1>4, <2>2, <3>1, <3>2
    <2>3. QED
      BY <2>1, <2>2
  <1>5. QED
    BY <1>2, <1>3, <1>4, ZenonT(60)

\* What the bag of open records is after a successful OpenProtocol
LEMMA OpenedRecords ==
    ASSUME Types, NEW r, IsRecord(r), NEW R, opens' = Without(R) (+) One(r)
    PROVE  /\ IsABag(opens') /\ DOMAIN opens' = (DOMAIN opens \ R) \cup {r}
           /\ \A e \in DOMAIN opens' : IsRecord(e)
           /\ \A e : Copies(e, opens') = (IF e \in R THEN 0 ELSE Copies(e, opens)) + IF e = r THEN 1 ELSE 0
  <1>1. IsABag(opens) /\ \A e \in DOMAIN opens : IsRecord(e)
    BY DEF Types
  <1>2. /\ IsABag(Without(R)) /\ DOMAIN Without(R) = DOMAIN opens \ R
        /\ \A e : Copies(e, Without(R)) = IF e \in R THEN 0 ELSE Copies(e, opens)
    BY <1>1, WithoutCopies, ZenonT(60)
  <1>3. /\ IsABag(opens') /\ DOMAIN opens' = (DOMAIN opens \ R) \cup {r}
        /\ \A e : Copies(e, opens') = Copies(e, Without(R)) + IF e = r THEN 1 ELSE 0
    BY <1>2, AddCopy, ZenonT(60)
  <1>4. QED
    BY <1>1, <1>2, <1>3

\* A number of copies is a natural number.
LEMMA CopiesType ==
    ASSUME NEW B, IsABag(B)
    PROVE  \A e : Copies(e, B) \in Nat
  BY DEF IsABag, Copies

\* A step that leaves the guards alone and adds no record of the application
LEMMA CountedFewer ==
    ASSUME Types, Counted, IsABag(opens'), UNCHANGED scoped,
           \A e : e.agent = App => Copies(e, opens') <= Copies(e, opens)
    PROVE  Counted'
  <1> SUFFICES ASSUME NEW hp \in Pairs, NEW c PROVE Total(hp, c, opens') <= Cardinality(GuardsIn(scoped', hp, c))
    BY DEF Counted
  <1>1. GuardsIn(scoped', hp, c) = GuardsIn(scoped, hp, c) /\ GuardsIn(scoped, hp, c) \in SUBSET (Slots \cup Temps)
    BY DEF GuardsIn, Types
  <1>2. Cardinality(GuardsIn(scoped, hp, c)) \in Nat
    BY <1>1, PlacesFinite, ZenonT(60)
  <1> DEFINE g == Record(hp, App, c, "GetProtocol")
             x == Record(hp, App, c, "Exclusive")
  <1>3. g.agent = App /\ x.agent = App
    BY RecordParts
  <1>4. /\ Total(hp, c, opens) = Copies(g, opens) + Copies(x, opens)
        /\ Total(hp, c, opens') = Copies(g, opens') + Copies(x, opens')
    BY ZenonT(60) DEF Total
  <1>5. {Copies(g, opens), Copies(x, opens), Copies(g, opens'), Copies(x, opens')} \subseteq Nat
    BY CopiesType DEF Types
  <1> HIDE DEF g, x
  <1>6. Copies(g, opens') <= Copies(g, opens) /\ Copies(x, opens') <= Copies(x, opens)
    BY <1>3, ZenonT(60)
  <1>7. Total(hp, c, opens') <= Total(hp, c, opens) /\ Total(hp, c, opens) \in Nat /\ Total(hp, c, opens') \in Nat
    BY <1>4, <1>5, <1>6
  <1>8. Total(hp, c, opens) <= Cardinality(GuardsIn(scoped, hp, c))
    BY DEF Counted
  <1>9. QED
    BY <1>1, <1>2, <1>7, <1>8

\* Interfaces are installed, replaced or removed: an exclusive guard keeps
\* its own.
LEMMA ChangeStep ==
    ASSUME DatabaseInv, Change, UNCHANGED <<scoped, mixed>>
    PROVE  DatabaseInv'
  <1>1. PICK hp \in Pairs :
            \/ \E new \in Ifaces : fw_install(hp, new)
            \/ \E old \in Ifaces, new \in Ifaces \cup {NoIface} : fw_replace(hp, old, new)
    BY ImagePair DEF Change, install_protocol_interface, reinstall_protocol_interface,
                     uninstall_protocol_interface
  <1>2. Types /\ Counted /\ Exclusion /\ Alone
    BY DEF DatabaseInv
  <1>3. \E new \in Ifaces \cup {NoIface} : iface' = [iface EXCEPT ![hp] = new]
    BY <1>1 DEF fw_install, fw_replace
  <1>4. \/ UNCHANGED opens /\ iface[hp] = NoIface
        \/ By(hp, "Exclusive") = {} /\ \E R : (\A r \in R : r.hp = hp) /\ opens' = Without(R)
    BY <1>1, ZenonT(60) DEF fw_install, fw_replace, On, By
  <1> DEFINE Shrinks(B) == /\ IsABag(B) /\ DOMAIN B \subseteq DOMAIN opens
                           /\ \A e : Copies(e, B) <= Copies(e, opens)
                           /\ \A r \in DOMAIN opens : r.hp # hp => r \in DOMAIN B
  <1>5. Shrinks(opens')
    <2>1. IsABag(opens) /\ \A e : Copies(e, opens) \in Nat
      BY <1>2, CopiesType DEF Types
    <2>2. Shrinks(opens)
      BY <2>1
    <2>3. ASSUME NEW R, \A r \in R : r.hp = hp
          PROVE  Shrinks(Without(R))
      <3>1. /\ IsABag(Without(R)) /\ DOMAIN Without(R) = DOMAIN opens \ R
            /\ \A e : Copies(e, Without(R)) = IF e \in R THEN 0 ELSE Copies(e, opens)
        BY <2>1, WithoutCopies, ZenonT(60)
      <3>2. QED
        BY <2>1, <2>3, <3>1
    <2> HIDE DEF Shrinks
    <2>4. QED
      BY <1>4, <2>2, <2>3
  <1>6. Types'
    BY <1>2, <1>3, <1>5, ZenonT(60) DEF Types
  <1>7. Counted'
    BY <1>2, <1>5, CountedFewer, ZenonT(60)
  <1>8. Alone'
    BY <1>2 DEF Alone
  <1>9. Exclusion'
    <2> SUFFICES ASSUME NEW s \in DOMAIN scoped, NEW x \in scoped[s],
                        x.by = "open_protocol_exclusive", x.hp \notin mixed
                 PROVE  ExclusiveHeld(x)'
      BY ZenonT(60) DEF Exclusion
    <2>1. ExclusiveHeld(x) /\ x.hp \in Pairs /\ x.interface # NoIface
      BY <1>2, ZenonT(60) DEF Exclusion, Types, IsScoped
    <2>2. x.hp # hp
      <3>1. Record(x.hp, App, None, "Exclusive") \in By(x.hp, "Exclusive")
        BY <2>1, RecordParts DEF ExclusiveHeld, By, On, BagToSet
      <3>2. QED
        BY <1>4, <2>1, <3>1, ZenonT(60) DEF ExclusiveHeld
    <2>3. iface'[x.hp] = iface[x.hp]
      BY <1>2, <1>3, <2>1, <2>2, ZenonT(60) DEF Types
    <2>4. QED
      BY <1>5, <2>1, <2>2, <2>3, RecordParts DEF ExclusiveHeld
  <1>10. QED
    BY <1>6, <1>7, <1>8, <1>9 DEF DatabaseInv

\* A driver opens or closes a pair: not one the application has exclusively.
LEMMA DriverOpensStep ==
    ASSUME DatabaseInv, UNCHANGED <<iface, scoped, mixed>>,
           NEW hp \in Pairs, NEW attr \in {"ByDriver", "Exclusive"},
           NEW q \in fw_open_protocol(Record(hp, Driver, None, attr)), q[1] = "SUCCESS", opens' = q[2]
    PROVE  DatabaseInv'
  <1> DEFINE r == Record(hp, Driver, None, attr)
  <1>1. r.hp = hp /\ r.agent = Driver /\ r.attr = attr /\ IsRecord(r)
    BY RecordParts DEF IsRecord
  <1> HIDE DEF r
  <1>2. Types /\ Counted /\ Exclusion /\ Alone
    BY ZenonT(60) DEF DatabaseInv
  <1>3. PICK R : /\ R = By(hp, "ByDriver") /\ By(hp, "Exclusive") = {}
                 /\ opens' = Without(R) (+) One(r)
    BY <1>1, <1>2, OpenOutcomes, ZenonT(60) DEF r
  <1>4. /\ IsABag(opens') /\ DOMAIN opens' = (DOMAIN opens \ R) \cup {r}
        /\ \A e \in DOMAIN opens' : IsRecord(e)
        /\ \A e : Copies(e, opens') = (IF e \in R THEN 0 ELSE Copies(e, opens)) + IF e = r THEN 1 ELSE 0
    BY <1>1, <1>2, <1>3, OpenedRecords, ZenonT(60)
  <1>5. Types'
    BY <1>2, <1>4 DEF Types
  <1>6. Counted'
    <2>1. \A e : Copies(e, opens) \in Nat
      BY <1>2, CopiesType DEF Types
    <2>2. \A e : e.agent = App => Copies(e, opens') <= Copies(e, opens)
      BY <1>1, <1>4, <2>1 DEF App, Driver
    <2>3. QED
      BY <1>2, <1>4, <2>2, CountedFewer
  <1>7. Alone'
    BY <1>2 DEF Alone
  <1>8. Exclusion'
    <2> SUFFICES ASSUME NEW s \in DOMAIN scoped, NEW x \in scoped[s],
                        x.by = "open_protocol_exclusive", x.hp \notin mixed
                 PROVE  ExclusiveHeld(x)'
      BY ZenonT(60) DEF Exclusion
    <2>1. ExclusiveHeld(x)
      BY <1>2, ZenonT(60) DEF Exclusion
    <2> DEFINE e == Record(x.hp, App, None, "Exclusive")
    <2>2. e.hp = x.hp /\ e.attr = "Exclusive" /\ e \in DOMAIN opens
      BY <2>1, RecordParts DEF ExclusiveHeld
    <2> HIDE DEF e
    <2>3. e \in By(x.hp, "Exclusive") /\ e \notin R
      BY <1>3, <2>2, ZenonT(60) DEF By, On, BagToSet
    <2>4. x.hp # hp
      BY <1>3, <2>3, ZenonT(60)
    <2>5. QED
      BY <1>1, <1>4, <2>1, <2>2, <2>3, <2>4 DEF ExclusiveHeld, e
  <1>9. QED
    BY <1>5, <1>6, <1>7, <1>8, ZenonT(60) DEF DatabaseInv

\* CloseProtocol: it finds no record and changes nothing, or it removes one
\* copy of a record with its parameters.
LEMMA CloseOutcomes ==
    ASSUME Types, NEW hp, NEW agent, NEW c, NEW q \in fw_close_protocol(hp, agent, c)
    PROVE  \/ /\ q[1] # "SUCCESS" /\ q[2] = opens
              /\ {r \in On(hp) : r.agent = agent /\ r.controller = c} = {}
           \/ /\ q[1] = "SUCCESS"
              /\ \E r \in DOMAIN opens :
                    /\ r.hp = hp /\ r.agent = agent /\ r.controller = c /\ q[2] = opens (-) One(r)
                    /\ IsABag(q[2]) /\ DOMAIN opens \ {r} \subseteq DOMAIN q[2] /\ DOMAIN q[2] \subseteq DOMAIN opens
                    /\ \A e : Copies(e, q[2]) = Copies(e, opens) - IF e = r THEN 1 ELSE 0
  <1> DEFINE same == {r \in On(hp) : r.agent = agent /\ r.controller = c}
  <1>1. CASE same = {}
    BY <1>1 DEF fw_close_protocol
  <1>2. CASE same # {}
    <2>1. PICK r \in same : q = <<"SUCCESS", opens (-) One(r)>>
      BY <1>2, ZenonT(60) DEF fw_close_protocol
    <2>2. r \in DOMAIN opens /\ r.hp = hp /\ r.agent = agent /\ r.controller = c
      BY DEF On, BagToSet
    <2>3. q[1] = "SUCCESS" /\ q[2] = opens (-) One(r)
      BY <2>1
    <2>4. IsABag(opens)
      BY ZenonT(60) DEF Types
    <2>5. /\ IsABag(opens (-) One(r)) /\ DOMAIN opens \ {r} \subseteq DOMAIN (opens (-) One(r))
          /\ DOMAIN (opens (-) One(r)) \subseteq DOMAIN opens
          /\ \A e : Copies(e, opens (-) One(r)) = Copies(e, opens) - IF e = r THEN 1 ELSE 0
      BY <2>2, <2>4, RemoveCopy, ZenonT(60)
    <2>6. QED
      BY <2>2, <2>3, <2>5, SMTT(30)
  <1>3. QED
    BY <1>1, <1>2, ZenonT(60)

LEMMA DriverClosesStep ==
    ASSUME DatabaseInv, UNCHANGED <<iface, scoped, mixed>>, NEW hp \in Pairs,
           NEW q \in fw_close_protocol(hp, Driver, None), q[1] = "SUCCESS", opens' = q[2]
    PROVE  DatabaseInv'
  <1>1. Types /\ Counted /\ Exclusion /\ Alone
    BY ZenonT(60) DEF DatabaseInv
  <1>2. PICK r \in DOMAIN opens :
            /\ r.hp = hp /\ r.agent = Driver
            /\ IsABag(opens') /\ DOMAIN opens \ {r} \subseteq DOMAIN opens' /\ DOMAIN opens' \subseteq DOMAIN opens
            /\ \A e : Copies(e, opens') = Copies(e, opens) - IF e = r THEN 1 ELSE 0
    BY <1>1, CloseOutcomes
  <1>3. Types'
    BY <1>1, <1>2, ZenonT(60) DEF Types
  <1>4. Counted'
    <2>1. \A e : Copies(e, opens) \in Nat
      BY <1>1, CopiesType, ZenonT(60) DEF Types
    <2>2. \A e : e.agent = App => Copies(e, opens') <= Copies(e, opens)
      BY <1>2, <2>1 DEF App, Driver
    <2>3. QED
      BY <1>1, <1>2, <2>2, CountedFewer, ZenonT(60)
  <1>5. Alone'
    BY <1>1 DEF Alone
  <1>6. Exclusion'
    <2> SUFFICES ASSUME NEW s \in DOMAIN scoped, NEW x \in scoped[s],
                        x.by = "open_protocol_exclusive", x.hp \notin mixed
                 PROVE  ExclusiveHeld(x)'
      BY ZenonT(60) DEF Exclusion
    <2>1. ExclusiveHeld(x)
      BY <1>1, ZenonT(60) DEF Exclusion
    <2>2. Record(x.hp, App, None, "Exclusive") # r
      BY <1>2, RecordParts DEF App, Driver
    <2>3. QED
      BY <1>2, <2>1, <2>2, ZenonT(60) DEF ExclusiveHeld
  <1>7. QED
    BY <1>3, <1>4, <1>5, <1>6, ZenonT(60) DEF DatabaseInv

\* n is f with x in place s
Placed(n, f, s, x) == n = [f EXCEPT ![s] = x]

\* The count of guards when one is added or removed
LEMMA GuardAdded ==
    ASSUME NEW f, DOMAIN f = Slots \cup Temps, NEW s \in DOMAIN f, f[s] = {},
           NEW x, NEW n, Placed(n, f, s, {x}), NEW hp, NEW c
    PROVE  Cardinality(GuardsIn(n, hp, c)) = Cardinality(GuardsIn(f, hp, c)) + IF x.hp = hp /\ x.controller = c THEN 1 ELSE 0
  <1>1. /\ IsFiniteSet(GuardsIn(f, hp, c)) /\ Cardinality(GuardsIn(f, hp, c)) \in Nat
        /\ s \notin GuardsIn(f, hp, c)
    BY PlacesFinite, ZenonT(60) DEF GuardsIn
  <1>2. CASE x.hp = hp /\ x.controller = c
    <2>1. GuardsIn(n, hp, c) = GuardsIn(f, hp, c) \cup {s}
      BY <1>2, ZenonT(60) DEF GuardsIn, Placed
    <2>2. Cardinality(GuardsIn(f, hp, c) \cup {s}) = Cardinality(GuardsIn(f, hp, c)) + 1
      BY <1>1, FS_AddElement, ZenonT(60)
    <2>3. QED
      BY <1>2, <2>1, <2>2, ZenonT(60)
  <1>3. CASE ~ (x.hp = hp /\ x.controller = c)
    <2>1. GuardsIn(n, hp, c) = GuardsIn(f, hp, c)
      BY <1>3, ZenonT(60) DEF GuardsIn, Placed
    <2>2. QED
      BY <1>1, <1>3, <2>1
  <1>4. QED
    BY <1>2, <1>3, ZenonT(60)

LEMMA GuardRemoved ==
    ASSUME NEW f, DOMAIN f = Slots \cup Temps, NEW s \in DOMAIN f,
           NEW x, f[s] = {x}, NEW n, Placed(n, f, s, {}), NEW hp, NEW c
    PROVE  Cardinality(GuardsIn(n, hp, c)) = Cardinality(GuardsIn(f, hp, c)) - IF x.hp = hp /\ x.controller = c THEN 1 ELSE 0
  <1>1. IsFiniteSet(GuardsIn(f, hp, c)) /\ Cardinality(GuardsIn(f, hp, c)) \in Nat
    BY PlacesFinite, ZenonT(60) DEF GuardsIn
  <1>2. CASE x.hp = hp /\ x.controller = c
    <2>1. GuardsIn(n, hp, c) = GuardsIn(f, hp, c) \ {s} /\ s \in GuardsIn(f, hp, c)
      BY <1>2, ZenonT(60) DEF GuardsIn, Placed
    <2>2. Cardinality(GuardsIn(f, hp, c) \ {s}) = Cardinality(GuardsIn(f, hp, c)) - 1
      BY <1>1, <2>1, FS_RemoveElement, ZenonT(60)
    <2>3. QED
      BY <1>2, <2>1, <2>2, ZenonT(60)
  <1>3. CASE ~ (x.hp = hp /\ x.controller = c)
    <2>1. GuardsIn(n, hp, c) = GuardsIn(f, hp, c)
      BY <1>3, ZenonT(60) DEF GuardsIn, Placed
    <2>2. QED
      BY <1>1, <1>3, <2>1
  <1>4. QED
    BY <1>2, <1>3, ZenonT(60)

\* C is B without the records R and with d more copies of r.
Recounted(C, B, R, r, d) ==
    \A e : Copies(e, C) = (IF e \in R THEN 0 ELSE Copies(e, B)) + IF e = r THEN d ELSE 0

AllByDriver(R) == \A e \in R : e.attr = "ByDriver"

\* The number of the application's records when one copy of r comes or goes
LEMMA TotalChange ==
    ASSUME NEW B, NEW C, IsABag(B), NEW r, IsRecord(r), r.agent = App, NEW d \in Int,
           NEW R, AllByDriver(R), Recounted(C, B, R, r, d),
           NEW hp, NEW c
    PROVE  Total(hp, c, C) = Total(hp, c, B) + IF r.hp = hp /\ r.controller = c THEN d ELSE 0
  <1> DEFINE g == Record(hp, App, c, "GetProtocol")
             x == Record(hp, App, c, "Exclusive")
  <1>1. /\ Total(hp, c, B) = Copies(g, B) + Copies(x, B)
        /\ Total(hp, c, C) = Copies(g, C) + Copies(x, C)
    BY ZenonT(60) DEF Total
  <1>2. Copies(g, B) \in Nat /\ Copies(x, B) \in Nat
    BY CopiesType, ZenonT(60)
  <1>3. /\ g.hp = hp /\ g.controller = c /\ g.attr = "GetProtocol"
        /\ x.hp = hp /\ x.controller = c /\ x.attr = "Exclusive"
    BY RecordParts
  <1>4. r.hp = hp /\ r.controller = c => r = g \/ r = x
    BY ZenonT(60) DEF IsRecord, App, Driver
  <1> HIDE DEF g, x
  <1>5. g \notin R /\ x \notin R /\ g # x
    BY <1>3, ZenonT(60) DEF AllByDriver
  <1>6. /\ Copies(g, C) = Copies(g, B) + IF g = r THEN d ELSE 0
        /\ Copies(x, C) = Copies(x, B) + IF x = r THEN d ELSE 0
    BY <1>5, ZenonT(60) DEF Recounted
  <1>7. (g = r \/ x = r) <=> (r.hp = hp /\ r.controller = c)
    BY <1>3, <1>4, ZenonT(60)
  <1>8. QED
    BY <1>1, <1>2, <1>5, <1>6, <1>7

\* open_protocol and open_protocol_exclusive, with the guard put into an
\* empty place
LEMMA OpenedStep ==
    ASSUME DatabaseInv, NEW s \in DOMAIN scoped, scoped[s] = {}, NEW hp \in Pairs, NEW c, NEW attr, NEW by,
           \/ attr = "GetProtocol" /\ by = "open_protocol"
           \/ attr = "Exclusive" /\ by = "open_protocol_exclusive" /\ c = None,
           NEW o \in OpenFor(Record(hp, App, c, attr), by), Opened(s, hp, o), UNCHANGED iface
    PROVE  /\ DatabaseInv' /\ scoped' = [scoped EXCEPT ![s] = o.scoped]
           /\ \A t \in DOMAIN scoped : t # s => scoped'[t] = scoped[t]
  <1> DEFINE r == Record(hp, App, c, attr)
  <1>1. r.hp = hp /\ r.agent = App /\ r.controller = c /\ r.attr = attr /\ IsRecord(r)
    BY RecordParts DEF IsRecord
  <1>2. Types /\ Counted /\ Exclusion /\ Alone
    BY ZenonT(60) DEF DatabaseInv
  <1>3. PICK q \in fw_open_protocol(r) :
            o = [opens |-> q[2], scoped |-> IF q[1] = "SUCCESS" THEN {Scoped(r, by)} ELSE {}]
    BY ZenonT(60) DEF OpenFor
  <1>4. /\ opens' = q[2] /\ scoped' = [scoped EXCEPT ![s] = o.scoped]
        /\ mixed' = IF o.scoped # {} /\ HeldOn(hp) # {} THEN mixed \cup {hp} ELSE mixed
        /\ DOMAIN scoped' = DOMAIN scoped /\ \A t \in DOMAIN scoped : t # s => scoped'[t] = scoped[t]
    BY <1>3, ZenonT(60) DEF Opened
  <1> HIDE DEF r
  <1>5. CASE q[1] # "SUCCESS"
    <2>1. o.scoped = {} /\ opens' = opens /\ mixed' = mixed
      BY <1>1, <1>2, <1>3, <1>4, <1>5, OpenOutcomes, ZenonT(60)
    <2>2. scoped' = scoped
      BY <1>2, <1>4, <2>1, ZenonT(60) DEF Types
    <2>3. DatabaseInv'
      BY <2>1, <2>2 DEF DatabaseInv, Types, Counted, Exclusion, Alone, ExclusiveHeld
    <2>4. QED
      BY <1>4, <2>3, ZenonT(60)
  <1>6. CASE q[1] = "SUCCESS"
    <2> DEFINE g == Scoped(r, by)
    <2>1. PICK R : /\ R \subseteq By(hp, "ByDriver")
                   /\ attr # "GetProtocol" => R = By(hp, "ByDriver") /\ By(hp, "Exclusive") = {}
                   /\ opens' = Without(R) (+) One(r) /\ iface[hp] # NoIface
      BY <1>1, <1>2, <1>4, <1>6, OpenOutcomes, ZenonT(60)
    <2>2. /\ g.hp = hp /\ g.agent = App /\ g.controller = c /\ g.interface = iface[hp] /\ g.by = by
          /\ o.scoped = {g}
      BY <1>1, <1>3, <1>6, ZenonT(60) DEF Scoped
    <2> HIDE DEF g
    <2>3. /\ IsABag(opens') /\ DOMAIN opens' = (DOMAIN opens \ R) \cup {r}
          /\ \A e \in DOMAIN opens' : IsRecord(e)
          /\ \A e : Copies(e, opens') = (IF e \in R THEN 0 ELSE Copies(e, opens)) + IF e = r THEN 1 ELSE 0
      BY <1>1, <1>2, <2>1, OpenedRecords, ZenonT(60)
    <2>4. \A e \in R : e.hp = hp /\ e.attr = "ByDriver"
      BY <2>1 DEF By, On
    <2>5. scoped' = [scoped EXCEPT ![s] = {g}] /\ scoped'[s] = {g}
      BY <1>4, <2>2, ZenonT(60)
    <2>6. IsScoped(g)
      BY <2>1, <2>2, ZenonT(60) DEF IsScoped
    <2>7. Types'
      <3>1. \A t \in DOMAIN scoped' : /\ \A x \in scoped'[t] : IsScoped(x)
                                      /\ \A x, y \in scoped'[t] : x = y
        BY <1>2, <1>4, <2>5, <2>6 DEF Types
      <3>2. QED
        BY <1>2, <1>4, <2>3, <3>1, ZenonT(60) DEF Types
    <2>8. Counted'
      <3> SUFFICES ASSUME NEW h \in Pairs, NEW d
                   PROVE  Total(h, d, opens') <= Cardinality(GuardsIn(scoped', h, d))
        BY ZenonT(60) DEF Counted
      <3>1. Total(h, d, opens') = Total(h, d, opens) + IF hp = h /\ c = d THEN 1 ELSE 0
        <4>1. IsABag(opens) /\ Recounted(opens', opens, R, r, 1) /\ AllByDriver(R)
          BY <1>2, <2>3, <2>4, ZenonT(60) DEF Types, Recounted, AllByDriver
        <4>2. Total(h, d, opens') = Total(h, d, opens) + IF r.hp = h /\ r.controller = d THEN 1 ELSE 0
          BY <1>1, <4>1, TotalChange
        <4>3. QED
          BY <1>1, <4>2, ZenonT(60)
      <3>2. Cardinality(GuardsIn(scoped', h, d)) = Cardinality(GuardsIn(scoped, h, d)) + IF hp = h /\ c = d THEN 1 ELSE 0
        <4>1. DOMAIN scoped = Slots \cup Temps /\ Placed(scoped', scoped, s, {g})
          BY <1>2, <2>5, ZenonT(60) DEF Types, Placed
        <4>2. Cardinality(GuardsIn(scoped', h, d))
                  = Cardinality(GuardsIn(scoped, h, d)) + IF g.hp = h /\ g.controller = d THEN 1 ELSE 0
          BY <4>1, GuardAdded
        <4>3. QED
          BY <2>2, <4>2, ZenonT(60)
      <3>3. Total(h, d, opens) \in Nat /\ Cardinality(GuardsIn(scoped, h, d)) \in Nat
        BY <1>2, PlacesFinite, CopiesType DEF Total, GuardsIn, Types
      <3>4. Total(h, d, opens) <= Cardinality(GuardsIn(scoped, h, d))
        BY <1>2, ZenonT(60) DEF Counted
      <3>5. QED
        BY <3>1, <3>2, <3>3, <3>4
    <2>9. mixed \subseteq mixed' /\ (HeldOn(hp) # {} => hp \in mixed')
      BY <1>4, <2>2, ZenonT(60)
    <2>10. \A t \in DOMAIN scoped : \A x \in scoped[t] : x.hp = hp => hp \in mixed'
      BY <2>9, ZenonT(60) DEF HeldOn
    <2>11. Alone'
      <3> SUFFICES ASSUME NEW t \in DOMAIN scoped, NEW u \in DOMAIN scoped,
                          NEW x \in scoped'[t], NEW y \in scoped'[u], t # u, x.hp = y.hp
                   PROVE  x.hp \in mixed'
        BY <1>4 DEF Alone
      <3>1. CASE t = s
        BY <1>4, <2>2, <2>5, <2>10, <3>1, ZenonT(60)
      <3>2. CASE u = s
        BY <1>4, <2>2, <2>5, <2>10, <3>2, ZenonT(60)
      <3>3. CASE t # s /\ u # s
        BY <1>2, <1>4, <2>9, <3>3, ZenonT(60) DEF Alone
      <3>4. QED
        BY <3>1, <3>2, <3>3, ZenonT(60)
    <2>12. Exclusion'
      <3> SUFFICES ASSUME NEW t \in DOMAIN scoped, NEW x \in scoped'[t],
                          x.by = "open_protocol_exclusive", x.hp \notin mixed'
                   PROVE  ExclusiveHeld(x)'
        BY <1>4, ZenonT(60) DEF Exclusion
      <3>1. CASE t = s
        <4>1. x = g /\ attr = "Exclusive" /\ c = None
          BY <2>2, <2>5, <3>1, ZenonT(60)
        <4>2. r \in DOMAIN opens' /\ r = Record(x.hp, App, None, "Exclusive")
          BY <2>2, <2>3, <4>1, ZenonT(60) DEF r
        <4>3. ASSUME NEW e \in DOMAIN opens', e.hp = hp
              PROVE  e.agent = App
          <5>1. CASE e = r
            BY <1>1, <5>1, ZenonT(60)
          <5>2. CASE e # r
            <6>1. e \in On(hp) /\ e \notin By(hp, "ByDriver") /\ e \notin By(hp, "Exclusive") /\ IsRecord(e)
              BY <2>1, <2>3, <4>1, <4>3, <5>2, ZenonT(60) DEF On, BagToSet
            <6>2. QED
              BY <6>1, ZenonT(60) DEF By, IsRecord
          <5>3. QED
            BY <5>1, <5>2, ZenonT(60)
        <4>4. QED
          BY <2>2, <4>1, <4>2, <4>3, ZenonT(60) DEF ExclusiveHeld
      <3>2. CASE t # s
        <4>1. x \in scoped[t] /\ x.hp \notin mixed /\ x.hp # hp
          BY <1>4, <2>9, <2>10, <3>2, ZenonT(60)
        <4>2. ExclusiveHeld(x)
          BY <1>2, <4>1, ZenonT(60) DEF Exclusion
        <4>3. Record(x.hp, App, None, "Exclusive").hp = x.hp
          BY RecordParts
        <4>4. QED
          BY <1>1, <2>3, <2>4, <4>1, <4>2, <4>3 DEF ExclusiveHeld
      <3>3. QED
        BY <3>1, <3>2, ZenonT(60)
    <2>13. QED
      BY <1>4, <2>7, <2>8, <2>11, <2>12, ZenonT(60) DEF DatabaseInv
  <1>7. QED
    BY <1>5, <1>6, ZenonT(60)

\* The drop of a ScopedProtocol whose close succeeds
LEMMA ClosedStep ==
    ASSUME DatabaseInv, NEW s \in DOMAIN scoped, NEW x \in scoped[s], NEW q \in close_protocol(x),
           q[1] = "SUCCESS", opens' = q[2], scoped' = [scoped EXCEPT ![s] = {}], UNCHANGED <<iface, mixed>>
    PROVE  DatabaseInv'
  <1>1. Types /\ Counted /\ Exclusion /\ Alone
    BY ZenonT(60) DEF DatabaseInv
  <1>2. IsScoped(x) /\ scoped[s] = {x}
    BY <1>1 DEF Types
  <1>3. PICK r \in DOMAIN opens :
            /\ r.hp = x.hp /\ r.agent = App /\ r.controller = x.controller
            /\ IsABag(opens') /\ DOMAIN opens \ {r} \subseteq DOMAIN opens' /\ DOMAIN opens' \subseteq DOMAIN opens
            /\ \A e : Copies(e, opens') = Copies(e, opens) - IF e = r THEN 1 ELSE 0
    BY <1>1, <1>2, CloseOutcomes DEF close_protocol, IsScoped
  <1>4. DOMAIN scoped' = DOMAIN scoped /\ scoped'[s] = {} /\ \A t \in DOMAIN scoped : t # s => scoped'[t] = scoped[t]
    BY ZenonT(60)
  <1>5. Types'
    <2>1. \A t \in DOMAIN scoped' : /\ \A y \in scoped'[t] : IsScoped(y)
                                    /\ \A y, z \in scoped'[t] : y = z
      BY <1>1, <1>4 DEF Types
    <2>2. scoped' = [t \in DOMAIN scoped' |-> scoped'[t]]
      BY ZenonT(60)
    <2>3. IsABag(opens') /\ \A e \in DOMAIN opens' : IsRecord(e)
      BY <1>1, <1>3 DEF Types
    <2>4. iface' \in [Pairs -> {NoIface, Fixed} \cup Ifaces] /\ DOMAIN scoped' = Slots \cup Temps
      BY <1>1, <1>4 DEF Types
    <2>5. QED
      BY <2>1, <2>2, <2>3, <2>4, ZenonT(60) DEF Types
  <1>6. Counted'
    <2> SUFFICES ASSUME NEW h \in Pairs, NEW d
                 PROVE  Total(h, d, opens') <= Cardinality(GuardsIn(scoped', h, d))
      BY ZenonT(60) DEF Counted
    <2>1. Total(h, d, opens') = Total(h, d, opens) - IF x.hp = h /\ x.controller = d THEN 1 ELSE 0
      <3>1. \A e : Copies(e, opens) \in Nat
        BY <1>1, CopiesType DEF Types
      <3>2. PICK n \in Int : n = -1
        OBVIOUS
      <3>3. IsABag(opens) /\ IsRecord(r) /\ r.agent = App
        BY <1>1, <1>3, ZenonT(60) DEF Types
      <3>4. AllByDriver({}) /\ Recounted(opens', opens, {}, r, n)
        BY <1>3, <3>1, <3>2 DEF Recounted, AllByDriver
      <3>5. Total(h, d, opens') = Total(h, d, opens) + IF r.hp = h /\ r.controller = d THEN n ELSE 0
        BY <3>3, <3>4, TotalChange
      <3>6. Total(h, d, opens) \in Nat
        BY <3>1 DEF Total
      <3>7. QED
        BY <1>3, <3>2, <3>5, <3>6
    <2>2. Cardinality(GuardsIn(scoped', h, d)) = Cardinality(GuardsIn(scoped, h, d)) - IF x.hp = h /\ x.controller = d THEN 1 ELSE 0
      <3>1. DOMAIN scoped = Slots \cup Temps /\ Placed(scoped', scoped, s, {})
        BY <1>1, ZenonT(60) DEF Types, Placed
      <3>2. QED
        BY <1>2, <3>1, GuardRemoved
    <2>3. Total(h, d, opens) \in Nat /\ Cardinality(GuardsIn(scoped, h, d)) \in Nat
      BY <1>1, PlacesFinite, CopiesType DEF Total, GuardsIn, Types
    <2>4. Total(h, d, opens) <= Cardinality(GuardsIn(scoped, h, d))
      BY <1>1, ZenonT(60) DEF Counted
    <2>5. QED
      BY <2>1, <2>2, <2>3, <2>4
  <1>7. Alone'
    BY <1>1, <1>4 DEF Alone
  <1>8. Exclusion'
    <2> SUFFICES ASSUME NEW t \in DOMAIN scoped, NEW y \in scoped'[t],
                        y.by = "open_protocol_exclusive", y.hp \notin mixed
                 PROVE  ExclusiveHeld(y)'
      BY <1>4, ZenonT(60) DEF Exclusion
    <2>1. t # s /\ y \in scoped[t]
      BY <1>4, ZenonT(60)
    <2>2. ExclusiveHeld(y)
      BY <1>1, <2>1, ZenonT(60) DEF Exclusion
    <2>3. y.hp # x.hp
      BY <1>1, <2>1, ZenonT(60) DEF Alone
    <2>4. Record(y.hp, App, None, "Exclusive") # r
      BY <1>3, <2>3, RecordParts
    <2>5. QED
      BY <1>3, <2>2, <2>4, ZenonT(60) DEF ExclusiveHeld
  <1>9. QED
    BY <1>5, <1>6, <1>7, <1>8, ZenonT(60) DEF DatabaseInv

\* The drop of a ScopedProtocol panics only for a guard that is not an
\* exclusive one, or whose pair is mixed, and whose record is gone.
LEMMA PanickedStep ==
    ASSUME DatabaseInv, NEW s \in DOMAIN scoped, NEW x \in scoped[s], NEW q \in close_protocol(x),
           q[1] # "SUCCESS"
    PROVE  /\ q[2] = opens /\ Records(x.hp, x.controller) = {}
           /\ x.by = "open_protocol" \/ x.hp \in mixed
  <1>1. Types /\ Exclusion /\ IsScoped(x)
    BY ZenonT(60) DEF DatabaseInv, Types
  <1>2. q[2] = opens /\ Records(x.hp, x.controller) = {}
    BY <1>1, CloseOutcomes DEF close_protocol, Records, IsScoped
  <1>3. ASSUME x.by = "open_protocol_exclusive", x.hp \notin mixed
        PROVE  FALSE
    <2> DEFINE e == Record(x.hp, App, None, "Exclusive")
    <2>1. e \in DOMAIN opens
      BY <1>1, <1>3, ZenonT(60) DEF Exclusion, ExclusiveHeld
    <2>2. e.hp = x.hp /\ e.agent = App /\ e.controller = None /\ x.controller = None
      BY <1>1, <1>3, RecordParts DEF IsScoped
    <2> HIDE DEF e
    <2>3. e \in Records(x.hp, x.controller)
      BY <2>1, <2>2, ZenonT(60) DEF Records, On, BagToSet
    <2>4. QED
      BY <1>2, <2>3, ZenonT(60)
  <1>4. QED
    BY <1>1, <1>2, <1>3, ZenonT(60) DEF IsScoped

\* The drop of a ScopedProtocol
LEMMA DropStep ==
    ASSUME DatabaseInv, panic = "no", NEW s \in DOMAIN scoped, NEW label, Drop(s, label),
           UNCHANGED <<iface, mixed>>
    PROVE  /\ DatabaseInv' /\ PanicInv'
           /\ \/ /\ panic' = "no" /\ pc' = label /\ DOMAIN scoped' = DOMAIN scoped /\ scoped'[s] = {}
                 /\ \A t \in DOMAIN scoped : t # s => scoped'[t] = scoped[t]
              \/ panic' = s /\ UNCHANGED <<scoped, pc>>
  <1>1. PICK x \in scoped[s] : \E q \in close_protocol(x) :
            /\ opens' = q[2]
            /\ IF q[1] = "SUCCESS"
               THEN scoped' = [scoped EXCEPT ![s] = {}] /\ pc' = label /\ UNCHANGED panic
               ELSE panic' = s /\ UNCHANGED <<scoped, pc>>
    BY ZenonT(60) DEF Drop
  <1>2. PICK q \in close_protocol(x) :
            /\ opens' = q[2]
            /\ IF q[1] = "SUCCESS"
               THEN scoped' = [scoped EXCEPT ![s] = {}] /\ pc' = label /\ UNCHANGED panic
               ELSE panic' = s /\ UNCHANGED <<scoped, pc>>
    BY <1>1, ZenonT(60)
  <1>3. CASE q[1] = "SUCCESS"
    <2>1. DatabaseInv'
      BY <1>2, <1>3, ClosedStep, ZenonT(60)
    <2>2. QED
      BY <1>2, <1>3, <2>1, ZenonT(60) DEF PanicInv
  <1>4. CASE q[1] # "SUCCESS"
    <2>1. q[2] = opens /\ Records(x.hp, x.controller) = {} /\ (x.by = "open_protocol" \/ x.hp \in mixed)
      BY <1>4, PanickedStep, ZenonT(60)
    <2>2. DatabaseInv'
      BY <1>2, <1>4, <2>1 DEF DatabaseInv, Types, Counted, Exclusion, Alone, ExclusiveHeld
    <2>3. scoped[s] = {x}
      BY DEF DatabaseInv, Types
    <2>4. PanicInv'
      BY <1>2, <1>4, <2>1, <2>3 DEF PanicInv, Records, On
    <2>5. QED
      BY <1>2, <1>4, <2>2, <2>4, ZenonT(60)
  <1>5. QED
    BY <1>3, <1>4, ZenonT(60)

\* An open by get_image_file_system
LEMMA ImageOpenStep ==
    ASSUME DatabaseInv, NEW s \in DOMAIN scoped, scoped[s] = {}, NEW hp \in Pairs, NEW next, NEW failed,
           ImageOpen(s, hp, next, failed), UNCHANGED iface
    PROVE  /\ DatabaseInv' /\ DOMAIN scoped' = DOMAIN scoped
           /\ \A t \in DOMAIN scoped : t # s => scoped'[t] = scoped[t]
           /\ \/ pc' = next
              \/ pc' = failed /\ scoped'[s] = {}
  <1>1. PICK o \in open_protocol_exclusive(hp) :
            Opened(s, hp, o) /\ pc' = IF o.scoped # {} THEN next ELSE failed
    BY ZenonT(60) DEF ImageOpen
  <1>2. /\ DatabaseInv' /\ scoped' = [scoped EXCEPT ![s] = o.scoped]
        /\ \A t \in DOMAIN scoped : t # s => scoped'[t] = scoped[t]
    BY <1>1, OpenedStep, ZenonT(60) DEF open_protocol_exclusive
  <1>3. DOMAIN scoped' = DOMAIN scoped /\ scoped'[s] = o.scoped
    BY <1>2, ZenonT(60)
  <1>4. QED
    BY <1>1, <1>2, <1>3, ZenonT(60)

-----------------------------------------------------------------------------
(* find_handles *)

\* The handles with the protocol are finitely many.
LEMMA InstalledFinite == IsFiniteSet(Installed(SimpleFileSystem)) /\ Cardinality(Installed(SimpleFileSystem)) \in Nat
  <1>1. Installed(SimpleFileSystem) \subseteq Handles
    BY DEF Installed
  <1>2. QED
    BY <1>1, FS_Subset, FS_CardinalityType, FiniteAssumption, ZenonT(60)

\* The first call reports BUFFER_TOO_SMALL or NOT_FOUND, never SUCCESS: the
\* panic in find_handles is not reached.
LEMMA FirstLocate ==
    locate_handle(0).status = IF Installed(SimpleFileSystem) = {} THEN "NOT_FOUND" ELSE "BUFFER_TOO_SMALL"
  <1> DEFINE found == Installed(SimpleFileSystem)
  <1>1. found # {} => Cardinality(found) > 0
    <2>1. Cardinality(found) = 0 <=> found = {}
      BY InstalledFinite, FS_EmptySet, ZenonT(60)
    <2>2. QED
      BY <2>1, InstalledFinite
  <1> HIDE DEF found
  <1>2. locate_handle(0) = CASE found = {} -> [status |-> "NOT_FOUND", handles |-> {}]
                             [] found # {} /\ Cardinality(found) > 0 -> [status |-> "BUFFER_TOO_SMALL", handles |-> {}]
                             [] OTHER -> [status |-> "SUCCESS", handles |-> found]
    BY DEF locate_handle, found
  <1>3. QED
    BY <1>1, <1>2 DEF found

\* A step outside find_handles
LEMMA FindQuiet ==
    ASSUME FindInv, pc # "find", pc' # "find", UNCHANGED raced
    PROVE  FindInv'
  BY DEF FindInv

\* A driver that changes an interface during find_handles
LEMMA FindRace ==
    ASSUME FindInv, driver_changes
    PROVE  FindInv'
  <1>1. tpl < CALLBACK /\ UNCHANGED <<pc, num_handles, tpl>>
    BY ZenonT(60) DEF driver_changes, DriverRuns, app, level
  <1>2. CASE pc # "find"
    BY <1>1, <1>2, ZenonT(60) DEF FindInv, driver_changes
  <1>3. CASE pc = "find"
    <2>1. ASSUME ~ raced' PROVE Cardinality(Installed(SimpleFileSystem)') <= num_handles
      <3>1. ~ raced /\ ~ \E h \in Handles : <<h, SimpleFileSystem>> \in Pairs
                             /\ iface[<<h, SimpleFileSystem>>] = NoIface
                             /\ iface'[<<h, SimpleFileSystem>>] # NoIface
        BY <1>3, <2>1, ZenonT(60) DEF driver_changes
      <3>2. Installed(SimpleFileSystem)' \subseteq Installed(SimpleFileSystem)
        BY <3>1 DEF Installed
      <3>3. /\ Cardinality(Installed(SimpleFileSystem)') \in Nat
            /\ Cardinality(Installed(SimpleFileSystem)') <= Cardinality(Installed(SimpleFileSystem))
        BY <3>2, InstalledFinite, FS_Subset, FS_CardinalityType
      <3>4. Cardinality(Installed(SimpleFileSystem)) <= num_handles /\ num_handles \in Nat
        BY <1>3, <3>1, ZenonT(60) DEF FindInv
      <3>5. QED
        BY <3>3, <3>4, InstalledFinite
    <2>2. QED
      BY <1>1, <1>3, <2>1 DEF FindInv
  <1>4. QED
    BY <1>2, <1>3, ZenonT(60)

-----------------------------------------------------------------------------
(* Task priority levels *)

\* raise_tpl: the new guard is the last one.
LEMMA RaiseStep ==
    ASSUME LevelInv, NEW t \in Tpls, raise_tpl(t)
    PROVE  LevelInv'
  <1> DEFINE g == [old_tpl |-> tpl, raised |-> t]
             n == Len(guards)
  <1>1. /\ tpl \in Tpls /\ guards \in Seq(TplGuards) /\ inOrder
        /\ n < MaxGuards /\ tpl' = t /\ guards' = Append(guards, g)
    BY ZenonT(60) DEF LevelInv, raise_tpl
  <1>2. g \in TplGuards /\ g.old_tpl = tpl /\ g.raised = t
    BY <1>1, ZenonT(60) DEF TplGuards
  <1> HIDE DEF g
  <1>3. /\ guards' \in Seq(TplGuards) /\ Len(guards') = n + 1 /\ guards'[n + 1] = g
        /\ \A i \in 1 .. n : guards'[i] = guards[i]
    BY <1>1, <1>2, AppendProperties
  <1>4. n \in Nat /\ MaxGuards \in Nat
    BY <1>1, FiniteAssumption
  <1>5. tpl = Below(guards, n + 1) /\ \A i \in 1 .. n : guards[i].old_tpl = Below(guards, i)
    BY <1>1, ZenonT(60) DEF LevelInv
  <1> HIDE DEF n
  <1>6. \A i \in 1 .. n + 1 : Below(guards', i) = Below(guards, i)
    BY <1>3, <1>4 DEF Below
  <1>7. \A i \in 1 .. n + 1 : guards'[i].old_tpl = Below(guards', i)
    BY <1>2, <1>3, <1>4, <1>5, <1>6
  <1>8. Below(guards', n + 1 + 1) = t
    BY <1>2, <1>3, <1>4 DEF Below
  <1>9. Len(guards') <= MaxGuards
    BY <1>1, <1>3, <1>4
  <1>10. QED
    BY <1>1, <1>3, <1>7, <1>8, <1>9, ZenonT(60) DEF LevelInv

\* The drop of a TplGuard
LEMMA RestoreStep ==
    ASSUME LevelInv, NEW i \in 1 .. Len(guards), drop_tpl_guard(i)
    PROVE  LevelInv'
  <1> DEFINE n == Len(guards)
  <1>1. /\ guards \in Seq(TplGuards) /\ tpl' = guards[i].old_tpl /\ guards' = SubSeq(guards, 1, i - 1) \o SubSeq(guards, i + 1, n)
        /\ inOrder' = (inOrder /\ i = n) /\ n <= MaxGuards
    BY ZenonT(60) DEF LevelInv, drop_tpl_guard, restored
  <1>2. guards[i] \in TplGuards /\ n \in Nat
    BY <1>1
  <1>3. tpl' \in Tpls
    BY <1>1, <1>2, ZenonT(60) DEF TplGuards
  <1>4. /\ guards' \in Seq(TplGuards) /\ Len(guards') = n - 1
        /\ \A k \in 1 .. i - 1 : guards'[k] = guards[k]
    BY <1>1, Removed, ZenonT(60)
  <1>5. inOrder => \A k \in 1 .. n : guards[k].old_tpl = Below(guards, k)
    BY DEF LevelInv
  <1>6. i \in 1 .. n
    OBVIOUS
  <1> HIDE DEF n
  <1>7. Len(guards') <= MaxGuards
    BY <1>1, <1>2, <1>4, FiniteAssumption
  <1>8. ASSUME inOrder'
        PROVE  /\ tpl' = Below(guards', Len(guards') + 1)
               /\ \A k \in 1 .. Len(guards') : guards'[k].old_tpl = Below(guards', k)
    <2>1. inOrder /\ i = n
      BY <1>1, <1>8, ZenonT(60)
    <2>2. \A k \in 1 .. n : Below(guards', k) = Below(guards, k)
      BY <1>2, <1>4, <2>1 DEF Below
    <2>3. tpl' = Below(guards', n - 1 + 1)
      BY <1>1, <1>2, <1>5, <1>6, <2>1, <2>2
    <2>4. \A k \in 1 .. n - 1 : guards'[k].old_tpl = Below(guards', k)
      BY <1>2, <1>4, <1>5, <2>1, <2>2, SMTT(30)
    <2>5. QED
      BY <1>4, <2>3, <2>4
  <1>9. QED
    BY <1>3, <1>4, <1>7, <1>8, ZenonT(60) DEF LevelInv

-----------------------------------------------------------------------------
(* Every step preserves the invariant. *)

\* The locals of get_image_file_system are no slots.
LEMMA Places ==
    ASSUME Types
    PROVE  /\ "loaded_image" \in DOMAIN scoped /\ "device_path" \in DOMAIN scoped
           /\ \A s \in Slots : s \in DOMAIN scoped /\ s # "loaded_image" /\ s # "device_path"
           /\ \A s \in DOMAIN scoped : s # "no" /\ s # "find_handles"
  BY SlotsAssumption, ZenonT(60) DEF Types, Temps

\* open_protocol and open_protocol_exclusive
LEMMA OpenStep ==
    ASSUME IInv, NEW s \in Slots, NEW hp \in Pairs,
           open_exclusive(s, hp) \/ \E c \in Controllers : open_unsafe(s, hp, c)
    PROVE  IInv'
  <1>1. /\ panic = "no" /\ pc = "idle" /\ scoped[s] = {}
        /\ UNCHANGED <<iface, panic, pc, num_handles, level, device, raced>>
    BY ZenonT(60) DEF open_exclusive, open_unsafe, At
  <1>2. Types /\ DatabaseInv /\ LocalsInv /\ FindInv /\ LevelInv
    BY ZenonT(60) DEF IInv, DatabaseInv
  <1>3. s \in DOMAIN scoped /\ s # "loaded_image" /\ s # "device_path"
    BY <1>2, Places, ZenonT(60)
  <1>4. DatabaseInv' /\ \A t \in DOMAIN scoped : t # s => scoped'[t] = scoped[t]
    <2>1. CASE open_exclusive(s, hp)
      <3>1. PICK o \in open_protocol_exclusive(hp) : Opened(s, hp, o)
        BY <2>1, ZenonT(60) DEF open_exclusive
      <3>2. QED
        BY <1>1, <1>2, <1>3, <3>1, OpenedStep, ZenonT(60) DEF open_protocol_exclusive
    <2>2. CASE \E c \in Controllers : open_unsafe(s, hp, c)
      <3>1. PICK c \in Controllers : open_unsafe(s, hp, c)
        BY <2>2, ZenonT(60)
      <3>2. PICK o \in open_protocol(hp, c) : Opened(s, hp, o)
        BY <3>1, ZenonT(60) DEF open_unsafe
      <3>3. QED
        BY <1>1, <1>2, <1>3, <3>2, OpenedStep, ZenonT(60) DEF open_protocol
    <2>3. QED
      BY <2>1, <2>2, ZenonT(60)
  <1>5. LocalsInv'
    BY <1>1, <1>2, <1>3, <1>4, Places, ZenonT(60) DEF LocalsInv
  <1>6. PanicInv' /\ FindInv'
    BY <1>1, <1>2, FindQuiet, ZenonT(60) DEF PanicInv
  <1>7. LevelInv'
    BY <1>1, <1>2, ZenonT(60) DEF LevelInv, level, Below
  <1>8. QED
    BY <1>4, <1>5, <1>6, <1>7, ZenonT(60) DEF IInv

\* The drop of a guard by the application
LEMMA DropScopedStep ==
    ASSUME IInv, NEW s \in Slots, drop_scoped(s)
    PROVE  IInv'
  <1>1. /\ panic = "no" /\ pc = "idle" /\ Drop(s, "idle")
        /\ UNCHANGED <<iface, mixed, num_handles, level, device, raced>>
    BY DEF drop_scoped, At
  <1>2. Types /\ DatabaseInv /\ LocalsInv /\ FindInv /\ LevelInv
    BY ZenonT(60) DEF IInv, DatabaseInv
  <1>3. s \in DOMAIN scoped /\ s # "loaded_image" /\ s # "device_path"
    BY <1>2, Places, ZenonT(60)
  <1>4. /\ DatabaseInv' /\ PanicInv' /\ pc' = "idle"
        /\ \A t \in DOMAIN scoped : t # s => scoped'[t] = scoped[t]
    BY <1>1, <1>2, <1>3, DropStep, ZenonT(60)
  <1>5. LocalsInv'
    BY <1>1, <1>2, <1>3, <1>4, Places, ZenonT(60) DEF LocalsInv
  <1>6. FindInv'
    BY <1>1, <1>2, <1>4, FindQuiet, ZenonT(60)
  <1>7. LevelInv'
    BY <1>1, <1>2, ZenonT(60) DEF LevelInv, level, Below
  <1>8. QED
    BY <1>4, <1>5, <1>6, <1>7, ZenonT(60) DEF IInv

\* A step that touches neither the guards nor the call in progress
LEMMA LocalsKept ==
    ASSUME IInv, panic = "no", UNCHANGED <<scoped, pc, panic, device>>
    PROVE  LocalsInv' /\ PanicInv'
  BY ZenonT(60) DEF IInv, LocalsInv, PanicInv

\* The application or a driver changes an interface.
LEMMA ChangesStep ==
    ASSUME IInv, change_by_app \/ driver_changes
    PROVE  IInv'
  <1>1. panic = "no" /\ Change /\ UNCHANGED <<app, level, device>>
    BY ZenonT(60) DEF change_by_app, driver_changes, At, DriverRuns
  <1>2. DatabaseInv' /\ LocalsInv' /\ PanicInv'
    BY <1>1, ChangeStep, LocalsKept, ZenonT(60) DEF IInv, app
  <1>3. FindInv'
    <2>1. CASE change_by_app
      BY <2>1, FindQuiet, ZenonT(60) DEF change_by_app, At, app, IInv
    <2>2. CASE driver_changes
      BY <2>2, FindRace, ZenonT(60) DEF IInv
    <2>3. QED
      BY <2>1, <2>2, ZenonT(60)
  <1>4. LevelInv'
    BY <1>1, ZenonT(60) DEF IInv, LevelInv, level, Below
  <1>5. QED
    BY <1>2, <1>3, <1>4, ZenonT(60) DEF IInv

\* A driver opens or closes.
LEMMA DriverStep ==
    ASSUME IInv, driver_opens \/ driver_closes
    PROVE  IInv'
  <1>1. panic = "no" /\ UNCHANGED <<iface, app, level, device, raced>>
    BY ZenonT(60) DEF driver_opens, driver_closes, DriverRuns
  <1>2. DatabaseInv'
    <2>1. CASE driver_opens
      <3>1. PICK hp \in Pairs, attr \in {"ByDriver", "Exclusive"} :
                \E q \in fw_open_protocol(Record(hp, Driver, None, attr)) : q[1] = "SUCCESS" /\ opens' = q[2]
        BY <2>1, ZenonT(60) DEF driver_opens
      <3>2. QED
        BY <1>1, <3>1, DriverOpensStep, ZenonT(60) DEF IInv, app
    <2>2. CASE driver_closes
      <3>1. PICK hp \in Pairs : \E q \in fw_close_protocol(hp, Driver, None) : q[1] = "SUCCESS" /\ opens' = q[2]
        BY <2>2, ZenonT(60) DEF driver_closes
      <3>2. QED
        BY <1>1, <3>1, DriverClosesStep, ZenonT(60) DEF IInv, app
    <2>3. QED
      BY <2>1, <2>2
  <1>3. LocalsInv' /\ PanicInv'
    BY <1>1, LocalsKept, ZenonT(60) DEF app
  <1>4. FindInv'
    BY <1>1, ZenonT(60) DEF IInv, FindInv, Installed, app, level
  <1>5. LevelInv'
    BY <1>1, ZenonT(60) DEF IInv, LevelInv, level, Below
  <1>6. QED
    BY <1>2, <1>3, <1>4, <1>5, ZenonT(60) DEF IInv

\* The database is as it was when none of its variables changes.
LEMMA DatabaseKept ==
    ASSUME DatabaseInv, UNCHANGED <<iface, opens, scoped, mixed>>
    PROVE  DatabaseInv'
  BY DEF DatabaseInv, Types, Counted, Exclusion, ExclusiveHeld, Alone

\* Both calls of find_handles
LEMMA FindStep ==
    ASSUME IInv, find_handles \/ find_handles_second
    PROVE  IInv'
  <1>1. panic = "no" /\ UNCHANGED <<iface, opens, scoped, mixed, level, device>>
    BY ZenonT(60) DEF find_handles, find_handles_second, At
  <1>2. DatabaseInv' /\ LevelInv'
    BY <1>1, DatabaseKept, ZenonT(60) DEF IInv, LevelInv, level, Below
  <1>3. CASE find_handles
    <2>1. /\ pc = "idle" /\ UNCHANGED <<panic, raced>>
          /\ \/ pc' = "idle" /\ UNCHANGED num_handles
             \/ pc' = "find" /\ num_handles' = Cardinality(Installed(SimpleFileSystem))
      BY <1>3, FirstLocate, ZenonT(60) DEF find_handles, At
    <2>2. LocalsInv' /\ PanicInv'
      BY <1>1, <2>1, ZenonT(60) DEF IInv, LocalsInv, PanicInv
    <2>3. ~ raced /\ Installed(SimpleFileSystem)' = Installed(SimpleFileSystem)
      BY <1>1, <2>1, ZenonT(60) DEF IInv, FindInv, Installed
    <2>4. FindInv'
      BY <2>1, <2>3, InstalledFinite DEF FindInv
    <2>5. QED
      BY <1>2, <2>2, <2>4, ZenonT(60) DEF IInv
  <1>4. CASE find_handles_second
    <2>1. pc = "find" /\ pc' = "idle" /\ raced' = FALSE /\ panic' = "no"
      BY <1>1, <1>4, ZenonT(60) DEF find_handles_second, At
    <2>2. LocalsInv' /\ PanicInv' /\ FindInv'
      BY <1>1, <2>1, ZenonT(60) DEF IInv, LocalsInv, PanicInv, FindInv
    <2>3. QED
      BY <1>2, <2>2, ZenonT(60) DEF IInv
  <1>5. QED
    BY <1>3, <1>4, ZenonT(60)

\* The opens of get_image_file_system
LEMMA ImageOpensStep ==
    ASSUME IInv, get_image_file_system \/ image_device_path \/ \E s \in Slots : image_open_file_system(s)
    PROVE  IInv'
  <1>1. panic = "no" /\ UNCHANGED <<iface, panic, level, device, raced>>
    BY ZenonT(60) DEF get_image_file_system, image_device_path, image_open_file_system, At
  <1>2. Types /\ DatabaseInv /\ LocalsInv /\ FindInv /\ LevelInv
    BY ZenonT(60) DEF IInv, DatabaseInv
  <1>3. PanicInv' /\ LevelInv'
    BY <1>1, <1>2, ZenonT(60) DEF PanicInv, LevelInv, level, Below
  <1>4. ASSUME get_image_file_system
        PROVE  DatabaseInv' /\ LocalsInv' /\ FindInv'
    <2>1. pc = "idle" /\ ImageOpen("loaded_image", <<ImageHandle, LoadedImage>>, "device", "idle")
      BY <1>4, ZenonT(60) DEF get_image_file_system, At
    <2>2. scoped["loaded_image"] = {} /\ scoped["device_path"] = {}
      BY <1>2, <2>1, ZenonT(60) DEF LocalsInv
    <2>3. /\ DatabaseInv' /\ scoped'["device_path"] = {}
          /\ pc' = "device" \/ (pc' = "idle" /\ scoped'["loaded_image"] = {})
      BY <1>1, <1>2, <2>1, <2>2, Places, ImagePair, ImageOpenStep, ZenonT(60)
    <2>4. LocalsInv' /\ FindInv'
      BY <1>1, <1>2, <2>1, <2>3, FindQuiet, ZenonT(60) DEF LocalsInv
    <2>5. QED
      BY <2>3, <2>4, ZenonT(60)
  <1>5. ASSUME image_device_path
        PROVE  DatabaseInv' /\ LocalsInv' /\ FindInv'
    <2>1. pc = "device" /\ scoped["device_path"] = {}
      BY <1>2, <1>5, ZenonT(60) DEF image_device_path, At, LocalsInv
    <2>2. /\ DatabaseInv'
          /\ pc' = "locate" \/ (pc' = "drop_image" /\ scoped'["device_path"] = {})
      <3>1. CASE device = None
        BY <1>1, <1>2, <1>5, <2>1, <3>1, DatabaseKept DEF image_device_path
      <3>2. CASE device # None
        <4>1. <<device, DevicePath>> \in Pairs
          BY <1>2, <3>2, ZenonT(60) DEF LocalsInv
        <4>2. ImageOpen("device_path", <<device, DevicePath>>, "locate", "drop_image")
          BY <1>5, <3>2, ZenonT(60) DEF image_device_path
        <4>3. QED
          BY <1>1, <1>2, <2>1, <4>1, <4>2, Places, ImageOpenStep, ZenonT(60)
      <3>3. QED
        BY <3>1, <3>2, ZenonT(60)
    <2>3. LocalsInv' /\ FindInv'
      BY <1>1, <1>2, <2>1, <2>2, FindQuiet, ZenonT(60) DEF LocalsInv
    <2>4. QED
      BY <2>2, <2>3, ZenonT(60)
  <1>6. ASSUME NEW s \in Slots, image_open_file_system(s)
        PROVE  DatabaseInv' /\ LocalsInv' /\ FindInv'
    <2>1. pc = "locate" /\ scoped[s] = {}
      BY <1>6, ZenonT(60) DEF image_open_file_system, At
    <2>2. DatabaseInv' /\ pc' = "drop_path"
      <3>1. CASE \E h \in Installed(SimpleFileSystem) : ImageOpen(s, <<h, SimpleFileSystem>>, "drop_path", "drop_path")
        <4>1. PICK h \in Installed(SimpleFileSystem) : ImageOpen(s, <<h, SimpleFileSystem>>, "drop_path", "drop_path")
          BY <3>1, ZenonT(60)
        <4>2. <<h, SimpleFileSystem>> \in Pairs
          BY ZenonT(60) DEF Installed
        <4>3. QED
          BY <1>1, <1>2, <2>1, <4>1, <4>2, Places, ImageOpenStep, ZenonT(60)
      <3>2. CASE pc' = LocateFailsTo /\ UNCHANGED <<opens, scoped, mixed>>
        BY <1>1, <1>2, <3>2, DatabaseKept, ZenonT(60) DEF LocateFailsTo
      <3>3. QED
        BY <1>6, <3>1, <3>2, ZenonT(60) DEF image_open_file_system
    <2>3. LocalsInv' /\ FindInv'
      BY <1>1, <1>2, <2>1, <2>2, FindQuiet, ZenonT(60) DEF LocalsInv
    <2>4. QED
      BY <2>2, <2>3, ZenonT(60)
  <1>7. QED
    BY <1>3, <1>4, <1>5, <1>6, ZenonT(60) DEF IInv

\* The drops on the return from get_image_file_system
LEMMA ImageDropsStep ==
    ASSUME IInv, image_drop_path \/ image_drop_image
    PROVE  IInv'
  <1>1. panic = "no" /\ UNCHANGED <<iface, mixed, level, device, raced>>
    BY DEF image_drop_path, image_drop_image, At
  <1>2. Types /\ DatabaseInv /\ LocalsInv /\ FindInv /\ LevelInv
    BY ZenonT(60) DEF IInv, DatabaseInv
  <1>3. LevelInv'
    BY <1>1, <1>2, ZenonT(60) DEF LevelInv, level, Below
  <1>4. CASE image_drop_path
    <2>1. pc = "drop_path" /\ Drop("device_path", "drop_image")
      BY <1>4, ZenonT(60) DEF image_drop_path, At
    <2>2. /\ DatabaseInv' /\ PanicInv'
          /\ \/ pc' = "drop_image" /\ scoped'["device_path"] = {}
             \/ pc' = "drop_path"
      BY <1>1, <1>2, <2>1, Places, DropStep, ZenonT(60)
    <2>3. LocalsInv' /\ FindInv'
      BY <1>1, <1>2, <2>1, <2>2, FindQuiet, ZenonT(60) DEF LocalsInv
    <2>4. QED
      BY <1>3, <2>2, <2>3, ZenonT(60) DEF IInv
  <1>5. CASE image_drop_image
    <2>1. pc = "drop_image" /\ Drop("loaded_image", "idle") /\ scoped["device_path"] = {}
      BY <1>2, <1>5, ZenonT(60) DEF image_drop_image, At, LocalsInv
    <2>2. /\ DatabaseInv' /\ PanicInv' /\ scoped'["device_path"] = {}
          /\ \/ pc' = "idle" /\ scoped'["loaded_image"] = {}
             \/ pc' = "drop_image"
      BY <1>1, <1>2, <2>1, Places, DropStep, ZenonT(60)
    <2>3. LocalsInv' /\ FindInv'
      BY <1>1, <1>2, <2>1, <2>2, FindQuiet, ZenonT(60) DEF LocalsInv
    <2>4. QED
      BY <1>3, <2>2, <2>3, ZenonT(60) DEF IInv
  <1>6. QED
    BY <1>4, <1>5

\* raise_tpl and the drop of a TplGuard
LEMMA LevelStep ==
    ASSUME IInv, (\E t \in Tpls : raise_tpl(t)) \/ \E i \in 1 .. Len(guards) : drop_tpl_guard(i)
    PROVE  IInv'
  <1>1. panic = "no" /\ pc = "idle" /\ UNCHANGED <<iface, opens, app, device, raced>>
    BY ZenonT(60) DEF raise_tpl, drop_tpl_guard, At
  <1>2. DatabaseInv' /\ LocalsInv' /\ PanicInv' /\ FindInv'
    BY <1>1, DatabaseKept, LocalsKept, FindQuiet DEF IInv, app
  <1>3. LevelInv'
    BY RaiseStep, RestoreStep, ZenonT(60) DEF IInv
  <1>4. QED
    BY <1>2, <1>3, ZenonT(60) DEF IInv

LEMMA InvariantStep == IInv /\ [Next]_vars => IInv'
  <1> SUFFICES ASSUME IInv, [Next]_vars PROVE IInv'
    BY ZenonT(60)
  <1>1. CASE \E s \in Slots : \/ \E hp \in Pairs : open_exclusive(s, hp)
                             \/ \E hp \in Changing, c \in Controllers : open_unsafe(s, hp, c)
    BY <1>1, ImagePair, OpenStep, ZenonT(60)
  <1>2. CASE \E s \in Slots : drop_scoped(s)
    BY <1>2, DropScopedStep, ZenonT(60)
  <1>3. CASE change_by_app \/ driver_changes
    BY <1>3, ChangesStep, ZenonT(60)
  <1>4. CASE driver_opens \/ driver_closes
    BY <1>4, DriverStep, ZenonT(60)
  <1>5. CASE find_handles \/ find_handles_second
    BY <1>5, FindStep
  <1>6. CASE get_image_file_system \/ image_device_path \/ \E s \in Slots : image_open_file_system(s)
    BY <1>6, ImageOpensStep, ZenonT(60)
  <1>7. CASE image_drop_path \/ image_drop_image
    BY <1>7, ImageDropsStep
  <1>8. CASE (\E t \in Tpls : raise_tpl(t)) \/ \E i \in 1 .. Len(guards) : drop_tpl_guard(i)
    BY <1>8, LevelStep, ZenonT(60)
  <1>9. CASE UNCHANGED vars
    <2>1. UNCHANGED <<iface, opens, scoped, mixed>> /\ UNCHANGED <<panic, pc, num_handles, tpl, guards, inOrder, device, raced>>
      BY <1>9, ZenonT(60) DEF vars, app, level
    <2>2. DatabaseInv'
      BY <2>1, DatabaseKept, ZenonT(60) DEF IInv
    <2>3. LocalsInv' /\ PanicInv'
      BY <2>1, ZenonT(60) DEF IInv, LocalsInv, PanicInv, Records, On
    <2>4. FindInv' /\ LevelInv'
      BY <2>1 DEF IInv, FindInv, Installed, LevelInv, Below
    <2>5. QED
      BY <2>2, <2>3, <2>4, ZenonT(60) DEF IInv
  <1>10. QED
    BY <1>1, <1>2, <1>3, <1>4, <1>5, <1>6, <1>7, <1>8, <1>9, ZenonT(60) DEF Next

LEMMA InitialStates == Init => IInv
  <1> SUFFICES ASSUME Init PROVE IInv
    BY ZenonT(60)
  <1>1. IsABag(opens) /\ DOMAIN opens = {}
    BY ZenonT(60) DEF Init, EmptyBag, SetToBag, IsABag
  <1>2. DOMAIN scoped = Slots \cup Temps /\ \A s \in DOMAIN scoped : scoped[s] = {}
    BY ZenonT(60) DEF Init
  <1>3. Types
    <2>1. scoped = [s \in DOMAIN scoped |-> scoped[s]]
      BY ZenonT(60) DEF Init
    <2>2. iface \in [Pairs -> {NoIface, Fixed} \cup Ifaces]
      BY ZenonT(60) DEF Init
    <2>3. QED
      BY <1>1, <1>2, <2>1, <2>2 DEF Types
  <1>4. Counted
    <2> SUFFICES ASSUME NEW hp \in Pairs, NEW c PROVE Total(hp, c, opens) <= Cardinality(GuardsIn(scoped, hp, c))
      BY ZenonT(60) DEF Counted
    <2>1. Total(hp, c, opens) = 0
      BY <1>1 DEF Total, Copies
    <2>2. Cardinality(GuardsIn(scoped, hp, c)) \in Nat
      BY <1>2, PlacesFinite, ZenonT(60) DEF GuardsIn
    <2>3. QED
      BY <2>1, <2>2
  <1>5. Exclusion /\ Alone
    BY <1>2, ZenonT(60) DEF Exclusion, Alone
  <1>6. LocalsInv
    BY <1>2, <1>3, Places, ZenonT(60) DEF LocalsInv, Init
  <1>7. PanicInv /\ FindInv
    BY ZenonT(60) DEF Init, PanicInv, FindInv
  <1>8. LevelInv
    <2>1. guards = <<>> /\ guards \in Seq(TplGuards) /\ Len(guards) = 0 /\ tpl = APPLICATION /\ tpl \in Tpls
      BY DEF Init, Tpls
    <2>2. Len(guards) <= MaxGuards
      BY <2>1, FiniteAssumption
    <2>3. QED
      BY <2>1, <2>2 DEF LevelInv, Below
  <1>9. QED
    BY <1>3, <1>4, <1>5, <1>6, <1>7, <1>8, ZenonT(60) DEF IInv, DatabaseInv

-----------------------------------------------------------------------------
(* The theorems *)

\* The invariant holds in every state, for any handles, protocols and
\* interfaces, any number of guards, and however often drivers run between
\* the calls of boot.rs.
THEOREM Invariance == Spec => []IInv
  BY InitialStates, InvariantStep, PTL DEF Spec

\* While an exclusive guard (open_protocol_exclusive, boot.rs:1117) lives, its
\* interface stays installed and no driver has the pair open; the assertion in
\* the drop of ScopedProtocol (boot.rs:1614) fails for no such guard, and
\* find_handles (boot.rs:968) does not reach its panic.
THEOREM ExclusiveProtectedCorrect == Spec => []ExclusiveProtected
  <1>1. IInv => ExclusiveProtected
    <2> SUFFICES ASSUME IInv PROVE ExclusiveProtected
      OBVIOUS
    <2>1. Types /\ Exclusion /\ PanicInv
      BY ZenonT(60) DEF IInv, DatabaseInv
    <2>2. ASSUME NEW s \in DOMAIN scoped, NEW x \in scoped[s],
                 x.by = "open_protocol_exclusive", x.hp \notin mixed
          PROVE  iface[x.hp] = x.interface /\ \A r \in On(x.hp) : r.agent = App
      <3>1. ExclusiveHeld(x)
        BY <2>1, <2>2, ZenonT(60) DEF Exclusion
      <3>2. QED
        BY <3>1, ZenonT(60) DEF ExclusiveHeld, On, BagToSet
    <2>3. panic # "no" => panic # "find_handles"
      BY <2>1, Places, ZenonT(60) DEF PanicInv
    <2>4. QED
      BY <2>1, <2>2, <2>3, ZenonT(60) DEF ExclusiveProtected, PanicInv
  <1>2. QED
    BY <1>1, Invariance, PTL

\* Between calls the firmware holds no record for the application beyond those
\* of its live ScopedProtocol values (boot.rs:1614): in particular every path
\* through get_image_file_system (boot.rs:1487) closes what it opened.  While
\* TplGuards are dropped last raised first, the level is the one the last of
\* them raised to (boot.rs:1666).
THEOREM GuardsExactCorrect == Spec => []GuardsExact
  <1>1. IInv => GuardsExact
    <2> SUFFICES ASSUME IInv PROVE GuardsExact
      OBVIOUS
    <2>1. Types /\ Counted /\ LocalsInv /\ PanicInv /\ LevelInv
      BY ZenonT(60) DEF IInv, DatabaseInv
    <2>2. TypeOK
      <3>1. ASSUME NEW s \in DOMAIN scoped PROVE Cardinality(scoped[s]) <= 1
        <4>1. \A x, y \in scoped[s] : x = y
          BY <2>1, ZenonT(60) DEF Types
        <4>2. CASE scoped[s] = {}
          BY <4>2, FS_EmptySet
        <4>3. CASE scoped[s] # {}
          <5>1. PICK x \in scoped[s] : TRUE
            BY <4>3, ZenonT(60)
          <5>2. scoped[s] = {x}
            BY <4>1, ZenonT(60)
          <5>3. Cardinality({x}) = 1
            BY FS_Singleton, ZenonT(60)
          <5>4. QED
            BY <5>2, <5>3
        <4>4. QED
          BY <4>2, <4>3, ZenonT(60)
      <3>2. panic \in {"no", "find_handles"} \cup DOMAIN scoped
        BY <2>1, ZenonT(60) DEF PanicInv
      <3>3. QED
        BY <2>1, <3>1, <3>2, ZenonT(60) DEF TypeOK, Types, LocalsInv, LevelInv
    <2>3. ASSUME pc = "idle", NEW hp \in Pairs, NEW c \in Controllers
          PROVE  /\ \A r \in Records(hp, c) : opens[r] <= Cardinality(Guards(hp, c))
                 /\ Guards(hp, c) \subseteq Slots
      <3>1. Guards(hp, c) = GuardsIn(scoped, hp, c)
        BY ZenonT(60) DEF Guards, GuardsIn
      <3>2. ASSUME NEW r \in Records(hp, c) PROVE opens[r] <= Cardinality(Guards(hp, c))
        <4>1. r \in DOMAIN opens /\ r.hp = hp /\ r.agent = App /\ r.controller = c /\ IsRecord(r)
          BY <2>1, ZenonT(60) DEF Records, On, BagToSet, Types
        <4>2. r = Record(hp, App, c, "GetProtocol") \/ r = Record(hp, App, c, "Exclusive")
          BY <4>1, ZenonT(60) DEF IsRecord, Driver, App
        <4>3. \A e : Copies(e, opens) \in Nat
          BY <2>1, CopiesType, ZenonT(60) DEF Types
        <4>4. Copies(r, opens) <= Total(hp, c, opens) /\ Total(hp, c, opens) \in Nat
          BY <4>2, <4>3 DEF Total
        <4>5. Copies(r, opens) = opens[r]
          BY <4>1, ZenonT(60) DEF Copies
        <4>6. Total(hp, c, opens) <= Cardinality(GuardsIn(scoped, hp, c))
          BY <2>1, ZenonT(60) DEF Counted
        <4>7. Cardinality(GuardsIn(scoped, hp, c)) \in Nat
          BY <2>1, PlacesFinite, ZenonT(60) DEF GuardsIn, Types
        <4>8. QED
          BY <3>1, <4>3, <4>4, <4>5, <4>6, <4>7
      <3>3. Guards(hp, c) \subseteq Slots
        BY <2>1, <2>3, ZenonT(60) DEF Guards, Types, LocalsInv, Temps
      <3>4. QED
        BY <3>2, <3>3, ZenonT(60)
    <2>4. inOrder => tpl = IF guards = <<>> THEN APPLICATION ELSE guards[Len(guards)].raised
      <3>1. /\ guards \in Seq(TplGuards) /\ Len(guards) \in Nat
            /\ inOrder => tpl = Below(guards, Len(guards) + 1)
        BY <2>1 DEF LevelInv
      <3>2. guards = <<>> <=> Len(guards) = 0
        BY <3>1, EmptySeq, ZenonT(60)
      <3>3. Below(guards, Len(guards) + 1) = IF guards = <<>> THEN APPLICATION ELSE guards[Len(guards)].raised
        BY <3>1, <3>2 DEF Below
      <3>4. QED
        BY <3>1, <3>3, ZenonT(60)
    <2>5. QED
      BY <2>2, <2>3, <2>4, ZenonT(60) DEF GuardsExact
  <1>2. QED
    BY <1>1, Invariance, PTL

\* The second locate_handle of find_handles (boot.rs:968) returns all handles
\* with the protocol, or its buffer is too small because a handle gained the
\* protocol meanwhile, which happens only below level CALLBACK.
THEOREM FindHandlesExactCorrect == Spec => FindHandlesExact
  <1> DEFINE A == pc = "find" /\ pc' = "idle" =>
                    /\ second_locate.status = "SUCCESS" => second_locate.handles = Installed(SimpleFileSystem)
                    /\ second_locate.status = "BUFFER_TOO_SMALL" => raced /\ tpl < CALLBACK
  <1>1. IInv => A
    <2> SUFFICES ASSUME IInv, pc = "find"
                 PROVE  /\ second_locate.status = "SUCCESS" => second_locate.handles = Installed(SimpleFileSystem)
                        /\ second_locate.status = "BUFFER_TOO_SMALL" => raced /\ tpl < CALLBACK
      BY ZenonT(60)
    <2> DEFINE found == Installed(SimpleFileSystem)
    <2>1. /\ num_handles \in Nat
          /\ raced => tpl < CALLBACK
          /\ ~ raced => Cardinality(found) <= num_handles
      BY ZenonT(60) DEF IInv, FindInv
    <2>2. Cardinality(found) \in Nat
      BY InstalledFinite
    <2> HIDE DEF found
    <2>3. second_locate = CASE found = {} -> [status |-> "NOT_FOUND", handles |-> {}]
                            [] found # {} /\ Cardinality(found) > num_handles ->
                                   [status |-> "BUFFER_TOO_SMALL", handles |-> {}]
                            [] OTHER -> [status |-> "SUCCESS", handles |-> found]
      BY ZenonT(60) DEF second_locate, locate_handle, found
    <2>4. second_locate.status = "SUCCESS" => second_locate.handles = found
      BY <2>3, ZenonT(60)
    <2>5. second_locate.status = "BUFFER_TOO_SMALL" => Cardinality(found) > num_handles
      BY <2>3, ZenonT(60)
    <2>6. QED
      BY <2>1, <2>2, <2>4, <2>5 DEF found
  <1>2. IInv /\ [Next]_vars => [A]_vars
    BY <1>1
  <1>3. QED
    BY <1>2, Invariance, PTL DEF Spec, FindHandlesExact
=============================================================================
