------------------------------- MODULE Codecs -------------------------------
(***************************************************************************)
(* Small decoders, each checked against what it should compute: Time from   *)
(* bytes (runtime.rs), language lists of drivers                            *)
(* (proto/driver/component_name.rs), PCI addresses (proto/pci/mod.rs), and  *)
(* the views and the iterator over a memory map (mem/memory_map/).          *)
(***************************************************************************)
EXTENDS Integers, Sequences, SequencesExt, FiniteSetsExt, Functions

CONSTANTS
    MaxLanguages,   \* longest language list, in characters
    ByteBase        \* values of a byte of a PCI address

VARIABLES
    input,      \* what is being decoded
    got         \* what the decoder has returned so far

codecvars == <<input, got>>

(***************************************************************************)
(* Time: raw fields in order with size, boundary values and valid range.    *)
(***************************************************************************)
UNSPECIFIED_TIMEZONE == 2047

TimeFields == <<
    [name |-> "year", size |-> 2, lo |-> 1900, hi |-> 9999],
    [name |-> "month", size |-> 1, lo |-> 1, hi |-> 12],
    [name |-> "day", size |-> 1, lo |-> 1, hi |-> 31],
    [name |-> "hour", size |-> 1, lo |-> 0, hi |-> 23],
    [name |-> "minute", size |-> 1, lo |-> 0, hi |-> 59],
    [name |-> "second", size |-> 1, lo |-> 0, hi |-> 59],
    [name |-> "pad1", size |-> 1, lo |-> 0, hi |-> 0],
    [name |-> "nanosecond", size |-> 4, lo |-> 0, hi |-> 999999999],
    [name |-> "time_zone", size |-> 2, lo |-> -1440, hi |-> 1440],
    [name |-> "daylight", size |-> 1, lo |-> 0, hi |-> 3],
    [name |-> "pad2", size |-> 1, lo |-> 0, hi |-> 0]>>

TIME_SIZE == 16
Read == {"year", "month", "day", "hour", "minute", "second", "nanosecond", "time_zone", "daylight"}
Field(name) == CHOOSE f \in Range(TimeFields) : f.name = name
Boundaries(f) ==
    {f.lo, f.hi, f.hi + 1} \union (IF f.lo > 0 \/ f.name = "time_zone" THEN {f.lo - 1} ELSE {})
    \union (IF f.name = "time_zone" THEN {UNSPECIFIED_TIMEZONE} ELSE {})
Usual == [name \in Read |-> Field(name).lo]

\* The bytes of a raw Time: each is known by its field and its place in it.
TimeBytes == FlattenSeq([k \in DOMAIN TimeFields |-> [b \in 1 .. TimeFields[k].size |-> <<TimeFields[k].name, b>>]])

\* The ranges of bytes try_from reads, 0-based and exclusive at the end.
Ranges == [f \in Read |->
    CASE f = "year" -> <<0, 2>> [] f = "month" -> <<2, 3>> [] f = "day" -> <<3, 4>>
      [] f = "hour" -> <<4, 5>> [] f = "minute" -> <<5, 6>> [] f = "second" -> <<6, 7>>
      [] f = "nanosecond" -> <<8, 12>> [] f = "time_zone" -> <<12, 14>> [] OTHER -> <<14, 15>>]

\* The value read: the field's if the bytes are its bytes, else some other.
Decoded(time, name) ==
    LET bytes == SubSeq(TimeBytes, Ranges[name][1] + 1, Ranges[name][2]) IN
    IF bytes = [b \in 1 .. Field(name).size |-> <<name, b>>] THEN time[name] ELSE -9999

\* time_zone() is None for the unspecified one, which is then not tested.
is_valid(time) ==
    {name \in Read \ {"daylight"} :
        /\ name = "time_zone" => time[name] # UNSPECIFIED_TIMEZONE
        /\ time[name] < Field(name).lo \/ time[name] > Field(name).hi}

time_try_from(time, len) ==
    LET read == [name \in Read |-> Decoded(time, name)] IN
    IF len < TIME_SIZE THEN [status |-> "InvalidSize", errors |-> {}, time |-> Usual]
    ELSE IF read["daylight"] \notin 0 .. 3 THEN [status |-> "InvalidFields", errors |-> {"daylight"}, time |-> Usual]
    ELSE IF is_valid(read) # {} THEN [status |-> "InvalidFields", errors |-> is_valid(read), time |-> Usual]
    ELSE [status |-> "Ok", errors |-> {}, time |-> read]

(***************************************************************************)
(* Language lists: NUL-terminated, three letters each (V1) or separated by  *)
(* semicolons (V2).                                                         *)
(***************************************************************************)
ListChars == {"e", ";", "high"}
Lists == UNION {[1 .. n -> ListChars] : n \in 0 .. MaxLanguages}

LanguageIter_new(list) ==
    LET bad == {k \in DOMAIN list : list[k] = "high"} IN
    IF bad = {} THEN [ok |-> TRUE, index |-> 0] ELSE [ok |-> FALSE, index |-> Min(bad) - 1]

\* One call of next: the language and what is left.
next_V2(list) ==
    LET at == {k \in DOMAIN list : list[k] = ";"} IN
    IF at = {} THEN <<list, <<>>>> ELSE <<SubSeq(list, 1, Min(at) - 1), SubSeq(list, Min(at) + 1, Len(list))>>
next_V1(list) ==
    IF Len(list) <= 3 THEN <<list, <<>>>> ELSE <<SubSeq(list, 1, 3), SubSeq(list, 4, Len(list))>>

(***************************************************************************)
(* PCI addresses: eight bytes, compared as a number.                        *)
(***************************************************************************)
PciIoAddress == [reg : 0 .. ByteBase - 1, fun : 0 .. ByteBase - 1, dev : 0 .. ByteBase - 1,
                 bus : 0 .. ByteBase - 1, ext_reg : 0 .. ByteBase - 1]
PciBytes(a) == <<a.reg, a.fun, a.dev, a.bus, a.ext_reg>>
from_ne_bytes(bytes) == FoldRight(LAMBDA b, acc : b + ByteBase * acc, bytes, 0)
from_u64(n) ==
    LET byte(k) == (n \div ByteBase ^ k) % ByteBase IN
    [reg |-> byte(0), fun |-> byte(1), dev |-> byte(2), bus |-> byte(3), ext_reg |-> byte(4)]
pci_cmp(a, b) == from_ne_bytes(PciBytes(a)) < from_ne_bytes(PciBytes(b))

with_register(a, reg) == [a EXCEPT !.reg = reg, !.ext_reg = 0]
with_extended_register(a, reg) == [a EXCEPT !.reg = 0, !.ext_reg = reg]

(***************************************************************************)
(* Memory map views.  A descriptor takes DESC units of memory; the firmware *)
(* may use a larger stride.                                                 *)
(***************************************************************************)
DESC == 2
Views == [kind : {"ref", "owned"}, aligned : BOOLEAN, len : 0 .. 7, map_size : 0 .. 7, desc_size : 0 .. 3]

TooShort(v) == v.kind = "ref" /\ v.len < v.map_size

\* MemoryMapRef(Mut)::new, or from_initialized_mem after get_memory_map, and
\* entry_count with its assertion.
view_new(v) ==
    IF v.kind = "ref" /\ ~v.aligned THEN "Misaligned"
    ELSE IF TooShort(v) THEN "InvalidSize"
    ELSE IF v.kind = "owned" /\ v.desc_size < DESC THEN "panic"
    ELSE IF v.desc_size = 0 THEN "panic"
    ELSE IF v.map_size % v.desc_size # 0 THEN "panic"
    ELSE "Ok"
entry_count(v) == v.map_size \div v.desc_size

\* The units a get of an index reads, or none.
get(v, index) ==
    IF index >= entry_count(v) THEN {} ELSE (index * v.desc_size) .. (index * v.desc_size + DESC - 1)
size_hint(v, index) == entry_count(v) - index

(***************************************************************************)
(* One decoding per behaviour; iterators take one step per next().          *)
(***************************************************************************)
NotRead == [what |-> "none", list |-> <<>>, langs |-> <<>>, reads |-> <<>>, hints |-> <<>>, done |-> FALSE]

Inputs ==
    {[what |-> "time", time |-> t, len |-> n] :
        t \in UNION {{[Usual EXCEPT ![a] = x, ![b] = y] : x \in Boundaries(Field(a)), y \in Boundaries(Field(b))}
                     : a \in Read, b \in Read},
        n \in {0, 15, 16, 17}}
    \union [what : {"V1", "V2"}, list : Lists]
    \union [what : {"pci"}, a : PciIoAddress, b : PciIoAddress]
    \union {[what |-> "view", view |-> v] : v \in Views}

CodecsInit == input \in Inputs /\ got = NotRead

LanguageNext ==
    /\ input.what \in {"V1", "V2"} /\ ~got.done
    /\ LET list == IF got.what = "none" THEN input.list ELSE got.list
           step == IF input.what = "V1" THEN next_V1(list) ELSE next_V2(list) IN
       got' = IF ~LanguageIter_new(input.list).ok \/ list = <<>>
              THEN [got EXCEPT !.what = "langs", !.list = <<>>, !.done = TRUE]
              ELSE [got EXCEPT !.what = "langs", !.list = step[2], !.langs = Append(@, step[1])]
    /\ UNCHANGED input

ViewNext ==
    /\ input.what = "view" /\ ~got.done
    /\ LET v == input.view
           index == Len(got.reads) IN
       got' = IF view_new(v) # "Ok" \/ get(v, index) = {}
              THEN [got EXCEPT !.what = "views", !.done = TRUE]
              ELSE [got EXCEPT !.what = "views", !.reads = Append(@, get(v, index)),
                               !.hints = Append(@, size_hint(v, index))]
    /\ UNCHANGED input

CodecsNext == LanguageNext \/ ViewNext

CodecsTypeOK == input \in Inputs /\ got.done \in BOOLEAN /\ got.what \in {"none", "langs", "views"}

\* Bytes become a Time exactly if there are enough of them and every field is
\* in range; the fields are those in memory, and the error names the fields at
\* fault (unknown daylight bits hide the others).
TimeExact ==
    input.what = "time" =>
        LET result == time_try_from(input.time, input.len)
            wrong == {n \in Read : (input.time[n] < Field(n).lo \/ input.time[n] > Field(n).hi)
                                   /\ ~(n = "time_zone" /\ input.time[n] = UNSPECIFIED_TIMEZONE)} IN
        /\ result.status = "Ok" <=> input.len >= TIME_SIZE /\ wrong = {}
        /\ result.status = "Ok" => result.time = input.time
        /\ result.status = "InvalidFields" =>
            result.errors = IF "daylight" \in wrong THEN {"daylight"} ELSE wrong

\* The languages are the pieces of the list, in order, none left out or cut:
\* three letters each and a shorter rest, or what the semicolons separate.
\* Only an empty piece at the end of a V2 list is dropped.
LanguagesExact ==
    got.what = "langs" /\ got.done /\ LanguageIter_new(input.list).ok =>
        LET list == input.list
            joined == FlattenSeq([k \in DOMAIN got.langs |->
                          IF k = 1 \/ input.what = "V1" THEN got.langs[k] ELSE <<";">> \o got.langs[k]]) IN
        IF input.what = "V1"
        THEN /\ joined = list
             /\ \A k \in DOMAIN got.langs : Len(got.langs[k]) \in 1 .. 3 /\ (k < Len(got.langs) => Len(got.langs[k]) = 3)
        ELSE /\ joined = list \/ Append(joined, ";") = list
             /\ \A k \in DOMAIN got.langs : ";" \notin Range(got.langs[k])

\* A PCI address survives the conversion to u64 and back, the order is that of
\* extended register, bus, device, function, register, and choosing a register
\* keeps the device and clears the other kind of register.
PciAddressExact ==
    input.what = "pci" =>
        LET key(x) == <<x.ext_reg, x.bus, x.dev, x.fun, x.reg>>
            below(s, t) == \E k \in 1 .. 5 : s[k] < t[k] /\ \A j \in 1 .. k - 1 : s[j] = t[j] IN
        /\ from_u64(from_ne_bytes(PciBytes(input.a))) = input.a
        /\ pci_cmp(input.a, input.b) <=> below(key(input.a), key(input.b))
        /\ with_register(with_extended_register(input.a, input.b.ext_reg), input.a.reg)
           = [input.a EXCEPT !.ext_reg = 0]

\* With the stride the firmware reports, at least a descriptor long, every
\* descriptor the iterator yields lies inside the buffer, the iterator yields
\* each entry once, and size_hint is the number still to come.
ViewInBounds ==
    got.what = "views" /\ input.view.desc_size >= DESC /\ (input.view.kind = "owned" => input.view.len >= input.view.map_size) =>
        /\ \A k \in DOMAIN got.reads : got.reads[k] \subseteq 0 .. input.view.len - 1
        /\ got.done /\ view_new(input.view) = "Ok" =>
            /\ Len(got.reads) * input.view.desc_size = input.view.map_size
            /\ \A k \in DOMAIN got.hints : got.hints[k] = Len(got.reads) - k + 1
=============================================================================
