------------------------------ MODULE Variables ------------------------------
(***************************************************************************)
(* The UEFI variable services (uefi/src/runtime.rs): reading a variable    *)
(* into a Box, setting and deleting variables, and the iterator            *)
(* VariableKeys.  Between two firmware calls a driver may change the       *)
(* variables.                                                              *)
(***************************************************************************)
EXTENDS MakeBoxed, Sequences, SequencesExt

CONSTANTS
    Names,          \* variable names
    NameLen,        \* their lengths with the NUL, as a function
    Invalid,        \* names that are no valid UCS-2 strings
    Values,         \* [size, attr]: data and attributes
    NameBuffer,     \* initial length of the name buffer (512)
    MaxChanges      \* changes of the store in one behaviour

ASSUME VariablesAssumption == Invalid \subseteq Names /\ NameLen \in [Names -> Nat]

VARIABLES
    store,      \* the firmware's variables in its order: [name, val]
    keys,       \* the iterator: [cap, name, done], name <<>> at the start
    changes,    \* history: number of changes
    seen,       \* history: values of the variable fetched, or values set, in this call
    touched,    \* history: names changed since the iterator was created
    yielded     \* history: names the iterator has returned, and how it ended

vvars == <<store, keys, changes, seen, touched, yielded>>

NoName == "none"
Absent == [size |-> 0, attr |-> 0]
Present == {store[i].name : i \in 1 .. Len(store)}
Lookup(st, n) == IF \E i \in 1 .. Len(st) : st[i].name = n
                 THEN (CHOOSE e \in Range(st) : e.name = n).val ELSE Absent

Result(status, size, value) == [status |-> status, size |-> size, value |-> value]

\* A bound: all variables have the same value at first.
VarInit ==
    /\ store \in UNION {{[i \in 1 .. Len(p) |-> [name |-> p[i], val |-> v]] : v \in Values} :
                        p \in UNION {{q \in [1 .. n -> Names] : IsInjective(q)} : n \in 0 .. Cardinality(Names)}}
    /\ keys = [cap |-> NameBuffer, name |-> NoName, done |-> TRUE]
    /\ changes = 0 /\ seen = {} /\ touched = {} /\ yielded = <<>>

-----------------------------------------------------------------------------
(* The firmware *)

fw_get_variable(n, len) ==
    LET v == Lookup(store, n) IN
    {Result("DEVICE_ERROR", 0, Absent),
     IF v = Absent THEN Result("NOT_FOUND", 0, Absent)
     ELSE IF v.size > len THEN Result("BUFFER_TOO_SMALL", v.size, Absent)
     ELSE Result("SUCCESS", v.size, v)}

\* The stores a call of SetVariable may leave: a new value stays in its place
\* or moves to the end.
fw_set_variable(n, v) ==
    LET others == SelectSeq(store, LAMBDA e : e.name # n)
        entry == [name |-> n, val |-> v]
    IN  IF v.size = 0 THEN {others}
        ELSE {Append(others, entry)} \union
             (IF n \in Present THEN {[i \in 1 .. Len(store) |-> IF store[i].name = n THEN entry ELSE store[i]]} ELSE {})

\* The name after the given one; a name that is gone is an invalid parameter.
fw_get_next_variable_name(name, cap) ==
    LET at == IF name = NoName THEN 0 ELSE CHOOSE i \in 1 .. Len(store) : store[i].name = name
    IN  {Result("DEVICE_ERROR", 0, NoName),
         IF name # NoName /\ name \notin Present THEN Result("INVALID_PARAMETER", 0, NoName)
         ELSE IF at = Len(store) THEN Result("NOT_FOUND", 0, NoName)
         ELSE IF NameLen[store[at + 1].name] > cap
              THEN Result("BUFFER_TOO_SMALL", NameLen[store[at + 1].name], NoName)
         ELSE Result("SUCCESS", 0, store[at + 1].name)}

-----------------------------------------------------------------------------
(* Operations *)

\* A bound: the application does nothing else while it holds a Box, and holds
\* none while it iterates.
Free == call.pc = "idle" /\ box = NoBox

\* If the variable at which the iterator stands may move, every name counts as
\* changed: the firmware goes on from the new place.
StoreChange(n, st) ==
    /\ changes < MaxChanges
    /\ changes' = changes + 1
    /\ store' = st
    /\ touched' = IF n = keys.name THEN Names ELSE touched \union {n}

\* A driver sets or deletes a variable at any time.
driver_sets(n, v) ==
    /\ \E st \in fw_set_variable(n, v) : StoreChange(n, st)
    /\ seen' = IF call.op \in {n, "next"} THEN seen \union {v} ELSE seen
    /\ UNCHANGED <<keys, yielded, heap, call, box, ret>>

\* set_variable, and delete_variable with empty data
set_variable(n, v) ==
    /\ Free
    /\ \/ /\ v.size = 0 /\ n \notin Present
          /\ ret' = Return("NOT_FOUND", Nothing) /\ UNCHANGED <<store, changes, touched>>
       \/ /\ v.size # 0 \/ n \in Present
          /\ \E st \in fw_set_variable(n, v) : StoreChange(n, st)
          /\ ret' = Return("SUCCESS", Nothing)
       \/ ret' = Return("WRITE_PROTECTED", Nothing) /\ UNCHANGED <<store, changes, touched>>
    /\ UNCHANGED <<keys, seen, yielded, heap, call, box>>

variable_exists(n) ==
    /\ Free
    /\ \E res \in fw_get_variable(n, 0) :
        ret' = CASE res.status = "BUFFER_TOO_SMALL" -> Return("true", n)
                 [] res.status = "NOT_FOUND" -> Return("false", n)
                 [] OTHER -> Return(res.status, n)
    /\ UNCHANGED <<heap, call, box, store, keys, changes, seen, touched, yielded>>

get_variable_boxed(n) ==
    /\ Begin(n) /\ box = NoBox /\ keys.done
    /\ seen' = {Lookup(store, n)}
    /\ UNCHANGED <<store, keys, changes, touched, yielded>>

\* Mutated form: the memory asked for is one byte short of the data.
get_size_short(n) ==
    /\ call.op = n
    /\ \E res \in fw_get_variable(n, 0) : make_boxed([res EXCEPT !.size = @ - 1], 1)
    /\ seen' = IF call'.pc = "fill" THEN seen ELSE {}
    /\ UNCHANGED <<store, keys, changes, touched, yielded>>

\* Mutated form: the memory is aligned as for a structure.
get_size_padded(n) ==
    /\ call.op = n
    /\ \E res \in fw_get_variable(n, 0) : make_boxed(res, 8)
    /\ seen' = IF call'.pc = "fill" THEN seen ELSE {}
    /\ UNCHANGED <<store, keys, changes, touched, yielded>>

get_size(n) ==
    /\ call.op = n
    /\ \E res \in fw_get_variable(n, 0) : make_boxed(res, 1)
    /\ seen' = IF call'.pc = "fill" THEN seen ELSE {}
    /\ UNCHANGED <<store, keys, changes, touched, yielded>>

get_fill(n) ==
    /\ call.op = n
    /\ \E res \in fw_get_variable(n, call.required) : make_boxed_fill(res, 1)
    /\ seen' = {}
    /\ UNCHANGED <<store, keys, changes, touched, yielded>>

variable_keys ==
    /\ Free /\ keys.done
    /\ keys' = [cap |-> NameBuffer, name |-> NoName, done |-> FALSE]
    /\ touched' = {} /\ yielded' = <<>> /\ ret' = Return("none", Nothing)
    /\ UNCHANGED <<store, changes, seen, heap, call, box>>

\* The tail of VariableKeys::next: one of Ok, an invalid name, the end, an error
KeysNext(res, cap) ==
    /\ IF res.status = "SUCCESS"
       THEN /\ keys' = [keys EXCEPT !.name = res.value, !.cap = cap]
            /\ yielded' = Append(yielded, res.value)
            /\ Leave(IF res.value \in Invalid THEN "UNSUPPORTED" ELSE "SUCCESS", Nothing)
       ELSE /\ keys' = [keys EXCEPT !.done = TRUE, !.cap = cap]
            /\ yielded' = Append(yielded, IF res.status = "NOT_FOUND" THEN "end" ELSE "error")
            /\ Leave(res.status, Nothing)
    /\ seen' = {}
    /\ UNCHANGED <<store, changes, touched, heap, box>>

\* Mutated form: a name that does not fit is passed over.
next_skips ==
    /\ call.pc = "idle" /\ ~ keys.done
    /\ \E res \in fw_get_next_variable_name(keys.name, keys.cap) :
        IF res.status = "BUFFER_TOO_SMALL"
        THEN KeysNext(Result("NOT_FOUND", 0, NoName), keys.cap)
        ELSE KeysNext(res, keys.cap)

\* VariableKeys::next up to a second call with a larger buffer
next ==
    /\ call.pc = "idle" /\ ~ keys.done
    /\ \E res \in fw_get_next_variable_name(keys.name, keys.cap) :
        IF res.status = "BUFFER_TOO_SMALL"
        THEN /\ call' = [Idle EXCEPT !.op = "next", !.pc = "resize", !.required = res.size]
             /\ seen' = {}
             /\ UNCHANGED <<heap, box, ret, store, keys, changes, touched, yielded>>
        ELSE KeysNext(res, keys.cap)

next_resized ==
    /\ call.pc = "resize"
    /\ \E res \in fw_get_next_variable_name(keys.name, call.required) : KeysNext(res, call.required)

VarCall ==
    \/ \E n \in Names : get_size(n) \/ get_fill(n)
    \/ next
    \/ next_resized

VarNext ==
    \/ \E n \in Names : \/ get_variable_boxed(n)
                        \/ variable_exists(n)
                        \/ \E v \in Values \union {Absent} : driver_sets(n, v) \/ set_variable(n, v)
    \/ VarCall
    \/ variable_keys
    \/ drop_box /\ UNCHANGED vvars

-----------------------------------------------------------------------------
(* Properties *)

VarTypeOK ==
    /\ IsInjective([i \in 1 .. Len(store) |-> store[i].name])
    /\ \A i \in 1 .. Len(store) : store[i].name \in Names /\ store[i].val \in Values
    /\ keys.cap \in Nat /\ keys.name \in Names \union {NoName}
    /\ call.pc \in {"idle", "size", "fill", "resize"}
    /\ box.ptr \in Blocks \union {0}

\* What a fetch returns is true of the moments of its call.  get_variable_boxed
\* returns a value the variable had during the call, with the attributes of
\* that value; NOT_FOUND means that it was absent at some moment of the call,
\* BUFFER_TOO_SMALL that it grew between the two fetches.  UNSUPPORTED, the
\* answer to a fetch into no memory that succeeds, does not occur.
\* VariableKeys::next grows its buffer once: it too fails with
\* BUFFER_TOO_SMALL only if the variables changed between its two calls, and
\* every failure ends the iteration.
FetchesExact ==
    [][/\ call.op \in Names /\ call' = Idle =>
              /\ ret'.status = "SUCCESS" => ret'.value \in seen \ {Absent}
              /\ ret'.status = "NOT_FOUND" => Absent \in seen
              /\ ret'.status = "BUFFER_TOO_SMALL" => \E v, w \in seen : w # Absent /\ v.size > w.size
              /\ ret'.status # "UNSUPPORTED"
       /\ call.op = "next" /\ call' = Idle /\ ret'.status \notin {"SUCCESS", "UNSUPPORTED"} =>
              keys'.done /\ (ret'.status = "BUFFER_TOO_SMALL" => seen # {})]_<<call, ret, keys>>

\* An iteration of VariableKeys that comes to its end has returned every
\* variable that was there all the time, and each of them once: whatever other
\* variables were set or deleted meanwhile (except the one just returned), and
\* however often the name buffer had to grow.
KeysComplete ==
    yielded # <<>> /\ Last(yielded) = "end" =>
        \A n \in Present \ touched : Cardinality({i \in 1 .. Len(yielded) : yielded[i] = n}) = 1
=============================================================================
