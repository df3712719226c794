-------------------------------- MODULE Xtask --------------------------------
(***************************************************************************)
(* Two commands of `cargo xtask` that judge the sources: `check-raw`        *)
(* (xtask/src/check_raw.rs), where the first item of uefi-raw that does not *)
(* suit a C interface ends the check, and `fmt` (xtask/src/main.rs), which  *)
(* also changes the tree.                                                   *)
(***************************************************************************)
EXTENDS Integers, Sequences, FiniteSets, SequencesExt

CONSTANTS
    RustFiles,  \* the files `git ls-files` lists, in that order
    Excluded    \* the ones no header is wanted in

VARIABLES
    checked,    \* the items of the package check-raw has read
    verdict,    \* "none", "Ok", "Err" or the kind of the first error
    exit,       \* of fmt: "none", "Ok" or "Err"
    tree,       \* [headers : file -> number of headers, dirty : what is not formatted, cut : files whose text is lost]
    tools,      \* the formatters that are installed
    fmt         \* [op, before, failed]: the last fmt, the tree before it, and whether a command of it failed

rawvars == <<checked, verdict>>
taskvars == <<exit, tree, tools, fmt>>

-----------------------------------------------------------------------------
(* Types.  A path names a type and may have generic arguments; "ref" stands *)
(* for references, slices, tuples and the other kinds that are refused.     *)

PathOf(args) == [k |-> "path", args |-> args]
PathType == PathOf(<<>>)
RefType == [k |-> "ref"]
PtrTo(t) == [k |-> "ptr", elem |-> t]
ArrayOf(t) == [k |-> "array", elem |-> t]
FnTypes(ts) ==
    [k : {"fn"}, efiapi : BOOLEAN, variadic : BOOLEAN, unsafe : BOOLEAN, inputs : {<<>>} \cup {<<t>> : t \in ts},
     output : {<<>>} \cup {<<t>> : t \in ts}]

Leaves == {PathType, RefType, [k |-> "never"]}
Generic == {PathOf(<<RefType>>), PathOf(<<PathOf(<<RefType>>)>>)}
Shallow == Leaves \cup Generic \cup {PtrTo(t) : t \in Leaves} \cup FnTypes({PathType, RefType})
Types == Shallow \cup {PtrTo(t) : t \in Shallow} \cup {ArrayOf(t) : t \in Shallow}
             \cup FnTypes({PtrTo(RefType)} \cup {f \in FnTypes({}) : ~ f.variadic})

-----------------------------------------------------------------------------
(* The checks: each returns "Ok" or the kind of its first error *)

\* The first error of a sequence of results (the `?` of the code)
FirstOf(results) ==
    LET bad == {i \in DOMAIN results : results[i] # "Ok"}
    IN  IF bad = {} THEN "Ok" ELSE results[CHOOSE i \in bad : \A j \in bad : i <= j]

Map(Op(_), s) == [i \in DOMAIN s |-> Op(s[i])]

RECURSIVE check_type(_)

check_fn_ptr(f) ==
    IF ~ f.efiapi /\ ~ f.variadic THEN "ForbiddenAbi"
    ELSE IF ~ f.unsafe THEN "MissingUnsafe"
    ELSE FirstOf(Map(check_type, f.inputs) \o Map(check_type, f.output))

check_type(ty) ==
    CASE ty.k \in {"array", "ptr"} -> check_type(ty.elem)
      [] ty.k = "fn" -> check_fn_ptr(ty)
      [] ty.k \in {"never", "path"} -> "Ok"
      [] OTHER -> "ForbiddenType"

check_field(field) ==
    IF ~ field.pub THEN "MissingPub"
    ELSE IF field.underscore THEN "UnderscoreField" ELSE check_type(field.ty)

check_fields(fields) == FirstOf(Map(check_field, fields))

ReprRank == [align |-> 1, C |-> 2, packed |-> 3, Rust |-> 4, transparent |-> 5]
ReprOf(a) == a \in DOMAIN ReprRank

\* "align(x)" is an attribute with an argument that is not a number.
parse_attr(a) ==
    CASE a \in {"derive", "doc"} \/ ReprOf(a) -> "Ok"
      [] a = "align(x)" -> "MalformedAttrs"
      [] a = "repr(u8)" -> "UnknownRepr"
      [] OTHER -> "ForbiddenAttr"

parse_attrs(attrs) == FirstOf(Map(parse_attr, attrs))

get_reprs(attrs) == SortSeq(SelectSeq(attrs, ReprOf), LAMBDA a, b : ReprRank[a] < ReprRank[b])

ALLOWED_REPRS == {<<"C">>, <<"C", "packed">>, <<"transparent">>}

check_type_attrs(attrs) ==
    IF parse_attrs(attrs) # "Ok" THEN parse_attrs(attrs)
    ELSE IF get_reprs(attrs) = <<>> THEN "MissingRepr"
    ELSE IF get_reprs(attrs) \in ALLOWED_REPRS THEN "Ok" ELSE "ForbiddenRepr"

\* check_struct and check_union
check_struct(item) ==
    IF ~ item.pub THEN "MissingPub"
    ELSE FirstOf(<<check_fields(item.fields), check_type_attrs(item.attrs)>>)

\* Of macros only bitflags is looked into.
check_macro(item) ==
    IF item.name # "bitflags" THEN "Ok"
    ELSE IF ~ item.parses THEN "MalformedAttrs"
    ELSE IF parse_attrs(item.attrs) # "Ok" THEN parse_attrs(item.attrs)
    ELSE IF get_reprs(item.attrs) = <<"transparent">> THEN "Ok" ELSE "ForbiddenRepr"

check_item(item) ==
    CASE item.kind = "const" -> IF item.pub THEN check_type(item.ty) ELSE "MissingPub"
      [] item.kind \in {"struct", "union"} -> check_struct(item)
      [] item.kind = "macro" -> check_macro(item)
      [] item.kind = "type" -> IF item.pub THEN "Ok" ELSE "MissingPub"
      [] item.kind \in {"impl", "mod", "use"} -> "Ok"
      [] OTHER -> "ForbiddenItemKind"

-----------------------------------------------------------------------------
(* Inputs *)

Attrs == {<<>>, <<"derive">>, <<"align">>, <<"C", "align">>, <<"C", "C">>, <<"packed", "C">>, <<"C", "Rust">>,
          <<"doc", "C">>, <<"transparent">>, <<"repr(u8)">>, <<"C", "align(x)">>, <<"C", "cfg">>, <<"packed">>}

Field(t) == [pub |-> TRUE, underscore |-> FALSE, ty |-> t]
Fields == [pub : BOOLEAN, underscore : BOOLEAN, ty : {PathType, RefType}]

Structs(fields, attrs) ==
    [kind : {"struct", "union"}, pub : {TRUE}, fields : fields, attrs : attrs]

Items ==
    Structs({<<Field(t)>> : t \in Types}, {<<"C">>})
        \cup Structs({<<f, g>> : f \in Fields, g \in Fields}, {<<"C">>, <<"align">>}) \cup Structs({<<>>}, Attrs)
        \cup [kind : {"struct", "union"}, pub : {FALSE}, fields : {<<>>}, attrs : {<<"C">>}]
        \cup [kind : {"macro"}, name : {"bitflags", "newtype_enum"}, parses : BOOLEAN, attrs : Attrs]
        \cup [kind : {"const"}, pub : BOOLEAN, ty : Types]
        \cup [kind : {"type"}, pub : BOOLEAN, ty : {PathType, RefType}]
        \cup [kind : {"impl", "mod", "use", "enum", "fn"}, pub : BOOLEAN]

Few == [kind : {"impl", "enum"}, pub : BOOLEAN] \cup Structs({<<>>}, {<<"C">>, <<"align">>})

FirstFiles == {<<i>> : i \in Items} \cup {<<>>}
MoreFiles == {<<i>> : i \in Few}

-----------------------------------------------------------------------------
(* check-raw *)

RawInit == checked = <<>> /\ verdict = "none"

\* A file that cannot be read or is not Rust, and an item that does not suit,
\* end the walk.
check_file(file) ==
    /\ verdict = "none"
    /\ \/ verdict' = "Err" /\ UNCHANGED checked
       \/ /\ checked' = checked \o file
          /\ LET first == FirstOf(Map(check_item, file)) IN verdict' = IF first = "Ok" THEN "none" ELSE first

\* check_raw: the walk is over, or the directory cannot be read.
walk_ends == verdict = "none" /\ verdict' \in {"Ok", "Err"} /\ UNCHANGED checked

\* Bound: two files with an item
RawNext ==
    \/ \E file \in FirstFiles : checked = <<>> /\ check_file(file)
    \/ \E file \in MoreFiles : Len(checked) = 1 /\ check_file(file)
    \/ walk_ends

-----------------------------------------------------------------------------
(* Formatting *)

Wanted == SelectSeq(RustFiles, LAMBDA f : f \notin Excluded)
Missing(t) == {f \in Range(Wanted) : t.headers[f] = 0}

\* The headers the first n of the files lack are added.
AddHeaders(t, n) ==
    [t EXCEPT !.headers = [f \in DOMAIN @ |-> IF f \in Range(SubSeq(Wanted, 1, n)) /\ @[f] = 0 THEN 1 ELSE @[f]]]

\* A write that fails may leave the file cut, with or without the header.
CutFile(t, f, n) == [t EXCEPT !.headers[f] = n, !.cut = @ \cup {f}]

\* format_file_headers: the tree and whether it succeeded.  A file that cannot be
\* read or written ends it with the files before it done.
format_file_headers(check) ==
    IF check THEN {[tree |-> tree, ok |-> Missing(tree) = {}], [tree |-> tree, ok |-> FALSE]}
    ELSE {[tree |-> AddHeaders(tree, Len(Wanted)), ok |-> TRUE]}
             \cup {[tree |-> AddHeaders(tree, n), ok |-> FALSE] : n \in 0 .. Len(Wanted) - 1}
             \cup {[tree |-> CutFile(AddHeaders(tree, n - 1), Wanted[n], h), ok |-> FALSE] :
                       n \in {i \in 1 .. Len(Wanted) : tree.headers[Wanted[i]] = 0}, h \in {0, 1}}

Stages == {"rust"} \cup (IF "yamlfmt" \in tools THEN {"yml"} ELSE {})
              \cup (IF {"find", "nixfmt"} \subseteq tools THEN {"nix"} ELSE {})

\* Mutated form: the result is the one of the last command.
AnyErrors_last(headers, check, failed) == "rust" \in failed

\* A check fails where something is not formatted; a command may fail at any time.
AnyErrors(headers, check, failed) == ~ headers.ok \/ failed # {}

run_fmt_project(check) ==
    /\ \E headers \in format_file_headers(check), broken \in SUBSET Stages :
           LET failed == IF check THEN broken \cup (Stages \cap tree.dirty) ELSE broken
           IN  /\ tree' = IF check THEN tree ELSE [headers.tree EXCEPT !.dirty = @ \ (Stages \ failed)]
               /\ exit' = IF AnyErrors(headers, check, failed) THEN "Err" ELSE "Ok"
               /\ fmt' = [op |-> IF check THEN "check" ELSE "fmt", before |-> tree,
                          failed |-> broken # {} \/ (~ headers.ok /\ (check => Missing(tree) = {}))]
    /\ UNCHANGED tools

\* Somebody edits the files.
edit ==
    /\ fmt.op # "none"
    /\ \/ \E f \in Range(RustFiles) : tree' = [tree EXCEPT !.headers[f] = 0, !.cut = @ \ {f}]
       \/ \E s \in {"rust", "yml", "nix"} : tree' = [tree EXCEPT !.dirty = @ \cup {s}]
    /\ fmt' = [op |-> "none", before |-> tree', failed |-> FALSE] /\ exit' = "none"
    /\ UNCHANGED tools

-----------------------------------------------------------------------------

TaskInit ==
    /\ exit = "none"
    /\ tree \in [headers : [Range(RustFiles) -> {0, 1}], dirty : SUBSET {"rust", "yml", "nix"}, cut : {{}}]
    /\ tools \in {{}, {"yamlfmt"}, {"find", "nixfmt"}, {"nixfmt"}, {"yamlfmt", "find", "nixfmt"}}
    /\ fmt = [op |-> "none", before |-> tree, failed |-> FALSE]

TaskNext == edit \/ \E check \in BOOLEAN : run_fmt_project(check)

-----------------------------------------------------------------------------
(* Properties *)

\* The types a type is made of; with the arguments of paths or without them
RECURSIVE Parts(_, _)
Parts(t, generics) ==
    LET inner == CASE t.k \in {"ptr", "array"} -> {t.elem}
                   [] t.k = "fn" -> Range(t.inputs) \cup Range(t.output)
                   [] t.k = "path" /\ generics -> Range(t.args)
                   [] OTHER -> {}
    IN  {t} \cup UNION {Parts(p, generics) : p \in inner}

TypeSuits(t) ==
    \A p \in Parts(t, FALSE) : p.k # "ref" /\ (p.k = "fn" => p.unsafe /\ (p.efiapi \/ p.variadic))

ReprsSuit(attrs, allowed) ==
    /\ Range(attrs) \subseteq {"derive", "doc"} \cup DOMAIN ReprRank
    /\ {a \in Range(attrs) : ReprOf(a)} \in allowed
    /\ \A i, j \in DOMAIN attrs : ReprOf(attrs[i]) /\ i # j => attrs[i] # attrs[j]

ItemSuits(i) ==
    /\ i.kind \notin {"enum", "fn"}
    /\ i.kind \in {"const", "struct", "union", "type"} => i.pub
    /\ i.kind = "const" => TypeSuits(i.ty)
    /\ i.kind \in {"struct", "union"} =>
           /\ \A f \in Range(i.fields) : f.pub /\ ~ f.underscore /\ TypeSuits(f.ty)
           /\ ReprsSuit(i.attrs, {{"C"}, {"C", "packed"}, {"transparent"}})
    /\ (i.kind = "macro" /\ i.name = "bitflags") => i.parses /\ ReprsSuit(i.attrs, {{"transparent"}})

\* check_item, in which every check ends the ones after it, refuses an item of the
\* files read so far if and only if something of it does not suit: a field or a
\* constant, however deep in pointers, arrays and function types, its visibility,
\* or its attributes.  Of references this says nothing beyond the syntax
\* check_type looks at: see NoReferencePasses.
CheckRawExact == verdict # "Err" => (verdict \in {"none", "Ok"} <=> \A i \in Range(checked) : ItemSuits(i))

ItemTypes(i) ==
    CASE i.kind \in {"const", "type"} -> {i.ty}
      [] i.kind \in {"struct", "union"} -> {f.ty : f \in Range(i.fields)}
      [] OTHER -> {}

\* What the module's documentation says (check_raw.rs:5-7: "raw pointers are used
\* instead of references"): a package that passes has no reference in a field, a
\* constant or an alias.  The arguments of a path and the type an alias stands for
\* are not looked at, so Option<&T> passes.
NoReferencePasses ==
    verdict = "Ok" => \A i \in Range(checked) : \A t \in ItemTypes(i) : RefType \notin Parts(t, TRUE)

\* No sequence of fmt and edits puts a second header into a file, and an excluded
\* file never gets one.
HeadersOnce ==
    /\ \A f \in Range(RustFiles) : tree.headers[f] <= 1
    /\ \A f \in Excluded : fmt.op = "fmt" => tree.headers[f] = fmt.before.headers[f]

\* `fmt --check` changes nothing and succeeds exactly if the headers are there and
\* what the installed formatters look at is formatted; and a `fmt` that reports
\* success leaves a tree that `fmt --check` accepts, with the text of every file.
FmtFaithful ==
    /\ fmt.op = "check" =>
           /\ tree = fmt.before
           /\ ~ fmt.failed => ((exit = "Ok") <=> (Missing(tree) = {} /\ Stages \cap tree.dirty = {}))
           /\ exit = "Ok" => Missing(tree) = {} /\ Stages \cap tree.dirty = {}
    /\ fmt.op = "fmt" => (exit = "Ok" => Missing(tree) = {} /\ Stages \cap tree.dirty = {} /\ tree.cut = fmt.before.cut)
=============================================================================
