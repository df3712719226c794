-------------------------------- MODULE Path --------------------------------
(***************************************************************************)
(* Paths of the file system abstraction: Path, Components, PathBuf and     *)
(* validate_path (uefi/src/fs/path/).                                      *)
(*                                                                         *)
(* What the code says about a path depends on where its separators are, so *)
(* a path is the sequence of its characters, over a small alphabet: the    *)
(* separator, the slash that PathBuf replaces, ordinary characters and one *)
(* character of the deny list.  The terminating null of a CString16 is not *)
(* part of the sequence.                                                   *)
(***************************************************************************)
EXTENDS Integers, Sequences, FiniteSetsExt

SEPARATOR == "\\"
SLASH == "/"
CHARACTER_DENY_LIST == {SEPARATOR, SLASH, "?"}

EmptyPath == << >>
NoPath == << "None" >>   \* no path: "None" is not a character

\* Every PathBuf made from a string holds separators for its slashes.
replace_char(s) == [i \in DOMAIN s |-> IF s[i] = SLASH THEN SEPARATOR ELSE s[i]]

new_from_cstring16(s) == replace_char(s)

-----------------------------------------------------------------------------
(* Components: the iterator and what is built on it. *)

\* Components::next, run to its end.  What is left of the path is one
\* component up to the next separator and the rest behind it; what is behind
\* the last separator is a component too, the empty one included.
rest_components[rest \in Seq(STRING)] ==
    LET seps == {i \in DOMAIN rest : rest[i] = SEPARATOR}
    IN  IF seps = {} THEN << rest >>
        ELSE << SubSeq(rest, 1, Min(seps) - 1) >>
                 \o rest_components[SubSeq(rest, Min(seps) + 1, Len(rest))]

\* "" and the root have none; one leading separator is skipped.
components(path) ==
    IF path \in {EmptyPath, << SEPARATOR >>} THEN << >>
    ELSE rest_components[IF path[1] = SEPARATOR THEN Tail(path) ELSE path]

\* PartialEq for Path
path_eq(p, q) == components(p) = components(q)

\* The closure folded by Path::parent
pushed_component(acc, next) ==
    (IF acc # EmptyPath /\ acc[Len(acc)] # SEPARATOR
     THEN Append(acc, SEPARATOR) ELSE acc) \o next

parent(path) ==
    LET cs == components(path)
        folded[n \in 0 .. Len(cs)] == \* the fold over the first n components
            IF n = 0 THEN EmptyPath ELSE pushed_component(folded[n - 1], cs[n])
    IN  IF \/ cs = << >>
           \/ \A i \in DOMAIN path : path[i] # SEPARATOR
        THEN NoPath
        ELSE new_from_cstring16(folded[Len(cs) - 1])

has_illegal_char(cs, i) == Range(cs[i]) \cap CHARACTER_DENY_LIST # {}

\* The error of the first offending component, in the order of the loop.
validate_path(path) ==
    LET cs == components(path)
        bad == {i \in DOMAIN cs : cs[i] = << >> \/ has_illegal_char(cs, i)}
    IN  CASE path = EmptyPath -> "Empty"
          [] bad = {} /\ path # EmptyPath -> "Ok"
          [] OTHER -> LET i == CHOOSE i \in bad : \A j \in bad : i <= j
                      IN  IF cs[i] = << >> THEN "EmptyComponent" ELSE "IllegalChar"

-----------------------------------------------------------------------------
(* PathBuf *)

\* `needs_sep` looks at as_slice_with_nul().last(), which is the null
\* character and never the separator: a non-empty buffer always gets one.
push(buf, path) ==
    IF path = EmptyPath THEN buf
    ELSE replace_char((IF buf = EmptyPath THEN buf ELSE Append(buf, SEPARATOR)) \o path)
=============================================================================
