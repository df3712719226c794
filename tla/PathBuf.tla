------------------------------- MODULE PathBuf -------------------------------
(***************************************************************************)
(* The life of one PathBuf: built from a string, extended by push,         *)
(* replaced by its parent, compared with another path.  The operators are  *)
(* in Path.                                                                *)
(***************************************************************************)
EXTENDS Path, SequencesExt

CONSTANTS
    Letters,    \* bound: the ordinary characters of a path
    MaxArg,     \* bound: characters of an argument of new or push
    MaxPath     \* bound: characters of the buffer

ASSUME LettersAssumption == Letters \cap CHARACTER_DENY_LIST = {}
ASSUME LengthAssumption == MaxArg \in Nat /\ MaxPath \in Nat /\ MaxArg <= MaxPath

VARIABLES buf

pathvars == << buf >>

Alphabet == Letters \cup CHARACTER_DENY_LIST
PathArgs == BoundedSeq(Alphabet, MaxArg)

PathInit == buf = EmptyPath

from_string(s) == buf' = new_from_cstring16(s)

push_path(s) == /\ Len(buf) + Len(s) + 1 <= MaxPath
                /\ buf' = push(buf, s)

\* of the buffer, or of a string that was never a PathBuf
take_parent(s) == /\ parent(s) # NoPath
                  /\ buf' = parent(s)

PathNext == \/ \E s \in PathArgs : from_string(s) \/ push_path(s) \/ take_parent(s)
            \/ take_parent(buf)

-----------------------------------------------------------------------------
PathTypeOK == buf \in Seq(Alphabet \ {SLASH}) /\ Len(buf) <= MaxPath

\* Joining strings with separators, the inverse the components must have.
Join(cs) == FoldLeft(LAMBDA acc, c : acc \o << SEPARATOR >> \o c, << >>, cs)

\* Nothing of a path is lost or invented by the iterator Components
\* (path.rs:120): its items contain no separator, and joined with
\* separators they are the path again, up to the one leading separator.
ComponentsSplit ==
    LET cs == components(buf)
    IN  /\ \A i \in DOMAIN cs : SEPARATOR \notin Range(cs[i])
        /\ \/ cs = << >> /\ buf \in {EmptyPath, << SEPARATOR >>}
           \/ cs # << >> /\ Join(cs) \in {buf, << SEPARATOR >> \o buf}

\* The parent of a valid path inside a directory (path.rs:51) is the path of
\* that directory: all components but the last, and a path validate_path
\* (validation.rs:48) accepts.  So the loop of create_dir_all, which asks for
\* parents until there is none, shrinks its path every time and may open all
\* it collects.  What the documentation says of a top-level component is
\* CreateDirAllCreates, in FileSystem.
ParentDropsLast ==
    validate_path(buf) = "Ok" /\ Len(components(buf)) > 1
        => /\ validate_path(parent(buf)) = "Ok"
           /\ components(parent(buf)) = Front(components(buf))

=============================================================================
