----------------------------- MODULE FileSystem -----------------------------
(***************************************************************************)
(* The high-level file system abstraction FileSystem (uefi/src/fs/) on top *)
(* of the SimpleFileSystem and File protocols of the firmware.             *)
(*                                                                         *)
(* The volume is a tree: vol maps every location (a list of names) to a    *)
(* node.  Operations that change the volume in several firmware calls are  *)
(* split into one step per such call, so that every state is one a power   *)
(* loss can leave behind; sub-operations with at most one effect on the    *)
(* volume are operators that give the set of their outcomes.  Every call   *)
(* of the firmware may fail; faults records that one of them did so for no *)
(* reason the volume shows.                                                *)
(*                                                                         *)
(* The firmware's side (fw_...) is modelled from how the code uses it.     *)
(* File data are short sequences of units; CHUNK units fit the 1 MiB copy  *)
(* buffer.                                                                 *)
(***************************************************************************)
EXTENDS Path

CONSTANTS
    Locs,       \* bound: the locations of the volume besides the root
    Contents,   \* bound: file contents, initially and as argument of write
    ArgPaths,   \* bound: the paths an application passes
    Ops,        \* the operations the application calls
    CHUNK,      \* units in one copy buffer
    MaxCalls    \* bound: the calls of one behaviour

\* the directory that holds location l
Folder(l) == SubSeq(l, 1, Len(l) - 1)

StartsWith(s, t) == Len(t) <= Len(s) /\ SubSeq(s, 1, Len(t)) = t

Units == UNION {Range(c) : c \in Contents}     \* what files are made of

ASSUME LocsAssumption ==
    \A l \in Locs : l # << >> /\ (Folder(l) \in Locs \/ Folder(l) = << >>)
ASSUME OpsAssumption ==
    Ops \subseteq {"write", "copy", "rename", "create_dir", "create_dir_all",
                   "remove_file", "remove_dir", "remove_dir_all", "try_exists"}
ASSUME ContentsAssumption == Contents \subseteq Seq(Units)
ASSUME CHUNKAssumption == CHUNK \in Nat \ {0}
ASSUME MaxCallsAssumption == MaxCalls \in Nat

VARIABLES
    vol,        \* location -> node
    flushed,    \* files whose data the firmware has been told to flush
    call,       \* the call in progress, or the last one
    pc,         \* next step of that call; "idle" between calls
    src, dest,  \* open file handles of copy and write
    chunk,      \* units read and not yet written, in copy
    remaining,  \* remaining_size, in copy
    dirs,       \* dirs_to_create, first to create first
    stack,      \* pending calls of remove_dir_all, innermost first
    res,        \* result of the last call
    old,        \* the volume when the call began (history)
    faults,     \* did a firmware call of this call fail? (history)
    calls       \* calls so far (bound)

handles == <<src, dest, chunk, remaining>>
control == <<call, old, calls>>
vars == <<vol, flushed, handles, dirs, stack, res, pc, faults, control>>

-----------------------------------------------------------------------------
(* The volume *)

Root == << >>
AllLocs == Locs \cup {Root}
NoNode == [kind |-> "none", data |-> << >>]
Dir == [kind |-> "dir", data |-> << >>]
File(d) == [kind |-> "file", data |-> d]

Exists(v, l) == l \in DOMAIN v /\ v[l].kind # "none"
IsFile(v, l) == l \in DOMAIN v /\ v[l].kind = "file"
IsDir(v, l) == l \in DOMAIN v /\ v[l].kind = "dir"
Children(v, l) == {c \in DOMAIN v : c # Root /\ Folder(c) = l /\ Exists(v, c)}
IsTree(v) == /\ IsDir(v, Root)
             /\ \A l \in Locs : Exists(v, l) => IsDir(v, Folder(l))

Dot == << "." >>
DotDot == << ".", "." >>

\* Where a path leads: "." is the directory itself, ".." the one that holds it.
resolve[cs \in Seq(Seq(STRING))] ==
    IF cs = << >> THEN << >>
    ELSE LET dir == resolve[Folder(cs)]
         IN  CASE cs[Len(cs)] = Dot -> dir
               [] cs[Len(cs)] = DotDot -> Folder(dir)
               [] OTHER -> Append(dir, cs[Len(cs)])

Loc(path) == resolve[components(path)]

\* data written at position pos of a file with contents d
Overwritten(d, pos, new) ==
    SubSeq(d, 1, pos) \o new \o SubSeq(d, pos + Len(new) + 1, Len(d))

NoHandle == [loc |-> Root, pos |-> 0, live |-> FALSE, data |-> << >>]
Frame(path) == [path |-> path, opened |-> FALSE, seen |-> {}]
NoCall == [op |-> "none", path |-> EmptyPath, to |-> EmptyPath, data |-> << >>]

Outcome(st, v) == [st |-> st, vol |-> v]

\* EFI_FILE_PROTOCOL.Open: an existing file is opened whatever its type, a
\* missing one is created if its directory exists and the mode says so.
fw_open(v, l, mode, create_dir) ==
    { Outcome("IoError", v),
      IF Exists(v, l) THEN Outcome("ok", v)
      ELSE IF mode = "CreateReadWrite" /\ l \in Locs /\ IsDir(v, Folder(l))
      THEN Outcome("ok", [v EXCEPT ![l] = IF create_dir THEN Dir ELSE File(<< >>)])
      ELSE Outcome("NotFound", v) }

\* EFI_FILE_PROTOCOL.Delete: refused for a directory with entries and the root
fw_delete(v, l) ==
    { Outcome("IoError", v),
      IF Children(v, l) # {} \/ l = Root THEN Outcome("NotEmpty", v)
      ELSE Outcome("ok", [v EXCEPT ![l] = NoNode]) }

-----------------------------------------------------------------------------
(* Operators for code with at most one effect on the volume *)

\* FileSystem::open: validate_path, open_root and File::open
open(v, path, mode, create_dir) ==
    IF validate_path(path) # "Ok" THEN {Outcome("PathError", v)}
    ELSE fw_open(v, Loc(path), mode, create_dir)

\* FileHandle::into_type, which asks the firmware for the position
into_type(v, l) == { v[l].kind, "Err" }

\* FileSystem::try_exists
try_exists(v, path) ==
    { IF o.st = "ok" THEN "true" ELSE IF o.st = "NotFound" THEN "false" ELSE o.st :
          o \in open(v, path, "Read", FALSE) }

\* remove_file and remove_dir: open, into_type().unwrap(), delete
remove_node(v, path, kind, wrong_kind) ==
    UNION { IF o.st # "ok" THEN {o}
            ELSE UNION { CASE t = "Err" -> {Outcome("panic", v)}
                           [] t = kind -> fw_delete(v, Loc(path))
                           [] OTHER -> {Outcome(wrong_kind, v)} :
                         t \in into_type(v, Loc(path)) } :
            o \in open(v, path, "ReadWrite", FALSE) }

remove_file(v, path) == remove_node(v, path, "file", "NotAFile")

remove_dir(v, path) == remove_node(v, path, "dir", "NotADirectory")

\* FileSystem::create_dir
create_dir(v, path) == open(v, path, "CreateReadWrite", TRUE)

Faulty(st) == st \in {"IoError", "panic"}

-----------------------------------------------------------------------------
Init ==
    /\ vol \in {v \in [AllLocs -> {NoNode, Dir} \cup {File(c) : c \in Contents}] : IsTree(v)}
    /\ flushed = {l \in Locs : IsFile(vol, l)}
    /\ call = NoCall /\ old = vol /\ calls = 0
    /\ pc = "idle" /\ res = "none" /\ faults = FALSE
    /\ src = NoHandle /\ dest = NoHandle /\ chunk = << >> /\ remaining = 0
    /\ dirs = << >> /\ stack = << >>

\* create_dir_all begins with `path.to_path_buf()`; the others take the path
\* as it is.
to_path_buf(op, path) == IF op = "create_dir_all" THEN new_from_cstring16(path) ELSE path

\* The application calls; arguments an operation does not take are empty.
Call(op, path, to, data) ==
    /\ pc = "idle" /\ calls < MaxCalls
    /\ op \in {"copy", "rename"} \/ to = EmptyPath
    /\ op = "write" \/ data = << >>
    /\ call' = [op |-> op, path |-> to_path_buf(op, path), to |-> to, data |-> data]
    /\ old' = vol /\ calls' = calls + 1 /\ faults' = FALSE
    /\ pc' = IF op = "rename" THEN "copy" ELSE op
    /\ dirs' = IF op = "create_dir_all" THEN << to_path_buf(op, path) >> ELSE << >>
    /\ stack' = IF op = "remove_dir_all" THEN << Frame(path) >> ELSE << >>
    /\ UNCHANGED <<vol, flushed, handles, res>>

\* The call returns st; the handles it still holds are dropped, which closes
\* them.  A panic ends the program.
Return(st) ==
    /\ res' = st
    /\ pc' = IF st = "panic" THEN "panicked" ELSE "idle"
    /\ src' = NoHandle /\ dest' = NoHandle /\ chunk' = << >> /\ remaining' = 0
    /\ dirs' = << >> /\ stack' = << >>

Goto(label) == pc' = label /\ UNCHANGED <<handles, dirs, stack, res>>

\* The volume after an outcome; a deleted file has nothing left to flush.
Apply(o) ==
    /\ vol' = o.vol
    /\ flushed' = {l \in flushed : IsFile(o.vol, l)}
    /\ faults' = (faults \/ Faulty(o.st))

SameVolume(st) ==
    /\ UNCHANGED <<vol, flushed>>
    /\ faults' = (faults \/ Faulty(st))

-----------------------------------------------------------------------------
(* try_exists, create_dir, remove_file, remove_dir *)

try_exists_call ==
    /\ pc = "try_exists"
    /\ \E st \in try_exists(vol, call.path) : SameVolume(st) /\ Return(st)
    /\ UNCHANGED control

OneStep(op, outcomes) ==
    /\ pc = op
    /\ \E o \in outcomes : Apply(o) /\ Return(o.st)
    /\ UNCHANGED control

create_dir_call == OneStep("create_dir", create_dir(vol, call.path))
remove_file_call == OneStep("remove_file", remove_file(vol, call.path))
remove_dir_call == OneStep("remove_dir", remove_dir(vol, call.path))

-----------------------------------------------------------------------------
(* write *)

\* EFI_FILE_PROTOCOL.Write at the position of handle h: when it fails, any
\* part of the data may have been written.
fw_write(v, h, data) ==
    LET After(n) == [v EXCEPT ![h.loc].data = Overwritten(@, h.pos, SubSeq(data, 1, n))]
    IN  {Outcome("ok", After(Len(data)))}
        \cup {Outcome("IoError", After(n)) : n \in 0 .. Len(data)}

Written(o) ==
    /\ vol' = o.vol
    /\ flushed' = flushed \ {dest.loc}
    /\ faults' = (faults \/ Faulty(o.st))

Handle(v, l) == [loc |-> l, pos |-> 0, live |-> TRUE, data |-> v[l].data]

\* `if self.try_exists(path)?`
write_exists ==
    /\ pc = "write"
    /\ \E st \in try_exists(vol, call.path) :
          /\ SameVolume(st)
          /\ CASE st = "true" -> Goto("write_remove")
               [] st = "false" -> Goto("write_open")
               [] OTHER -> Return(st)
    /\ UNCHANGED control

\* `self.remove_file(path)?`
write_remove ==
    /\ pc = "write_remove"
    /\ \E o \in remove_file(vol, call.path) :
          /\ Apply(o)
          /\ IF o.st = "ok" THEN Goto("write_open") ELSE Return(o.st)
    /\ UNCHANGED control

\* `open(..).into_regular_file().unwrap()`
write_open ==
    /\ pc = "write_open"
    /\ \E o \in open(vol, call.path, "CreateReadWrite", FALSE) :
          IF o.st # "ok" THEN Apply(o) /\ Return(o.st)
          ELSE \E t \in into_type(o.vol, Loc(call.path)) :
                 IF t = "file"
                 THEN /\ Apply(o)
                      /\ dest' = Handle(o.vol, Loc(call.path))
                      /\ pc' = "write_data"
                      /\ UNCHANGED <<src, chunk, remaining, dirs, stack, res>>
                 ELSE /\ vol' = o.vol /\ UNCHANGED flushed
                      /\ faults' = (faults \/ t = "Err")
                      /\ Return("panic")
    /\ UNCHANGED control

\* `handle.write(content)?`
write_data ==
    /\ pc = "write_data"
    /\ \E o \in fw_write(vol, dest, call.data) :
          /\ Written(o)
          /\ IF o.st = "ok" THEN Goto("flush") ELSE Return(o.st)
    /\ UNCHANGED control

\* copy was called by rename, which removes the source next.
removes_source == call.op = "rename"

\* Mutated form: the flush is left out.
flush_forgotten ==
    /\ pc = "flush"
    /\ UNCHANGED <<vol, flushed, faults>>
    /\ IF removes_source
       THEN /\ pc' = "rename_remove"
            /\ src' = NoHandle /\ dest' = NoHandle
            /\ UNCHANGED <<chunk, remaining, dirs, stack, res>>
       ELSE Return("ok")
    /\ UNCHANGED control

\* Mutated form: rename goes on without the flush.
flush_left_to_write ==
    /\ pc = "flush"
    /\ UNCHANGED vol
    /\ flushed' = IF removes_source THEN flushed ELSE flushed \cup {dest.loc}
    /\ UNCHANGED faults
    /\ IF removes_source
       THEN /\ pc' = "rename_remove"
            /\ src' = NoHandle /\ dest' = NoHandle
            /\ UNCHANGED <<chunk, remaining, dirs, stack, res>>
       ELSE Return("ok")
    /\ UNCHANGED control

\* The flush at the end of write and of copy.  copy drops its handles when
\* it returns to rename.
flush ==
    /\ pc = "flush"
    /\ \E st \in {"ok", "IoError"} :
          /\ UNCHANGED vol
          /\ flushed' = IF st = "ok" THEN flushed \cup {dest.loc} ELSE flushed
          /\ faults' = (faults \/ Faulty(st))
          /\ IF st = "ok" /\ removes_source
             THEN /\ pc' = "rename_remove"
                  /\ src' = NoHandle /\ dest' = NoHandle
                  /\ UNCHANGED <<chunk, remaining, dirs, stack, res>>
             ELSE Return(st)
    /\ UNCHANGED control

-----------------------------------------------------------------------------
(* copy and rename *)

\* Open the source, check its type, get its size.
copy_open_src ==
    /\ pc = "copy"
    /\ \E o \in open(vol, call.path, "Read", FALSE) :
          IF o.st # "ok" THEN SameVolume(o.st) /\ Return(o.st)
          ELSE \E t \in into_type(vol, Loc(call.path)) : \E info \in {"ok", "IoError"} :
                 CASE t = "file" /\ info = "ok" ->
                        /\ SameVolume("ok")
                        /\ src' = Handle(vol, Loc(call.path))
                        /\ remaining' = Len(vol[Loc(call.path)].data)
                        /\ pc' = "copy_remove_dest"
                        /\ UNCHANGED <<dest, chunk, dirs, stack, res>>
                   [] t = "file" /\ info # "ok" -> SameVolume(info) /\ Return(info)
                   [] t = "dir" -> SameVolume("ok") /\ Return("NotAFile")
                   [] t = "Err" -> SameVolume("IoError") /\ Return("NotAFile")
    /\ UNCHANGED control

\* `let _ = self.remove_file(dest_path)`: a failure is ignored.  The source
\* handle is dead when it was opened on the file that is removed.
copy_remove_dest ==
    /\ pc = "copy_remove_dest"
    /\ \E o \in remove_file(vol, call.to) :
          /\ Apply(o)
          /\ IF o.st = "panic" THEN Return("panic")
             ELSE /\ src' = [src EXCEPT !.live = IsFile(o.vol, src.loc)]
                  /\ pc' = "copy_open_dest"
                  /\ UNCHANGED <<dest, chunk, remaining, dirs, stack, res>>
    /\ UNCHANGED control

\* Create or open the destination; a directory is refused here.
copy_open_dest ==
    /\ pc = "copy_open_dest"
    /\ \E o \in open(vol, call.to, "CreateReadWrite", FALSE) :
          IF o.st # "ok" THEN Apply(o) /\ Return(o.st)
          ELSE \E t \in into_type(o.vol, Loc(call.to)) :
                 /\ vol' = o.vol /\ UNCHANGED flushed
                 /\ faults' = (faults \/ t = "Err")
                 /\ IF t = "file"
                    THEN /\ dest' = Handle(o.vol, Loc(call.to))
                         /\ pc' = "copy_read"
                         /\ UNCHANGED <<src, chunk, remaining, dirs, stack, res>>
                    ELSE Return("OpenError")
    /\ UNCHANGED control

\* EFI_FILE_PROTOCOL.Read: the rest of the file, or less of it, up to a full
\* buffer.  A handle whose file has been deleted may still see the old data,
\* may see nothing, or may report an error.
fw_read(h) ==
    LET data == IF h.live THEN vol[h.loc].data ELSE h.data
        avail == SubSeq(data, h.pos + 1, Min({h.pos + CHUNK, Len(data)}))
    IN  {SubSeq(avail, 1, n) : n \in 1 .. Len(avail)}
        \cup (IF h.live /\ avail # << >> THEN {} ELSE {<< >>})

\* Mutated form: the check for a read of zero bytes is missing.
copy_read_zero_unchecked ==
    /\ pc = "copy_read"
    /\ IF remaining = 0 THEN SameVolume("ok") /\ Goto("flush")
       ELSE \E bytes \in fw_read(src) :
              /\ SameVolume("ok")
              /\ chunk' = bytes
              /\ src' = [src EXCEPT !.pos = @ + Len(bytes)]
              /\ pc' = "copy_write"
              /\ UNCHANGED <<dest, remaining, dirs, stack, res>>
    /\ UNCHANGED control

copy_read ==
    /\ pc = "copy_read"
    /\ IF remaining = 0 THEN SameVolume("ok") /\ Goto("flush")
       ELSE \/ /\ UNCHANGED <<vol, flushed>>
               /\ faults' = (faults \/ src.live)
               /\ Return("IoError")
            \/ \E bytes \in fw_read(src) :
                 /\ SameVolume("ok")
                 /\ IF bytes = << >> THEN Return("Aborted")
                    ELSE /\ chunk' = bytes
                         /\ src' = [src EXCEPT !.pos = @ + Len(bytes)]
                         /\ pc' = "copy_write"
                         /\ UNCHANGED <<dest, remaining, dirs, stack, res>>
    /\ UNCHANGED control

left_after(left) == left - Len(chunk)

copy_write ==
    /\ pc = "copy_write"
    /\ \E o \in fw_write(vol, dest, chunk) :
          /\ Written(o)
          /\ IF o.st # "ok" THEN Return(o.st)
             ELSE /\ dest' = [dest EXCEPT !.pos = @ + Len(chunk)]
                  /\ remaining' = left_after(remaining)
                  /\ chunk' = << >>
                  /\ pc' = "copy_read"
                  /\ UNCHANGED <<src, dirs, stack, res>>
    /\ UNCHANGED control

\* `self.remove_file(src_path)`, after copy has returned Ok
rename_remove == OneStep("rename_remove", remove_file(vol, call.path))

-----------------------------------------------------------------------------
(* create_dir_all *)

\* The loop that collects the parents; a new parent goes in front, so the
\* list is the reversed dirs_to_create.
create_dir_all_collect ==
    /\ pc = "create_dir_all"
    /\ IF parent(Head(dirs)) = NoPath
       THEN Goto("create_dir_all_test")
       ELSE /\ dirs' = << parent(Head(dirs)) >> \o dirs
            /\ UNCHANGED <<handles, stack, res, pc>>
    /\ UNCHANGED <<vol, flushed, faults, control>>

create_dir_all_test ==
    /\ pc = "create_dir_all_test"
    /\ IF dirs = << >> THEN SameVolume("ok") /\ Return("ok")
       ELSE \E st \in try_exists(vol, Head(dirs)) :
              /\ SameVolume(st)
              /\ CASE st = "true" -> /\ dirs' = Tail(dirs)
                                     /\ UNCHANGED <<handles, stack, res, pc>>
                   [] st = "false" -> Goto("create_dir_all_create")
                   [] OTHER -> Return(st)
    /\ UNCHANGED control

create_dir_all_create ==
    /\ pc = "create_dir_all_create"
    /\ \E o \in create_dir(vol, Head(dirs)) :
          /\ Apply(o)
          /\ IF o.st # "ok" THEN Return(o.st)
             ELSE /\ dirs' = Tail(dirs)
                  /\ pc' = "create_dir_all_test"
                  /\ UNCHANGED <<handles, stack, res>>
    /\ UNCHANGED control

-----------------------------------------------------------------------------
(* remove_dir_all: one frame per nested call, with the names its directory  *)
(* iterator has delivered.                                                  *)

\* What EFI_FILE_PROTOCOL.Read delivers on a directory, in any order: every
\* entry once, with "." and ".." in all directories but the root.
fw_entries(v, l) ==
    {c[Len(c)] : c \in Children(v, l)} \cup (IF l = Root THEN {} ELSE {Dot, DotDot})

\* Mutated form: ".." is taken for an ordinary entry.
SkipsDotOnly == {Dot}

COMMON_SKIP_DIRS == {Dot, DotDot}

Unseen(f) == fw_entries(vol, Loc(f.path)) \ f.seen

\* `self.read_dir(path)?`; the outer calls pass an error on.
remove_dir_all_open ==
    /\ pc = "remove_dir_all" /\ ~ Head(stack).opened
    /\ \E o \in open(vol, Head(stack).path, "Read", FALSE) :
          IF o.st # "ok" THEN SameVolume(o.st) /\ Return(o.st)
          ELSE \E t \in into_type(vol, Loc(Head(stack).path)) :
                 IF t = "dir"
                 THEN /\ SameVolume("ok")
                      /\ stack' = [stack EXCEPT ![1].opened = TRUE]
                      /\ UNCHANGED <<handles, dirs, res, pc>>
                 ELSE /\ SameVolume(IF t = "Err" THEN "IoError" ELSE "ok")
                      /\ Return("NotADirectory")
    /\ UNCHANGED control

\* An entry that cannot be read is skipped by filter_map(|r| r.ok()), and the
\* iterator is asked again.  read_entry_boxed expects an entry after its first
\* read has failed: it panics when there is none.
remove_dir_all_read_error ==
    /\ pc = "remove_dir_all" /\ Head(stack).opened
    /\ SameVolume("IoError")
    /\ \/ UNCHANGED <<handles, dirs, stack, res, pc>>
       \/ Unseen(Head(stack)) = {} /\ Return("panic")
    /\ UNCHANGED control

abs_entry_path(path, name) == push(push(EmptyPath, path), name)

\* The body of the loop for one entry
remove_dir_all_entry ==
    /\ pc = "remove_dir_all" /\ Head(stack).opened
    /\ \E name \in Unseen(Head(stack)) :
          LET entry == abs_entry_path(Head(stack).path, name)
              next == [stack EXCEPT ![1].seen = @ \cup {name}]
              continue(st) == stack' = st /\ UNCHANGED <<handles, dirs, res, pc>>
          IN  CASE name \in COMMON_SKIP_DIRS ->
                     SameVolume("ok") /\ continue(next)
                [] name \notin COMMON_SKIP_DIRS /\ IsDir(vol, Loc(entry)) ->
                     SameVolume("ok") /\ continue(<< Frame(entry) >> \o next)
                [] OTHER ->
                     \E o \in remove_file(vol, entry) :
                         Apply(o) /\ IF o.st = "ok" THEN continue(next) ELSE Return(o.st)
    /\ UNCHANGED control

\* `self.remove_dir(path)?` when the iterator is exhausted
remove_dir_all_self ==
    /\ pc = "remove_dir_all" /\ Head(stack).opened /\ Unseen(Head(stack)) = {}
    /\ \E o \in remove_dir(vol, Head(stack).path) :
          /\ Apply(o)
          /\ IF o.st = "ok" /\ Len(stack) > 1
             THEN stack' = Tail(stack) /\ UNCHANGED <<handles, dirs, res, pc>>
             ELSE Return(o.st)
    /\ UNCHANGED control

-----------------------------------------------------------------------------
Progress ==
    \/ try_exists_call \/ create_dir_call \/ remove_file_call \/ remove_dir_call
    \/ write_exists \/ write_remove \/ write_open \/ write_data \/ flush
    \/ copy_open_src \/ copy_remove_dest \/ copy_open_dest \/ copy_read \/ copy_write
    \/ rename_remove
    \/ create_dir_all_collect \/ create_dir_all_test \/ create_dir_all_create
    \/ remove_dir_all_open \/ remove_dir_all_entry \/ remove_dir_all_self

Next ==
    \/ \E op \in Ops, path \in ArgPaths, to \in ArgPaths \cup {EmptyPath},
          data \in Contents \cup {<< >>} : Call(op, path, to, data)
    \/ Progress
    \/ remove_dir_all_read_error

Spec == Init /\ [][Next]_vars

\* The code of a call keeps running, and the firmware does not answer every
\* read of a directory entry with an error for ever.
FairSpec == Spec /\ WF_vars(Progress)

-----------------------------------------------------------------------------
Returned == pc = "idle" /\ call.op # "none"
From == Loc(call.path)
To == Loc(call.to)
Copies == call.op \in {"copy", "rename"}

TypeOK ==
    /\ DOMAIN vol = AllLocs /\ IsTree(vol)
    /\ flushed \subseteq {l \in Locs : IsFile(vol, l)}
    /\ \A h \in {src, dest} : h.loc \in AllLocs /\ h.pos \in Nat
    /\ remaining \in Nat /\ faults \in BOOLEAN /\ calls \in 0 .. MaxCalls

\* The locations a call may change
Footprint ==
    CASE Copies /\ ~ IsFile(old, From) -> {}
      [] call.op \in {"write", "create_dir", "remove_file", "remove_dir"} -> {From}
      [] call.op = "copy" -> {To}
      [] call.op = "rename" -> {From, To}
      [] call.op = "create_dir_all" -> {l \in Locs : StartsWith(From, l)}
      [] call.op = "remove_dir_all" -> {l \in Locs : StartsWith(l, From)}
      [] OTHER -> {}

\* No operation, finished or cut off by an error or a power loss anywhere,
\* touches a file or directory it was not asked to (all of fs.rs).  copy and
\* rename of what is not a readable regular file touch nothing: the
\* destination is still there (fs.rs:54, and the test of
\* uefi-test-runner/src/fs/mod.rs:71).
TouchesOnlyItsPaths ==
    /\ TypeOK
    /\ \A l \in AllLocs \ Footprint : vol[l] = old[l]

\* What the result Ok promises.
OkEffect ==
    CASE call.op = "write" -> vol[From] = File(call.data) /\ From \in flushed
      [] Copies /\ From # To ->
             /\ IsFile(vol, To) /\ To \in flushed
             /\ IF faults THEN StartsWith(vol[To].data, old[From].data)
                          ELSE vol[To] = old[From]
             /\ call.op = "rename" => ~ Exists(vol, From)
      [] call.op = "copy" /\ From = To -> vol[To] = old[To]
      [] call.op \in {"create_dir", "create_dir_all"} ->
             IF Exists(old, From) THEN vol = old ELSE vol[From] = Dir
      [] call.op = "remove_file" -> IsFile(old, From) /\ ~ Exists(vol, From)
      [] call.op = "remove_dir" -> IsDir(old, From) /\ ~ Exists(vol, From)
      [] call.op = "remove_dir_all" ->
             IsDir(old, From) /\ \A l \in Locs : StartsWith(l, From) => ~ Exists(vol, l)
      [] OTHER -> TRUE

Valid(path) == validate_path(path) = "Ok"
NoRoomFor(l) == l \notin Locs \/ ~ IsDir(old, Folder(l))

\* A reason in the arguments and the volume for the call to fail
Reason ==
    \/ ~ Valid(call.path)
    \/ call.op = "write" /\ (IsDir(old, From) \/ NoRoomFor(From))
    \/ Copies /\ \/ ~ Valid(call.to) \/ ~ IsFile(old, From)
                 \/ IsDir(old, To) \/ NoRoomFor(To) \/ From = To
    \/ call.op = "create_dir" /\ NoRoomFor(From)
    \/ /\ call.op = "create_dir_all"
       /\ \/ From \notin Locs
          \/ \E l \in Locs : StartsWith(Folder(From), l) /\ IsFile(old, l)
          \/ Len(From) = 1 /\ Head(call.path) = SEPARATOR     \* see CreateDirAllCreates
    \/ call.op = "remove_file" /\ ~ IsFile(old, From)
    \/ call.op = "remove_dir" /\ (~ IsDir(old, From) \/ Children(old, From) # {} \/ From = Root)
    \/ call.op = "remove_dir_all" /\ (~ IsDir(old, From) \/ From = Root)

\* The result of an operation of fs.rs is true.  After Ok the operation has
\* done what its name says, and the data it wrote has been flushed.  While the
\* firmware does what it is asked, an error has a reason in the arguments or
\* the volume, and nothing panics.  Where the documentation promises more than
\* the code does, that promise is a property of its own, with a run that
\* refutes it: RenameKeepsData, CopyOverwrites, CreateDirAllCreates.
ResultTrue ==
    /\ Returned /\ res = "ok" => OkEffect
    /\ Returned /\ ~ faults /\ res \notin {"ok", "true", "false"} => Reason
    /\ pc = "panicked" => faults

\* Data survives a power loss at any step.  rename is a copy and a removal
\* (fs.rs:347): the data is in the source, or complete and flushed in the
\* destination.  write replaces a file by removing it first (fs.rs:362): at no
\* time does the file hold old data behind new.
DataSurvives ==
    /\ call.op = "rename" /\ IsFile(old, From) /\ From # To
           => \/ vol[From] = old[From]
              \/ StartsWith(vol[To].data, old[From].data) /\ To \in flushed
    /\ call.op = "write" /\ vol # old
           => vol[From] = NoNode \/ (IsFile(vol, From) /\ StartsWith(call.data, vol[From].data))

\* Every call returns or panics: the loops of copy, create_dir_all and
\* remove_dir_all end.
CallsReturn == pc # "idle" ~> pc \in {"idle", "panicked"}

\* "Rename a file or directory to a new name" (fs.rs:340): Ok means the data
\* is under the new name.  rename of a file to its own path removes it.
RenameKeepsData ==
    Returned /\ call.op = "rename" /\ res = "ok" => IsFile(vol, To)

\* "Creates the destination file if it doesn't exist and overwrites any
\* content, if it exists" (fs.rs:52): Ok means the destination is the source.
\* copy ignores that the destination could not be removed (fs.rs:88) and then
\* writes over the beginning of a longer file.
CopyOverwrites ==
    Returned /\ call.op = "copy" /\ res = "ok" => vol[To] = old[From]

\* "Recursively create a directory and all of its parent components if they
\* are missing" (fs.rs:155): while the firmware does what it is asked and no
\* regular file is in the way, the directory is there afterwards, and if one
\* is, the call fails.  The parent of "\a" is the empty path, not None as
\* path.rs:49 says, and create_dir_all fails on it.
CreateDirAllCreates ==
    Returned /\ call.op = "create_dir_all" /\ ~ faults /\ Valid(call.path) /\ From \in Locs
        => /\ res = "ok" <=> \A l \in Locs : StartsWith(From, l) => ~ IsFile(old, l)
           /\ res = "ok" => IsDir(vol, From)

-----------------------------------------------------------------------------
\* Small volumes for TLC: two names, directories nested two deep.
MCLocs == { <<<<"a">>>>, <<<<"b">>>>, <<<<"a">>, <<"b">>>>, <<<<"a">>, <<"b">>, <<"a">>>> }

\* contents of different lengths, one longer than the copy buffer
MCContents == { << >>, <<"y">>, <<"x", "x", "x">> }

\* relative and absolute spelling, both separators, nested, the root, and a
\* path refused
MCArgPaths == { <<"a">>, <<"b">>, <<"\\", "a">>, <<"a", "\\", "b">>, <<"a", "/", "b">>,
                <<"\\", "a", "\\", "b", "\\", "a">>, <<"\\">>, <<"a", "?">> }

\* a directory in the root, by its absolute path
MCTopLevel == { <<"\\", "a">> }
=============================================================================
