------------------------------ MODULE Directory ------------------------------
(***************************************************************************)
(* Reading through a file handle (uefi/src/proto/media/file): directory    *)
(* entries into a Box, a regular file in chunks, and building the info     *)
(* structures.  Between two firmware calls the volume may change.          *)
(***************************************************************************)
EXTENDS MakeBoxed, Sequences, SequencesExt

CONSTANTS
    NameLens,       \* lengths of file names, with the NUL
    MaxEntries,     \* entries of the directory
    MaxFile,        \* length of the regular file
    ChunkSize,      \* what read asks for at a time (1 MiB)
    BufferLens,     \* lengths of the buffers handed to read
    Addresses,      \* addresses and lengths of the storage handed to new
    StorageLens,
    MaxDirChanges   \* changes of the volume in one behaviour

ASSUME DirectoryAssumption == ChunkSize \in Nat \ {0}

VARIABLES
    dir,        \* the entries of the directory: the lengths of their names
    pos,        \* the handle's position: entries returned so far
    listed,     \* history: the entries returned since the last reset
    own,        \* the length of the name of the file of the handle
    dir_raced,  \* history: the volume changed during this call
    dirty,      \* history: the directory changed since the last reset
    file,       \* the length of the file
    reading,    \* read_chunked: [at, remaining, got]
    info,       \* the last info structure asked for, and the answer
    dchanges

dvars == <<dir, pos, listed, own, dir_raced, dirty, file, reading, info, dchanges>>

-----------------------------------------------------------------------------
(* Info structures: fields as <<size, alignment>>, the name last *)

U64 == <<8, 8>>
Time == <<16, 4>>
FileInfo == [fields |-> <<U64, U64, U64, Time, Time, Time, U64>>, name_offset |-> 80, alignment |-> 8]
FileSystemInfo == [fields |-> <<U64, <<1, 1>>, U64, U64, <<4, 4>>>>, name_offset |-> 36, alignment |-> 8]
FileSystemVolumeLabel == [fields |-> <<>>, name_offset |-> 0, alignment |-> 2]
Infos == {FileInfo, FileSystemInfo, FileSystemVolumeLabel}

Char16Size == 2

\* Mutated form: the alignment of the storage is not deducted.
new_impl_unaligned(i, addr, len, name) ==
    LET info_size == round_up_to_alignment(i.alignment, i.name_offset + Char16Size * name)
    IN  IF len < info_size THEN [ok |-> FALSE, at |-> 0, size |-> info_size]
        ELSE [ok |-> TRUE, at |-> addr + offset_up_to_alignment(i.alignment, addr), size |-> info_size]

\* InfoInternal::new_impl in storage of len bytes at addr, for a name of that
\* length: where the structure is and its size, or the size it needs.
new_impl(i, addr, len, name) ==
    LET info_size == round_up_to_alignment(i.alignment, i.name_offset + Char16Size * name)
        offset == offset_up_to_alignment(i.alignment, addr)
    IN  IF offset > len \/ len - offset < info_size
        THEN [ok |-> FALSE, at |-> 0, size |-> info_size]
        ELSE [ok |-> TRUE, at |-> addr + offset, size |-> info_size]

new_info(i, addr, len, name) ==
    /\ call.pc = "idle"
    /\ info' = [info |-> i, addr |-> addr, len |-> len, name |-> name, res |-> new_impl(i, addr, len, name)]
    /\ ret' = Return("none", Nothing)
    /\ UNCHANGED <<heap, call, box, dir, pos, listed, own, dir_raced, dirty, file, reading, dchanges>>

NoInfo == [res |-> [ok |-> FALSE, at |-> 0, size |-> 0]]

\* The size of what from_uefi returns for a name of that length
InfoSize(i, name) == i.name_offset + Char16Size * name

-----------------------------------------------------------------------------
(* The firmware *)

EntryResult(status, size, value) == [status |-> status, size |-> size, value |-> value]

\* Read on a directory handle; a successful read of no bytes is the end.
fw_read_entry(len) ==
    {EntryResult("DEVICE_ERROR", 0, 0),
     IF pos = Len(dir) THEN EntryResult("SUCCESS", 0, 0)
     ELSE IF InfoSize(FileInfo, dir[pos + 1]) > len
          THEN EntryResult("BUFFER_TOO_SMALL", InfoSize(FileInfo, dir[pos + 1]), 0)
          ELSE EntryResult("SUCCESS", InfoSize(FileInfo, dir[pos + 1]), dir[pos + 1])}

IsEnd(res) == res.status = "SUCCESS" /\ res.size = 0

\* What comes after the handle's position is renamed, removed or added.
volume_changes ==
    /\ dchanges < MaxDirChanges /\ dchanges' = dchanges + 1
    /\ \/ /\ pos < Len(dir)
          /\ \/ \E n \in NameLens : dir' = [dir EXCEPT ![pos + 1] = n]
             \/ dir' = RemoveAt(dir, pos + 1)
          /\ UNCHANGED <<file, own>>
       \/ /\ Len(dir) < MaxEntries /\ \E n \in NameLens : dir' = Append(dir, n)
          /\ UNCHANGED <<file, own>>
       \/ file' \in 0 .. MaxFile /\ UNCHANGED <<dir, own>>
       \/ own' \in NameLens /\ UNCHANGED <<dir, file>>
    /\ dir_raced' = TRUE /\ dirty' = TRUE
    /\ UNCHANGED <<heap, call, box, ret, pos, listed, reading, info>>

-----------------------------------------------------------------------------
(* Directory entries *)

DirFree == call.pc = "idle" /\ box = NoBox

read_entry_boxed ==
    /\ DirFree
    /\ call' = [Idle EXCEPT !.op = "read_entry", !.pc = "first"] /\ ret' = Return("none", Nothing)
    /\ dir_raced' = FALSE
    /\ UNCHANGED <<heap, box, dir, pos, listed, own, dirty, file, reading, info, dchanges>>

EndReturns(res) == IsEnd(res)

\* The first read: only the end of the directory is acted on.
entry_first ==
    /\ call.pc = "first"
    /\ \E res \in fw_read_entry(0) :
        IF EndReturns(res) THEN Leave("None", Nothing) ELSE call' = [call EXCEPT !.pc = "size"] /\ UNCHANGED ret
    /\ UNCHANGED <<heap, box, dir, pos, listed, own, dir_raced, dirty, file, reading, info, dchanges>>

Panics == call' = [call EXCEPT !.pc = "panicked"] /\ UNCHANGED <<ret, heap, box>>

\* expect("Should have more entries") in the function that make_boxed calls
entry_size ==
    /\ call.op = "read_entry" /\ call.pc = "size"
    /\ \E res \in fw_read_entry(0) :
        IF IsEnd(res) THEN Panics ELSE make_boxed(res, FileInfo.alignment)
    /\ UNCHANGED dvars

entry_fill ==
    /\ call.op = "read_entry" /\ call.pc = "fill"
    /\ \E res \in fw_read_entry(call.required) :
        /\ IF IsEnd(res) THEN Panics
           ELSE make_boxed_fill(res, FileInfo.alignment)
        /\ IF res.status = "SUCCESS" /\ ~ IsEnd(res)
           THEN pos' = pos + 1 /\ listed' = Append(listed, res.value)
           ELSE UNCHANGED <<pos, listed>>
    /\ UNCHANGED <<dir, own, dir_raced, dirty, file, reading, info, dchanges>>

reset_entry_readout ==
    /\ DirFree
    /\ \/ pos' = 0 /\ listed' = <<>> /\ dirty' = FALSE /\ ret' = Return("none", Nothing)
       \/ UNCHANGED <<pos, listed, dirty>> /\ ret' = Return("DEVICE_ERROR", Nothing)
    /\ UNCHANGED <<heap, call, box, dir, own, dir_raced, file, reading, info, dchanges>>

\* File::get_boxed_info: the two calls of get_info
get_boxed_info ==
    /\ box = NoBox /\ Begin("get_info")
    /\ dir_raced' = FALSE
    /\ UNCHANGED <<dir, pos, listed, own, dirty, file, reading, info, dchanges>>

fw_get_info(len) ==
    {EntryResult("DEVICE_ERROR", 0, 0),
     IF InfoSize(FileInfo, own) > len THEN EntryResult("BUFFER_TOO_SMALL", InfoSize(FileInfo, own), 0)
     ELSE EntryResult("SUCCESS", InfoSize(FileInfo, own), own)}

get_info ==
    /\ call.op = "get_info"
    /\ \/ \E res \in fw_get_info(0) : make_boxed(res, FileInfo.alignment)
       \/ \E res \in fw_get_info(call.required) : make_boxed_fill(res, FileInfo.alignment)
    /\ UNCHANGED dvars

drop_entry == drop_box /\ UNCHANGED dvars

-----------------------------------------------------------------------------
(* RegularFile::read *)

NoRead == [at |-> 0, from |-> 0, remaining |-> 0, got |-> <<>>]

read(at, len) ==
    /\ DirFree
    /\ call' = [Idle EXCEPT !.op = "read", !.pc = "chunk"] /\ ret' = Return("none", Nothing)
    /\ reading' = [at |-> at, from |-> at, remaining |-> len, got |-> <<>>]
    /\ dir_raced' = FALSE
    /\ UNCHANGED <<heap, box, dir, pos, listed, own, dirty, file, info, dchanges>>

\* Mutated form: a full chunk ends the loop.
LastChunk_full(n, requested) == n <= requested

LastChunk(n, requested) == n < requested

\* One round of read_chunked, or its end
read_chunk ==
    /\ call.pc = "chunk"
    /\ LET requested == Min({reading.remaining, ChunkSize})
           n == Min({requested, Max({0, file - reading.at})})
       IN
       \/ /\ reading.remaining = 0
          /\ Leave("SUCCESS", reading.got) /\ reading' = NoRead
       \/ /\ reading.remaining > 0
          /\ LET got == reading.got \o [i \in 1 .. n |-> reading.at + i] IN
             IF LastChunk(n, requested)
             THEN Leave("SUCCESS", got) /\ reading' = NoRead
             ELSE /\ reading' = [reading EXCEPT !.at = @ + n, !.remaining = @ - n, !.got = got]
                  /\ UNCHANGED <<call, ret>>
       \/ reading.remaining > 0 /\ Leave("DEVICE_ERROR", Nothing) /\ reading' = NoRead
    /\ UNCHANGED <<heap, box, dir, pos, listed, own, dir_raced, dirty, file, info, dchanges>>

DirInit ==
    /\ pos = 0 /\ listed = <<>> /\ own = Min(NameLens) /\ dir_raced = FALSE /\ dirty = FALSE
    /\ file = MaxFile /\ reading = NoRead /\ info = NoInfo /\ dchanges = 0

DirNext ==
    \/ volume_changes
    \/ read_entry_boxed \/ entry_first \/ entry_size \/ entry_fill
    \/ reset_entry_readout
    \/ get_boxed_info \/ get_info
    \/ drop_entry

FileNext ==
    \/ volume_changes
    \/ \E at \in 0 .. MaxFile, len \in BufferLens : read(at, len)
    \/ read_chunk

InfoNext ==
    \E i \in Infos, a \in Addresses, l \in StorageLens, n \in NameLens : new_info(i, a, l, n)

-----------------------------------------------------------------------------
(* Properties *)

DirTypeOK ==
    /\ dir \in UNION {[1 .. n -> NameLens] : n \in 0 .. MaxEntries} /\ pos \in 0 .. Len(dir)
    /\ call.pc \in {"idle", "first", "size", "fill", "chunk", "panicked"} /\ own \in NameLens
    /\ file \in 0 .. MaxFile

\* A directory that does not change while it is read is listed completely: the
\* entries come in order, each once, and None only after the last, whichever
\* reads fail in between.
ListingComplete ==
    ~ dirty => /\ listed = SubSeq(dir, 1, pos)
               /\ ret.status = "None" => listed = dir

\* "this is safe, as above, we checked that there are more entries" (dir.rs:78):
\* the expect of read_entry_boxed never fails.  The check above tells apart the
\* end of the directory only; a read that fails there passes for an entry.
MoreEntriesSafe == call.pc # "panicked"

\* read returns consecutive bytes of the file from its position on, and as many
\* as the buffer and the file hold, if the file keeps its length.
ReadContiguous ==
    [][call.op = "read" /\ call' = Idle /\ ret'.status = "SUCCESS" =>
        LET got == ret'.value
            len == Len(reading.got) + reading.remaining
        IN  /\ got = [i \in 1 .. Len(got) |-> reading.from + i]
            /\ ~ dir_raced => Len(got) = Min({len, Max({0, file - reading.from})})]_<<call, reading, ret>>

\* The place of a field of a repr(C) structure
RECURSIVE CEnd(_)
CEnd(fields) == IF fields = <<>> THEN 0
                ELSE round_up_to_alignment(Last(fields)[2], CEnd(Front(fields))) + Last(fields)[1]

\* new builds an aligned structure inside the storage, its name where the
\* compiler puts the last field and its size that of the reference returned;
\* when it refuses, aligned storage of the size it reports is enough.
InfoFits ==
    info # NoInfo =>
        LET i == info.info
            r == info.res
            c == round_up_to_alignment(Char16Size, CEnd(i.fields))
        IN  /\ i.name_offset = c
            /\ r.size = round_up_to_alignment(i.alignment, c + Char16Size * info.name)
            /\ r.ok => r.at % i.alignment = 0 /\ r.at >= info.addr /\ r.at + r.size <= info.addr + info.len
            /\ ~ r.ok => new_impl(i, 0, r.size, info.name).ok
=============================================================================
