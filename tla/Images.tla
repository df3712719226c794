------------------------------- MODULE Images -------------------------------
(***************************************************************************)
(* Loading and starting images (boot.rs), their options                     *)
(* (proto/loaded_image.rs), the pool buffers an image holds (HandleBuffer,  *)
(* ProtocolsPerHandle), and the test runner's shell_launcher.rs.  Image 1   *)
(* is the launcher, image 2 the shell, image 3 what the shell starts; only  *)
(* the innermost one started executes.                                      *)
(***************************************************************************)
EXTENDS Integers, Sequences, SequencesExt, FiniteSets

CONSTANTS
    PathNodes,      \* kinds of device path nodes; "file" is a file path
    MaxNodes

VARIABLES
    path,       \* the launcher's LoadedImageDevicePath
    img,        \* per image: where it is, what was loaded, its load options
    guards,     \* per image: the pool buffers its values own
    pool,       \* the pool buffers allocated by the firmware
    left,       \* the buffers no value owns any more: exit data, and what an
                \* image that called exit had
    crash       \* why the machine stopped, if it did

imgvars == <<path, img, guards, pool, left, crash>>

Image == 1 .. 3
Kinds == {"handles", "protocols"}
NoImage == [pc |-> "none", content |-> <<>>, asked |-> <<>>, options |-> "null"]

ImagesInit ==
    /\ path \in UNION {[1 .. n -> PathNodes] : n \in 0 .. MaxNodes}
    /\ img = [i \in Image |-> IF i = 1 THEN [NoImage EXCEPT !.pc = "running"] ELSE NoImage]
    /\ guards = [i \in Image |-> {}] /\ pool = {} /\ left = {} /\ crash = "no"

Runs(i) == crash = "no" /\ img[i].pc = "running" /\ \A j \in Image : j > i => img[j].pc # "running"

(***************************************************************************)
(* Buffers allocated by the firmware and freed when their value is dropped. *)
(***************************************************************************)
locate_handle_buffer(i, kind) ==
    /\ Runs(i) /\ <<i, kind>> \notin pool
    /\ guards' = [guards EXCEPT ![i] = @ \union {kind}]
    /\ pool' = pool \union {<<i, kind>>}
    /\ UNCHANGED <<path, img, left, crash>>

Freed(i, kinds) == pool \ ({i} \X kinds)

drop_buffer(i, kind) ==
    /\ Runs(i) /\ kind \in guards[i]
    /\ guards' = [guards EXCEPT ![i] = @ \ {kind}]
    /\ pool' = Freed(i, {kind})
    /\ UNCHANGED <<path, img, left, crash>>

(***************************************************************************)
(* Loading.  The nodes up to the first file path, and the shell's.          *)
(***************************************************************************)
get_shell_app_device_path(p) ==
    LET files == {k \in DOMAIN p : p[k] = "file"} IN
    Append(IF files = {} THEN p ELSE SubSeq(p, 1, (CHOOSE k \in files : \A j \in files : k <= j) - 1), "shell.efi")

\* LoadImageSource, and the pointers passed: a null buffer, or one (an empty
\* one included) that makes the firmware ignore the path as a source.
Sources(i) ==
    IF i = 1 THEN {[from |-> "path", path |-> get_shell_app_device_path(path), buffer |-> <<>>]}
    ELSE {[from |-> "path", path |-> <<"app.efi">>, buffer |-> <<>>]}
         \union [from : {"buffer"}, path : {<<>>, <<"app.efi">>}, buffer : {<<>>, <<"bytes">>}]

to_ffi_params(source) == [path |-> source.path, null |-> source.from = "path", buffer |-> source.buffer]

\* What names the device in a path: the nodes no file path precedes.
DevicePart(p) ==
    SubSeq(p, 1, CHOOSE n \in 0 .. Len(p) : /\ \A k \in 1 .. n : p[k] # "file"
                                            /\ n < Len(p) => p[n + 1] = "file")

load_image(i, source) ==
    LET ffi == to_ffi_params(source)
        content == IF ffi.null THEN ffi.path ELSE ffi.buffer
        wanted == IF source.from = "buffer" THEN source.buffer
                  ELSE IF i = 1 THEN Append(DevicePart(path), "shell.efi") ELSE source.path IN
    /\ Runs(i) /\ i < 3 /\ img[i + 1].pc \in {"none", "over"}
    /\ \/ /\ content # <<>>
          /\ img' = [img EXCEPT ![i + 1] = [NoImage EXCEPT !.pc = "loaded", !.content = content, !.asked = wanted]]
          /\ UNCHANGED crash
       \/ UNCHANGED img /\ crash' = IF i = 1 THEN "refused" ELSE "no"
    /\ UNCHANGED <<path, guards, pool, left>>

unload_image(i) ==
    /\ Runs(i) /\ i = 2 /\ img[3].pc \in {"loaded", "opened"}
    /\ img' = [img EXCEPT ![3] = NoImage]
    /\ UNCHANGED <<path, guards, pool, left, crash>>

\* The launcher opens LoadedImage of the image exclusively and keeps it open.
open_loaded_image(i) ==
    /\ Runs(i) /\ i < 3 /\ img[i + 1].pc = "loaded"
    /\ \/ img' = [img EXCEPT ![i + 1].pc = "opened"] /\ UNCHANGED crash
       \/ UNCHANGED img /\ crash' = IF i = 1 THEN "refused" ELSE "no"
    /\ UNCHANGED <<path, guards, pool, left>>

\* The options are not copied; that they live long enough is left to the caller.
set_load_options(i) ==
    /\ Runs(i) /\ i < 3 /\ img[i + 1].pc = "opened"
    /\ img' = [img EXCEPT ![i + 1].options = "set"]
    /\ UNCHANGED <<path, guards, pool, left, crash>>

start_image(i) ==
    /\ Runs(i) /\ i < 3 /\ img[i + 1].pc = "opened"
    /\ i = 1 => img[i + 1].options # "null"
    /\ \/ img' = [img EXCEPT ![i + 1].pc = "running"] /\ UNCHANGED crash
       \/ UNCHANGED img /\ crash' = IF i = 1 THEN "refused" ELSE "no"
    /\ UNCHANGED <<path, guards, pool, left>>

(***************************************************************************)
(* Ending.  Returning from the entry point drops every value; exit drops    *)
(* none and may hand over exit data, whose pointer start_image discards.    *)
(* The firmware may remove the handle of an image that has ended, and the   *)
(* caller's drop of the open LoadedImage then panics.                       *)
(***************************************************************************)
Ended(i) ==
    [j \in Image |-> IF j = i THEN [img[j] EXCEPT !.pc = "over"]
                     ELSE IF j = i + 1 THEN NoImage
                     ELSE img[j]]

return_success(i) ==
    /\ Runs(i)
    /\ i = 1 => img[2].pc = "over"
    /\ img' = Ended(i)
    /\ guards' = [guards EXCEPT ![i] = {}]
    /\ pool' = Freed(i, guards[i])
    /\ UNCHANGED <<path, left, crash>>

exit(i) ==
    /\ Runs(i) /\ i > 1
    /\ img' = Ended(i)
    /\ \E data \in {{}, {<<i, "exit data">>}} :
        /\ pool' = pool \union data
        /\ left' = left \union data \union ({i} \X guards[i])
    /\ guards' = [guards EXCEPT ![i] = {}]
    /\ UNCHANGED <<path, crash>>

HandleGone(i) ==
    /\ crash = "no" /\ i < 3 /\ img[i + 1].pc = "over" /\ Runs(i)
    /\ crash' = "drop"
    /\ UNCHANGED <<path, img, guards, pool, left>>

ImagesNext ==
    \E i \in Image :
        \/ \E kind \in Kinds : locate_handle_buffer(i, kind) \/ drop_buffer(i, kind)
        \/ \E source \in Sources(i) : load_image(i, source)
        \/ unload_image(i) \/ open_loaded_image(i) \/ set_load_options(i) \/ start_image(i)
        \/ return_success(i) \/ exit(i) \/ HandleGone(i)

ImagesTypeOK ==
    /\ \A i \in Image : img[i].pc \in {"none", "loaded", "opened", "running", "over"}
                        /\ img[i].options \in {"null", "set"}
    /\ guards \in [Image -> SUBSET Kinds] /\ crash \in {"no", "refused", "drop"}

\* An image runs what was asked for: the shell on the device the launcher came
\* from, whatever its own path looks like, or the bytes of the buffer even if a
\* path is given with them.
LoadsWhatWasAsked == \A i \in {2, 3} : img[i].content = img[i].asked

\* Every buffer the firmware allocated is owned by one value of an image that
\* has not ended, or was given up by exit: nothing is leaked or freed twice by
\* the drops, however deep images are nested.
PoolAccounted == pool = UNION {{i} \X guards[i] : i \in Image} \union left
=============================================================================
