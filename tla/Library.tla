------------------------------- MODULE Library -------------------------------
(***************************************************************************)
(* An application that uses one part of the uefi crate:                    *)
(*   - what takes apart, converts or hands over data in memory: strings and *)
(*     paths, the TPM event logs, pass-through requests, PXE structures,    *)
(*     small decoders, buffers lent for one call;                           *)
(*   - what is fetched from the firmware piece by piece: variables, the     *)
(*     entries of a directory, a regular file, info structures;             *)
(*   - the protocol services.                                               *)
(* The parts share no state; `part` is the one in use.                      *)
(***************************************************************************)
EXTENDS PathBuf, Strings, TcgLog, PassThru, Pxe, Codecs, Transfers,
        Variables, Directory, Protocols

VARIABLE part

boxvars == <<heap, call, box, ret>>
readvars == <<pathvars, strvars, tcgvars, ptvars, pxevars, codecvars, xfervars>>
storevars == <<boxvars, vvars, dvars>>
libvars == <<part, readvars, storevars, vars>>

Readers == {"path", "strings", "tcg", "pass-thru", "pxe", "codecs", "transfers"}
Fetchers == {"variables", "directory", "file", "info"}

ReadInit ==
    /\ PathInit /\ StringsInit /\ PxeInit /\ TransfersInit
    /\ TcgInit /\ (part # "tcg" => log.format = 1)
    /\ PassThruInit /\ (part # "pass-thru" => bus = "nvme" /\ attached = CHOOSE t \in Topologies : TRUE)
    /\ IF part = "codecs" THEN CodecsInit ELSE input = [what |-> "V1", list |-> <<>>] /\ got = NotRead

NoVariables ==
    /\ store = <<>> /\ keys = [cap |-> NameBuffer, name |-> NoName, done |-> TRUE]
    /\ changes = 0 /\ seen = {} /\ touched = {} /\ yielded = <<>>

StoreInit ==
    /\ FetchInit /\ DirInit
    /\ IF part = "variables" THEN VarInit ELSE NoVariables
    /\ dir \in IF part = "directory" THEN UNION {[1 .. n -> NameLens] : n \in 0 .. MaxEntries} ELSE {<<>>}

LibraryInit ==
    /\ part \in Readers \union Fetchers \union {"protocols"}
    /\ ReadInit /\ StoreInit
    /\ Init
    /\ part # "protocols" => device = None /\ \A hp \in Pairs : iface[hp] = NoIface <=> hp \in Changing

ReadNext ==
    \/ part = "path" /\ PathNext
       /\ UNCHANGED <<strvars, tcgvars, ptvars, pxevars, codecvars, xfervars>>
    \/ part = "strings" /\ StringsNext
       /\ UNCHANGED <<pathvars, tcgvars, ptvars, pxevars, codecvars, xfervars>>
    \/ part = "tcg" /\ TcgNext
       /\ UNCHANGED <<pathvars, strvars, ptvars, pxevars, codecvars, xfervars>>
    \/ part = "pass-thru" /\ PassThruNext
       /\ UNCHANGED <<pathvars, strvars, tcgvars, pxevars, codecvars, xfervars>>
    \/ part = "pxe" /\ PxeNext
       /\ UNCHANGED <<pathvars, strvars, tcgvars, ptvars, codecvars, xfervars>>
    \/ part = "codecs" /\ CodecsNext
       /\ UNCHANGED <<pathvars, strvars, tcgvars, ptvars, pxevars, xfervars>>
    \/ part = "transfers" /\ TransfersNext
       /\ UNCHANGED <<pathvars, strvars, tcgvars, ptvars, pxevars, codecvars>>

FetchNext ==
    \/ part = "variables" /\ VarNext /\ UNCHANGED dvars
    \/ part = "directory" /\ DirNext /\ UNCHANGED vvars
    \/ part = "file" /\ FileNext /\ UNCHANGED vvars
    \/ part = "info" /\ InfoNext /\ UNCHANGED vvars

LibraryNext ==
    \/ ReadNext /\ UNCHANGED <<part, storevars, vars>>
    \/ FetchNext /\ UNCHANGED <<part, readvars, vars>>
    \/ part = "protocols" /\ Next /\ UNCHANGED <<part, readvars, storevars>>

LibrarySpec == LibraryInit /\ [][LibraryNext]_libvars

-----------------------------------------------------------------------------
\* Every conversion gives what its reference definition says, and refuses the
\* rest: to and from UCS-2 and Latin-1 strings, bytes to a time, PCI addresses
\* to numbers, and the casts between the crate's PXE structures and the raw
\* ones.
ConversionsExact ==
    /\ part = "strings" => CString16Valid /\ U16Conversions /\ StrConversions /\ Cstr8Exact
    /\ part = "codecs" => TimeExact /\ PciAddressExact
    /\ part = "pxe" => CastsAgree

\* Memory is read, written and lent within its bounds, and what the firmware
\* is told of it is true: event logs and events built in a buffer, the buffers
\* of pass-through requests after any sequence of builder calls, the
\* arguments of PXE calls, memory map views, and slices lent for one call.
\* (And the state of every part that reads has its type.)
BuffersExact ==
    part \in Readers =>
        /\ PathTypeOK /\ StringsTypeOK /\ TcgTypeOK /\ PassThruTypeOK
        /\ PxeTypeOK /\ CodecsTypeOK /\ TransfersTypeOK
        /\ LogReadsInBounds /\ BuiltEventsFit
        /\ PacketBuffersLive /\ RequestBuffersOwned
        /\ CallArgumentsMatch
        /\ ViewInBounds
        /\ TransfersInSlice

\* Iterators yield all there is, in order and each item once: path components
\* and the chain of parents, events of a log that grows meanwhile, devices on
\* a bus, PXE directory listings, languages.
IteratorsExact ==
    /\ part = "path" => ComponentsSplit /\ ParentDropsLast
    /\ part = "tcg" => LogSnapshotExact
    /\ part = "pass-thru" => DevicesComplete /\ IterNeverPanics
    /\ part \in Readers => ListingExact /\ LanguagesExact

\* Iterations are complete: VariableKeys over variables that are there all the
\* time, and read_entry over a directory that does not change while it is
\* read.  (And the state of every part that fetches has its type.)
ListingsComplete ==
    /\ part = "variables" => VarTypeOK /\ KeysComplete
    /\ part \in Fetchers \ {"variables"} => DirTypeOK /\ ListingComplete

\* What make_boxed (mem/util.rs) returns owns one block of the heap, and every
\* block has one owner, on all paths through it.  The block is dropped with
\* the layout it was allocated with, unless the variable shrank or the file
\* was renamed between the two fetches: then the layout is the smaller one.
BoxesExact ==
    [][/\ BoxesOwnHeap'
       /\ box = NoBox /\ box' # NoBox =>
              LET unchanged == IF call.op \in Names THEN Cardinality({v.size : v \in seen}) = 1
                                                    ELSE ~ dir_raced
              IN  /\ box'.size <= Block(box'.ptr).size
                  /\ unchanged => box'.size = Block(box'.ptr).size]_boxvars

-----------------------------------------------------------------------------
\* Digest sizes and event log headers for TLC: one header of each defect.
MCDigestSize == [a |-> 2, b |-> 3]
GoodHeader ==
    [pcr_index |-> 0, no_action |-> TRUE, zero_digest |-> TRUE, signature |-> TRUE, vendor |-> 1, len |-> 38]
MCLogHeaders ==
    {GoodHeader, [GoodHeader EXCEPT !.pcr_index = 1], [GoodHeader EXCEPT !.no_action = FALSE],
     [GoodHeader EXCEPT !.signature = FALSE]} \union {[GoodHeader EXCEPT !.len = n] : n \in {27, 36, 37}}

\* Variable names of different lengths and two values for TLC.
MCNameLen == [n \in Names |-> CASE n = "a" -> 1 [] n = "b" -> 2 [] n = "c" -> 3]
MCValues == {[size |-> 1, attr |-> 1], [size |-> 2, attr |-> 2]}
=============================================================================
