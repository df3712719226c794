# A verification of uefi-rs

TLA+ models of the parts of the repository that hold state, make several
firmware calls for one operation, run beside something else, or take data apart
at boundaries; TLC runs that check them on small instances; and TLAPS proofs of
the central safety properties for every instance. `PROJECT.json` lists the
components, the runs, the lines each definition models, the hazards and the
theorems. Paths below are relative to `src/uefi/src/` unless they begin with
`xtask/`, `uefi-raw/` or `uefi-test-runner/`.

## The system

The `uefi` crate is a safe Rust interface to UEFI firmware. One application runs
on one processor. Concurrency comes from event notification functions, which the
firmware runs to completion between two instructions of the application when the
task priority level allows, from drivers that act inside the firmware's calls
and timers, from application processors, and from other machines. `uefi-raw`
holds the C layouts, `uefi-macros` the entry point, `xtask` builds, generates
code and runs the integration tests of `uefi-test-runner` in QEMU.

The firmware itself is outside the repository: the models take it to be any
behaviour consistent with how the code uses it, and let its calls fail.
Operators named `fw_...` are its side.

| Part | Module | What is hard there |
|---|---|---|
| System table, memory map, `exit_boot_services`, logger, panic handler | `BootServices`, in `Memory` | the map changes between reading its key and using it; calls after the services are gone |
| Memory map sort | `MemoryMapSort`, abstractly `ExchangeSort`, in `Memory` | indices that wrap, scans without a bound test, deep recursion |
| Global allocator | `Allocator`, abstractly `BlockStore`, in `Memory` | three paths that must agree, address zero, a callback in the cache lookup |
| File system | `FileSystem` (on `Path`) | every operation is several firmware calls, each may fail; power loss between them |
| Handles, protocols, task priority | `HandleDatabase`, `Protocols`, in `Library` | drivers act between the calls; drops assert success |
| HTTP and IPv4 configuration | `HttpHelper`, `Ip4Config2`, composed in `Network`, in `Services` | tokens the firmware still holds; unbounded polling; a time limit |
| Variables, directories, files, info structures | `MakeBoxed`, `Variables`, `Directory`, in `Library` | a size fetched in one call, used in the next |
| Events and timers, processors, network card, images, graphics, text | `Events`, `Processors`, `Snp`, `Images`, `Gop`, `TextOutput`, in `Services` | callbacks and processors that write to somebody's stack; lost frames; saturating bounds tests |
| Paths, strings, TPM logs, pass-through, PXE, decoders, lent buffers | `Path`, `PathBuf`, `Strings`, `TcgLog`, `PassThru`, `Pxe`, `Codecs`, `Transfers`, in `Library` | boundaries; a log that grows; devices that are unplugged; two descriptions of one layout |
| Test harness, check-raw, fmt, device paths and their generator | `TestHarness`, `Xtask`, `DevicePathNodes`, `DevicePathSpec`, `DevicePath`, in `Tools` | four processes that wait for each other; four generated descriptions of one layout |

`Network` composes components that interact: HTTP runs over the interface that
`ifup` configures and needs its address. `FileSystem` uses `Path`'s operators,
`BootServices` contains the logger, `Variables` and `Directory` both go through
`MakeBoxed`, `Protocols` and `HttpHelper` through `HandleDatabase`, `TestHarness`
runs host, QEMU, test runner, TPM emulator and echo thread together. `Memory`,
`Library`, `Services` and `Tools` put components side by side that share no state
in the code: a variable `part`, chosen in the initial state, says which of them
the application uses, and one run checks them all.

## Modules

**BootServices.** `pc` is the application's place; `MapChange` is the environment
(a driver or a callback that allocates or frees) and may come between any two
steps. A memory descriptor is one unit of length. `systemTable` is `SYSTEM_TABLE`
with the addressing mode it is valid in, `writer` the logger's pointer, `owned`
the `MemoryMapOwned` values. `calls`, `fault` and `changes` are history.

**MemoryMapSort.** One action per comparison or swap; `stack` is the recursion of
`qsort`, `map` the permutation of descriptors in the buffer, `addr` their physical
addresses, and indices wrap at `USIZE_MAX`. The application rewrites entries
between two sorts. `ExchangeSort` is what the owner of the map is promised: entries
are exchanged, a larger address never moves in front of a smaller one, and the
sort returns on a sorted map.

**Allocator.** Memory is an array of eight-byte units; `fw` is the firmware's set
of allocations, placed anywhere they fit, address zero included for pages; `mem`
holds the back pointers `alloc_pool_aligned` writes. The actors are the main
program and a callback that interrupts it and runs to completion. `BlockStore` is
the promise: disjoint, aligned blocks that can be given back.

**Path, PathBuf.** Paths are short sequences of characters: a property tells
separators, the denied characters and letters apart.

**FileSystem.** One firmware effect per step. `vol` maps locations to nodes,
`flushed` holds the files the firmware was told to flush. A directory lists `.`
and `..` besides its entries, and a path that ends in one of them leads where the
firmware takes it (`resolve`). The initial volume is
any tree over `Locs`, so one call per behaviour reaches what a sequence of calls
would. Two handles on one file are modelled, since `copy` and `rename` may name
one file twice.

**HandleDatabase, Protocols.** The firmware's table of interfaces and of who has
them open, and an application with guards (`ScopedProtocol`, `TplGuard`) that it
drops in any order, while a driver opens, closes, installs and uninstalls between
its calls. `find_handles` and `get_image_file_system` are one action per firmware
call.

**HttpHelper, Ip4Config2, Network.** A token lives in the frame of a call;
`pending` are the frames whose token the firmware holds. `helper` is the
`HttpHelper`; the driver may vanish. `ifup` counts its seconds against leases
that come and go.

**MakeBoxed, Variables, Directory.** `heap` has the blocks with their
layouts, `call` the fetch under way with the size its first call was told; a
driver changes the store or the volume between the two. `VariableKeys`,
`read_entry_boxed`, `get_boxed_info` and `read_chunked` are steps of one firmware
call; `new_impl` of the info structures is checked byte by byte against the
layout a C compiler would choose.

**Events, Processors, Snp, Images, Gop, TextOutput.** Each has its
wrapper's operations as actions, the firmware's reactions as others, and two
kinds of client: the test program of `uefi-test-runner` for that service,
statement by statement, and an application that makes any calls. Frames of test
functions are alive or not, which is what a late callback or a stray processor
would tell apart. `Images` nests three images: the shell launcher, the shell and
what that starts.

**Strings, TcgLog, PassThru, Pxe, Codecs, Transfers.** The conversions
are operators translated from the code, checked in every initial state or after
every step against a definition of what they should give; the iterators and
request builders are state machines. `TcgLog` keeps a log as a sequence of
fields, so that reading at a wrong place is seen; it grows after it was fetched.
`Pxe` lays structures out as `repr(C)` does and compares the wrapper's with the
raw ones that it casts to.

**DevicePathNodes, DevicePathSpec, DevicePath.** The nodes as
the generated builders write them, as the packed structures and the enum read
them and as `uefi-raw` declares them (`DevicePathNodes`), the specification the
generator starts from (`DevicePathSpec`), and the generator's methods, the path
builder and the iterators (`DevicePath`). A byte is known by the field it belongs
to and its place in it.

**TestHarness, Xtask.** `run_qemu`, the virtual machine with the
script of the test runner, the serial line, the monitor, the UDP packet and the
echo thread, on every architecture and operating system; up to `MaxFaults` things
go wrong. `Xtask` takes the items of a source tree apart as `check-raw` does, and
runs `fmt` on a tree that somebody edits.

A definition called "Mutated form" is no part of the model: it is what a
plausible mistake in the definition after it would look like, and shows that the
property named for it in `PROJECT.json` would notice.

## Runs

States are the distinct ones TLC finds. A property that is a conjunction names
its parts; each part has a comment of its own where it is defined.

| Run | States | Checks |
|---|---|---|
| `memory` | 479,816 | `BackingMemoryExact`, `FinalMapExact`, `OnlyAllowedCalls`, `OneRetryTolerated`, `ExitTerminates`; `SortsByExchanges`, `SortTerminates`; `NoLeak`, `FallbackDoesNotStick`, `StoresBlocks` |
| `file_system` | 73,781 | `TouchesOnlyItsPaths` (a call changes nothing but what its paths name, and nothing if its source is no file), `DataSurvives` (rename and write under failures and power loss), `ResultTrue` (Ok means done, an error has a reason), `CallsReturn` |
| `library` | 322,512 | `ConversionsExact` (`CString16Valid`, `U16Conversions`, `StrConversions`, `Cstr8Exact`, `TimeExact`, `PciAddressExact`, `CastsAgree`), `BuffersExact` (`LogReadsInBounds`, `BuiltEventsFit`, `PacketBuffersLive`, `RequestBuffersOwned`, `CallArgumentsMatch`, `ViewInBounds`, `TransfersInSlice`), `IteratorsExact` (`ComponentsSplit`, `ParentDropsLast`, `LogSnapshotExact`, `DevicesComplete`, `IterNeverPanics`, `ListingExact`, `LanguagesExact`); `ListingsComplete` (`KeysComplete`, `ListingComplete`), `InfoFits`, `FetchesExact`, `BoxesExact`, `ReadContiguous`; `ExclusiveProtected` (a drop panics only where exclusiveness was given up), `GuardsExact` (open records and the priority level follow the guards), `FindHandlesExact` |
| `services` | 280,745 | `GraphicsExact` (`BltInBounds`, `FrameBufferInBounds`, `ModesComplete`), `LifetimesExact` (`ContextLive`, `NoStrayProcessor`, `PoolAccounted`, `OneDeviceOpen`), `ProgramsExact` (`EventTestsPass`, `MpTestsPass`, `SnpPanicsForAReason`, `BestModeSet`, `LoadsWhatWasAsked`), `WriteExact`, `EventsExact` (`SignalsSeenOnce`, `WaitMeaning`, timers); `ResponseIntact` (tokens are live when the firmware writes them, a body arrives whole), `NothingLeftBehind`, `IfupOutcome`; `ServicesEnd` (tests, waits, HTTP calls and `ifup` end) |
| `tools` | 196,637 | `HarnessExact` (`VerdictSound`, `VerdictFair`, `NoOrphans`), `TasksExact` (`CheckRawExact`, `FmtFaithful`, `HeadersOnce`), `PathsReadBack` (`AllBytesWritten`, `RoundTrip`, `NodeIterExact`, `InstancesPartition`, `PrefixesRefused`), `LayoutsAgree` (`RawAgrees`, `GeneratedFresh`), `HarnessEnds` |

Seven more runs end in a violation; they are in the next section.

The comment before each property says what it means and which code it is about.
`SortsByExchanges` and `StoresBlocks` are refinements: the detailed specification
implements the abstract one under the mapping in the `INSTANCE` beside them.
The type invariants are conjuncts of `TouchesOnlyItsPaths`, `GuardsExact`,
`ResponseIntact`, `ListingsComplete`, `LifetimesExact`, `BuffersExact` and
`HarnessExact`; those of `BootServices`, `MemoryMapSort`, `Allocator`,
`Protocols`, `Network` and `Gop` are proved. Each mutant of `PROJECT.json` breaks one run property, so of a
conjunction it shows that one of the parts can fail, not all of them.

### Where code and comments differ

Each of these runs checks one sentence of the documentation or a comment, and TLC
shows how the code departs from it.

| Run | Property | Stated | What the code does |
|---|---|---|---|
| `file_system_rename_same` | `RenameKeepsData` | `fs.rs:340` | renaming a file to its own path can remove it and return Ok |
| `file_system_copy_overwrites` | `CopyOverwrites` | `fs.rs:52` | a destination that could not be removed keeps its tail, and `copy` returns Ok |
| `file_system_create_dir_all` | `CreateDirAllCreates` | `fs.rs:155`, `path.rs:49` | the parent of `\a` is the empty path, on which `create_dir_all` fails |
| `library_more_entries` | `MoreEntriesSafe` | `dir.rs:78` | a probe that fails at the end of a directory makes the `expect` panic; a deleted file does too |
| `library_discover_info` | `DiscoverInfoFits` | `pxe.rs:627`, `pxe.rs:640` | the required size leaves out two bytes of padding, and the structure is longer than the buffer |
| `tools_push_end` | `EndEntireRefused` | `build.rs:101` | `push` takes an end node; `BuildError::UnexpectedEndEntire` is never used |
| `tools_references` | `NoReferencePasses` | `check_raw.rs:5` | a reference behind an alias or in generic arguments passes |

The passing runs state what holds beside these departures: `ResultTrue`
allows the cases the three `file_system` runs show (`OkEffect`, `Reason`),
none of `library` says that `read_entry_boxed` does not panic, and `CheckRawExact` is
about what the tool looks at.

The following also showed while the code was being modelled. The models do what
the code does; no run is about these points.

- `PathBuf::push` compares the terminating NUL with the separator
  (`fs/path/pathbuf.rs:41`) and so always adds one: `\` and `a` give `\\a`.
- `rename` refuses directories (`fs.rs:340` says "a file or directory"), and
  `create_dir_all` returns Ok on the path of a regular file.
- `sort` on an empty map computes `0 - 1` (`mem/memory_map/impl_.rs:150`), though
  `qsort` asks for indices within bounds.
- If `LoadedImage` is held open at the first allocation, `LOADER_DATA` stays in
  the cache (`allocator.rs:37`); `allocator.rs:106` promises the image's type.
- `MemoryMapIter::len` counts all entries, not those left; the graphics modes'
  `size_hint` is exact only if no mode still to come fails its query; `MemoryMapRef::new` accepts strides shorter
  than a descriptor.
- `Time` accepts the time zone `Some(0x7ff)`, which means local time;
  `language_to_cstr` rejects 63 bytes, which would fit.
- A PXE listing
  without a final entry yields errors for ever; an unterminated last piece loses
  a character.
- `read_nv_data` takes a shared slice, which the firmware writes;
  `write_nv_data` a mutable one; `control_transfer` cuts its length to 16 bits.
- Only the SCSI wrapper raises an alignment of 0 to 1: NVMe and ATA requests
  panic or fail with such a controller.
- `eq_str_until_nul` is true whenever one string is a prefix of the other.
- `wait_for_event` on an empty slice returns `Err(Some(0))`.
- A timeout below one microsecond becomes 0, which waits for ever; one that does
  not fit `usize` panics.
- `start_image` gives up the exit data it is handed; a firmware that removes the
  image's handle when it returns makes the launcher's exclusive guard panic.
- The opening of QEMU's pipes blocks for ever if QEMU has ended; on AArch64 and
  IA32 a panic after the last log line goes unnoticed; `check-raw` does not look
  into `mod` or `impl`; the multi-processor tests are enabled
  with `--disable-kvm` too.

### Bounds

- `memory`: two buffers (an owned map and the one being filled), one descriptor
  of slack and growth one, and map keys up to three: both ways to a reset without
  a fault happen, two changes of the map and one that outgrows the slack. Sorted
  maps of four entries over three addresses have every pattern of equal, ordered
  and inverted entries, and partitions within partitions. The heap has ten units
  and pages of four, three blocks at a time: room for a page at address zero and
  the one that replaces it, or for blocks between others; there are layouts for
  each of the three paths and a page-aligned block smaller than a page.
- `file_system`: two names nested three deep, contents empty, shorter and longer
  than the copy buffer, paths in absolute and relative spelling, the root and an
  invalid one.
- `library`: strings of three units; logs of two events with digests of two
  algorithms; two ports with two devices; alignments 0 to 4; path arguments of
  three characters and paths of six; base-2 digits where only the order of
  magnitude matters; a `u16` of eight values. Three variable names of which two
  outgrow the name buffer and one is invalid; two directory entries; files of five
  bytes in chunks of two; one change of the variables and two of the volume,
  between any calls. An image, two devices, two interfaces, two guards and one
  driver step; the properties of protocols are proved for any number.
- `services`: coordinates at both ends of a six-bit number; three processors;
  durations around and far beyond one microsecond; two cards; a text buffer of
  three, so that a line feed is split over two flushes. For HTTP two children (one
  may be left by a failed destruction), two calls, bodies longer than the buffer;
  for `ifup` two seconds and one change of the lease, at any point of a call. The
  safety properties of `Network` and `Gop` are proved for any numbers.
- `tools`: two faults, which include every pair of a test that fails and a
  process that dies; every kind of device path node with tails of zero to two
  elements and one too big; paths of two nodes besides the end.

`CHECK_DEADLOCK FALSE` is set where the application may stop calling, the
machine may be off or a panic ends the program.

### Fairness

Weak fairness of the steps of a call or test program that has started: the
processor goes on executing the code. The application is not obliged to begin a
call, and nothing is obliged to fail. Besides:

- `file_system`: the firmware does not answer every read of a directory
  entry with an error for ever: `remove_dir_all` ignores such errors and reads
  again, and would not end.
- `services`: timers tick, disk requests end, the clock of the processors runs
  and processors that were started end or are timed out, the card sends what it
  was given. No frame needs to arrive. The firmware completes the tokens it holds:
  `configure` asks it for a limit of ten seconds (`proto/network/http.rs:188`), and
  the poll loops have no bound of their own. A lease need not come.
- `tools`: host, virtual machine, QEMU and echo thread each go on; the operating
  system schedules them. No line is lost on the serial pipe, UDP packets may be.

## Proofs

`BootServicesProofs` proves the type invariant, the four safety properties of
`BootServices` (`OnlyAllowedCalls` also in its two parts) and that the system
table matches the addressing mode (`TableMatchesMode`), for every set of buffers, slack, growth and bound. The
inductive invariant `IInv` adds to them `ControlInv` (a call under way has the
services it needs), `SnapInv` (the map in the buffer is the current one as long
as its key is: this is what carries `FinalMapExact` across the firmware's key
test) and `RetryInv` (every failed round of the exit loop is paid for by a
change of the map of its own, and without a change the map fits the buffer: this carries `OneRetryTolerated`).

`MemoryMapSortProofs` proves, for maps of every length below `USIZE_MAX` and all
addresses, that `sort` orders the map, only permutes it, fails no index
assertion, recurses no deeper than the map is long, keeps a sorted map sorted,
and implements `ExchangeSort`. The invariant says that the pending calls of
`qsort` cover disjoint ranges in order (`FramesInv`), that two entries are ordered
unless one pending call covers both (`OrderInv`), and that each scan of
`partition` has an entry ahead that stops it (`PartitionInv`).

`AllocatorProofs` proves, for every memory, page size, set of layouts and
placement by the firmware, that blocks are aligned and exclusive, that `dealloc`
never panics while boot services are active, that nothing leaks, that the
fallback memory type does not stay, and that the allocator implements
`BlockStore`. The invariant (`IInv` in `Allocator`) says of the heap that
allocations do not overlap, that each is behind exactly one block or held by the
call that is replacing pages at address zero, and that the block's layout and
the word before it lead `dealloc` back to it (`Backs`): exclusiveness of the
blocks alone is not inductive, since the back pointers are in the same memory.

`ProtocolsProofs` proves the three properties of `Protocols` for all handles,
protocols, interfaces, guards and driver steps. That a drop panics only where
exclusiveness was given up is not inductive. What carries it: the application
never has more open records on a pair than guards (`Counted`, a sum over the bag
of records), an exclusive guard's record is there and keeps drivers off its pair
(`Exclusion`), and two guards on one pair make it `mixed` (`Alone`).
`LocalsInv` says which locals of `get_image_file_system` exist where, `FindInv`
that without a race no more handles have the protocol than were counted,
`LevelInv` that every `TplGuard` remembers the level below it.

`NetworkProofs` proves the three safety properties of `Network` for any number of
children, calls, body sizes and seconds. Its invariant says, for every place in
`HttpHelper::new` and `drop`, which values are held (`Holdings`) and which children
and open records exist because of them (`DatabaseInv`), unless a drop has
panicked; of the tokens, that the firmware holds only the current frame's or those
of abandoned calls, and that the bytes of a completed response are in its buffer
until it is returned (`TokenInv`); of `ifup`, that it stalls once a round with
DHCP on, and that a size which became too small means an address came
(`Ip4Inv`).

`FileSystemProofs` proves, for every set of locations, contents and paths, every
size of the copy buffer and any number of calls, that the volume stays a tree
(`TypeOK`), `DataSurvives`, that nothing panics without a fault of the firmware,
and, of `try_exists`, `create_dir`, `remove_file`, `remove_dir`, `write`, `copy`
and `rename` (`Direct`), `TouchesOnlyItsPaths` and `ResultTrue`. The invariant says
how far the volume has come since the call began: for `write` that it differs from
the old one at the path alone (`Writing`); for `copy` that the source handle
delivers what the file held at the start, even when the file is gone because it is
the destination too (`Source`), and that the units up to the handle's position are
the source's and `remaining_size` counts the others (`Destination`). That a new
file holds nothing behind them needs that no fault has left the old one there.
Of `create_dir_all` and `remove_dir_all` the footprint and the results are not
proved: they are about paths the code builds with `parent` and `push`, and what
`components` gives for those takes an induction over the characters of a path.

`GopProofs` proves `GraphicsExact` for every width of `usize`, table of modes and
arguments. The arithmetic is in `BufferInBounds`: a region is accepted only if its
end is below the slice's length even where the sum or the product saturates, and
then the stride in bytes does not wrap. `IterInv` says that the mode iterator has
yielded what can be queried before its place.

`EventsProofs` proves `EventsExact` for any number of events of an application,
beside the tests'. An event the firmware holds as signaled has not been reported
since (`SeenIn`), and its timer is the one last asked for (`TimerIn`).

The theorems are about the specification of the component on its own, which
`Memory`, `Library` and `Services` take the steps of while it is in use, leaving
its variables alone otherwise.

The assumptions are those named in the modules: natural numbers, a nonempty set
of addresses, `MaxLen < USIZE_MAX`, layouts of positive size and alignment,
memory types that differ from each other and from the cache's empty value, finite
sets of handles and guards, guards that are not named like the locals of a
function, the pairs of handle and protocol that the code relies on, a set of
locations that has the directory of each, contents that are sequences, slices of
at most `isize::MAX` bytes, and resolutions and frame buffers below `usize::MAX`.

Proved and in no run: the type invariants of `BootServices`, `MemoryMapSort` and
`Allocator`, `TableMatchesMode`, `SortCorrect`, `SortPermutes`, `NoPanic`,
`DepthBounded`, `SortedStaysSorted`, `BlocksExclusive` and `DeallocNeverPanics`.
Most of them are what the abstract specifications promise, said directly.

Only model-checked: the liveness properties (fairness and ENABLED are beyond the
prover), `TouchesOnlyItsPaths` and `ResultTrue` of `create_dir_all` and
`remove_dir_all`, the properties of `tools`, those of `library` that are not about
protocols, and the rest of `services`. Most of those are about what a fold or a
recursive function computes on a sequence: components of a path, characters
written to the console, fields of a log, bytes of a node. Proving them needs
induction over data, which is out of the prover's reach. `Directory` and `Xtask`,
and with them `Library` and `Tools`, declare RECURSIVE operators; no module with a
theorem reaches them. `Processors`, `Snp` and `Images` follow scripts of tests step
by step, and what is said about them depends on every entry.

## Excused

Some properties name a case in which they say nothing, because the code does not
handle it and says nothing about it either:

- `ResponseIntact`: calls that returned because `poll` failed. The firmware still
  holds their token, whose frame is gone, and may write to it.
- `BoxesExact`: a variable that shrank, or a file renamed, between the two calls of
  `make_boxed`. The box is then freed with a smaller layout than it was allocated
  with.
- `FallbackDoesNotStick`: an image whose `LoadedImage` is held open at the first
  allocation.
- `SnpPanicsForAReason`: frames lost, late or of others; the test does not retry.
- `VerdictFair`: a host that answers late counts as a fault.
- `HarnessEnds`: on Unix, a QEMU that ends before its pipes are open.

## Not modelled

- The cargo invocations of `xtask` (build, clippy, doc, test and so on), which are
  constant lists of arguments.
- The firmware's inside, and wrappers that pass on one call and keep nothing:
  the remaining protocols of `proto/` (text input, partition, load file, debug,
  shim, unicode collation, memory protection), connecting controllers, capsules,
  the watchdog, event groups.
- Formatting and wording of messages, the debugcon port.
- Operations that only read and have no boundary of their own: `read`, `metadata`
  and `read_dir` of the file system, status and error conversions, configuration
  tables. In particular nothing is said about a `read` that comes up short
  (`fs.rs:227`), which is only logged.
- The conversion of device paths to and from text, which the firmware does.
- Type definitions of `uefi-raw` that no modelled operation casts from or to, and
  the parsing of arguments in `uefi-macros`.
- Those tests of the runner that make one call and look at its result.
