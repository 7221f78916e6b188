# Verification of the SyscallMon client (TestDriver)

`src/TestDriver` is the user-mode half of a Windows system call monitor. A
minifilter driver (not in the repository) reports what processes do; the program
connects to the driver, builds a table of the processes on the system, and turns
each message of the driver into events of a list. This directory holds TLA+
models of that program, the TLC runs that check them and TLAPS proofs about them.

## 1. Inventory

| part | source | state | operations |
|---|---|---|---|
| monitor process | `main.cpp`, `syscallmon.cpp` | `m_hMutex`, `m_hQuitEvent`, the worker thread | `Initialize`, `Uninitialize`, `start`, `run`, `Quit`, `wait` |
| driver loader | `driverloader.cpp` | service names and path, client port; outside the process: registry keys, the loaded driver | `Install`, `Uninstall`, `CreateKeys`, `Connect`, `Disconnect`, `Read` |
| process table | `ProcessMgr.cpp`, `ps.cpp`, `DriverWrapper.cpp` | `m_List`, `m_KeyMap`, `m_IdMap`, `m_PsSystemProcess` | `FillList`, `EnumProcessProc`, `Find`, `InsertProcess`, `FillParent` |
| event manager | `EventMgr.cpp`, `EventMgr.h`, `Protocol.h` | `m_EventList`, the filters | 29 message handlers, `AddEvent`, `FindEventById` |
| event filters | `EventFilter.cpp`, `EventMgr.cpp` | `m_FilterList`, `m_KeyFilterList`, reference counts | `LoadFilters`, `GetFilters`, `DoFilter` |
| module manager, symbol dialog | `modulemgr.cpp`, `symloaddialog.cpp` | `m_ImageMap`, the module lists of processes, load queues | `GetImage`, `OnQueuedAddModule`, `QueuedLoadImage`, `FindClosestFunction` |
| string manager | `StringMgr.cpp` | interned strings | `GetString` |
| registry events | `Event.cpp`, `EventMgr.cpp`, `nt.h` | the name and the data of an event, its value | constructors of the query events, `GetByteArrayMaxLength` |
| registry values | `registry.cpp`, `registry.h` | the type, the bytes and their number | `RegValueFactory`, the `Print` of each kind of value |
| access masks, paths | `nt.cpp` | none | `Get...DesiredAccessString`, `NormalizeFilePath` |
| text of other events | `Event.cpp`, `nt.cpp` | none (formatting) | |
| icons, helpers | `Image.cpp`, `util.cpp` | none | |
| allocator | `dlmalloc.c` (Doug Lea's, kept in the repository) | `malloc_state`: small bins, the tries of large chunks, the designated victim, top, the segments, footprint and limits; the headers in the memory managed | `malloc`, `free`, `calloc`, `realloc`, `realloc_in_place`, `memalign`, `independent_calloc`/`comalloc`, `bulk_free`, `trim`, `set_footprint_limit` |

How they interact: `CSyscallMon::Initialize` connects to the driver or loads it,
enables capture, fills the process table *while the driver already queues
notifications*, and only then starts the worker. The worker takes one message at
a time; `ParseMessage` holds `m_EventMgr`'s lock for the whole handler, and the
handlers read and write the process table and the event list. `Uninitialize`
disconnects, unloads the driver and gives up the named mutex that keeps a second
process out; `main` runs it even when `Initialize` failed. Events and registry values
are made by the worker and live in the allocator's heap (`operator new` and `delete`
of `CUniqueEvent` and `CRegKeyValue` call `dlmalloc` and `dlfree`).

What makes each part correct:

* monitor and loader: one process at a time uses the driver; no other one unloads it
  under a connection; it is loaded from its own path and left behind by nobody;
  closing ends the program;
* process table: its containers agree, `Find` returns the
  living one, parents are linked both ways, and the table is the system's once the
  worker has caught up;
* event manager: the list is ordered by id, a call stack finds the event of its call,
  an event belongs to the process that acted;
* filters: counts are exact, no list names a deleted filter, the order of the list
  decides;
* module manager: one image for each file, read once; a frame has the module its call
  came from; the functions found by offset and by name agree;
* string manager: one object for each text, whoever asks at the same time;
* registry events: only bytes of the message are kept, none that was copied is lost;
* registry values: data that go on behind what came are shown as such;
* access masks: the names of the text are the bits of the mask, each once;
* allocator: blocks are apart and as big as asked for, whatever other threads do between
  two steps of a call; every unit of memory is in a block, in a free chunk or back with
  the system; free chunks never border each other; the checks that abort never fail; a
  request that is served from the tries gets the chunk that fits best.

What is hard: the enumeration races the system and the notifications; process ids
are reused; call stacks arrive late and are matched by number; an initialization
that fails half-way, or was rejected, is followed by a full uninitialization
beside a process that works; the worker is never told to stop; `realloc`, `memalign`
and `ialloc` of the allocator take its lock several times in one call, and the heap may
change in between. `PROJECT.json`
lists each hazard at its line.

## 2. Modules

* `ProcessTable` - the process table as pure operators: `Find`, `InsertProcess`
  (as `ListWith`, `KeyMapWith`, `IdMapOrders`), `FillParent`, `Kill`. An object is
  named by its index in `m_List`; objects are never removed. The hash multimap
  `m_IdMap` is its iteration order: entries of one id stay together and an
  insertion may rehash everything else, so every such order is allowed.
* `ProcessMgr` - extends it with the three actors: the main thread (one action per
  driver call of the enumeration, since processes end and start between them), the
  worker's process notifications, and the system (external).
* `EventMgr` - extends it with the worker's handlers. The 29 handlers have six
  shapes: process creation and exit, thread, image, call on a target, call without
  a target, call stack. An event keeps its id, type, objects and call stacks.
  The driver is external: it numbers its messages in order and sends the call stack
  of a message later, or never. `LookUp` is `FindEventById` with the null entries
  the constructor leaves in `m_EventList` (100000 in the code, one in the model:
  one is enough to be met).
* `EventFilter` - filter objects with their counts, both kinds of list, and
  `DoFilter` as the loop it is (`Scan` goes through one key's list). The program
  that edits filters is external: `LoadFilters` and `GetFilters` are called by
  nothing in the repository, and the model's caller keeps to one rule, not to use a
  filter it has given up.
* `SyscallMon` - the main and the worker thread of several processes of the
  program beside each other, with the mutex, the driver and the service's key in
  the registry that they share. `accident` records a kill or a failed unload, `denied`
  that a process went on although the mutex could not be created (for any error but
  `ERROR_ALREADY_EXISTS`), `lost` that `ImagePath` could not be written, which
  `CreateKeys` does not notice.
* `StringTable` and `StringMgr` - what the string manager promises (a table that
  answers each call in one step) and `GetString` as it is, step by step under its
  lock. A text has a length and may have a NUL within it: a registry name of the
  driver is counted in bytes. The refinement maps a thread that has not found or
  made its string yet to one that still waits.
* `ModuleMgr` - images, module lists and frames. The system maps and unmaps images
  and makes calls; the driver reports mappings and stacks, never an unmapping. The
  worker's handlers and the interface for a viewer of events (`FixFrame`,
  `QueryFrame`) are the code's. The viewer is not in the repository; since the lists
  have no lock it must run on the worker's thread. A file is read where
  `OnQueuedAddModule` is called: `QueuedLoadImage` is a plain call here, the Qt
  thread it once ran on is commented out.
* `Symbols` - the functions of one image, from dbghelp or from the export table, and
  the look-ups by name and by offset, with ULONGs up to `2 * MaxInt + 1` and the
  conversion to `int`. The symbol file of the load dialog is made from the same list.
* `RegistryQuery` - how much of a registry reply an event takes: the classes of
  replies with their sizes and fields, the ranges of bytes its contents are (`kept`), and
  where the hash of a text looks at the character behind it (`peeked`).
* `RegistryValue` - the choice of a class for the type of a value, and how each class
  decodes the bytes: little- and big-endian numbers with their sign, strings, binary.
* `DesiredAccess` - the chains of tests by which the six `Get...DesiredAccessString`
  functions name the bits of a mask: a name for a whole mask, then names of
  bits, with what each test removes from the mask.
* `EventDetails` - composes the three: a message becomes an event, and then what is
  shown of it. A behaviour is one message.
* `MallocState`, `MallocRoutines`, `DlMalloc` - the allocator. `MallocState` has the
  record of `malloc_state` with the chunk headers, and the internal routines on them
  (`sys_alloc`, `prepend_alloc`, `add_segment`, `sys_trim`, `release_unused_segments`,
  `mmap_alloc`); `MallocRoutines` the routines that the calls are made of, each as the set
  of its outcomes (`VirtualAlloc` may place a region anywhere or refuse it);
  `DlMalloc` the calls, with what is done under the lock in one step. Sums of sizes wrap
  as `size_t` does, that of an array in `ialloc` among them.
  The unit of addresses is `MALLOC_ALIGNMENT`, two words. A bin is the set of its
  chunks. A call that is between two sections under the lock is a record in `calls`.
* `Heap` - what the allocator promises: blocks are given, taken back, resized and
  divided, apart from each other. `DlMalloc!KeepsPromise` is the refinement.
* `TreeBins` - the tries of large chunks, which `DlMalloc` abstracts to sets: insertion,
  removal with its choice of a replacement, and the two searches, with sizes of
  `SizeBits` bits. `BestFit` is what they promise: a queue of chunks for each size, and
  a request takes the oldest of the smallest that fit, unless what is elsewhere is as good.
* `MC*` - instances for TLC. `*Proofs` - the theorems. Where the theorems of several
  modules are in one, their specifications have names of their own: `SpecStrings`,
  `SpecModules`, `SpecSymbols`, `SpecFilters`, `SpecDetails`.

`ProcessMgr` and `EventMgr` extend `ProcessTable`; `StringMgr` instantiates
`StringTable`, `DlMalloc` `Heap` and `TreeBins` `BestFit`. The others share no state the properties need: `ModuleMgr` has the
processes as constants because who runs is `ProcessMgr`'s matter, `Symbols` is one
image of `ModuleMgr` once its file is read, and `RegistryQuery` is one message of
`EventMgr`. The module an image load records is `ModuleMgr`'s, the event it makes
`EventMgr`'s.

Data that no property distinguishes is abstracted: names, paths, thread ids,
times. A string in a filter is the set of words it contains.

The allocator is modelled as this program builds it: `USE_LOCKS` 1, `HAVE_MORECORE` 0,
`HAVE_MREMAP` 0, `FOOTERS` 0, `DEBUG` 0, `PROCEED_ON_ERROR` 0, `MSPACES` 0, memory from
`VirtualAlloc` only, which gives whole regions, and `VirtualFree`, which takes back
whole regions only. `NextBin` tells the two targets apart: on Win32 bins are as close as
chunk sizes, on x64 they are not. The granularity (64 KB), the mmap threshold (256 KB), the
trim threshold (2 MB) and the release rate (4095) are constants.

## 3. Runs

| run | question | result |
|---|---|---|
| `process_table` | is the table consistent, and right once the worker has caught up; is what ended marked dead in the end? | holds |
| `find_stale` | does `Find(pid)` return a process of that id? (comment, `ProcessMgr.cpp:165`) | violated: the loop runs past the id's entries |
| `events` | is the event list ordered, does each call stack find its event, do events belong to the right processes? | holds |
| `filters` | are counts exact, is no deleted filter listed, does `DoFilter` do what the list says? | holds |
| `monitor` | does one process at a time use the driver, does nobody else unload it under a connection, is it loaded from its path and left behind by nobody; does closing the program end it? | holds; of two users one has no mutex (`denied`), and a path that could not be written is not loaded (`lost`) |
| `strings` | is each text kept once, is `GetString` one step for its callers, is the lock always given up? | holds |
| `modules` | do frames get the module of the mapping they were called from, is each file one image? | holds |
| `symbols` | do the look-ups agree with each other and with a reference definition? | holds |
| `event_details` | are only bytes of the message kept, and all that were copied; is a value that goes on shown as such; are the names shown the bits of the mask? | holds; any standard right shows as all of them |
| `heap` | does the heap keep its structure, is every unit accounted for, does no check abort, are blocks apart and big enough? | holds |
| `ialloc_race` | do two free chunks never border each other? (comment, `dlmalloc.c:2152`) | violated: `ialloc` writes a header (`dlmalloc.c:5059`) after it gave up the lock |
| `tree_bins` | do the tries keep their shape, does a request get the best fit? | holds |

Bounds, and why they are enough:

* Process table: two process ids besides System and creation times up to 4 give a
  parent and a child, a process that starts or ends at any point of the
  enumeration, and reuse of an id; one id may be unqueryable. The queue of 3 lets
  a creation, an exit and another creation wait for the worker.
* Events: ids up to 4 with one creation already queued give a creation, what the
  process does, its exit and their call stacks. One message waiting loses nothing:
  the driver does not read what the worker writes, so the handlers see the same
  sequences whatever the length of the queue. An image load without an id can come at
  any point between them. The two process ids are model values and may be exchanged
  (`SYMMETRY`): the handlers compare ids for equality only.
* Filters: five objects, three of them made by the program, from five filters over
  three keys, with every event of three process ids, four paths and two results.
* Strings: three threads and four texts, among them one text with and without a NUL
  counted in, and two that differ only behind a NUL.
* Modules: two files of different sizes at two bases in System and one process, two
  mappings and two stacks: an image can replace another at the same address or cover
  it, reported or not, before or after the stack or the query.
* Symbols: offsets of 3 bits, so that every distance and its wrap occur; three
  symbols of two names; all export tables of up to three names with permuted
  ordinals, and of two names with ordinals beyond them.
* Registry: sizes and offsets at, before and behind the end of each structure, and
  numbers no reply can have. Data of some queries and of one set call are looked at,
  at every length up to eight bytes (the longest number), whole, cut or somewhere behind
  what came, with bytes that are zero, small and of the sign; one type of each kind of
  value.
* Access masks: every set of ten bits (rights every kind of object has, rights only some
  have, a standard one, generic ones, one without a name), and every mask with a name of
  its own with up to one bit more and one fewer.
* Heap: three regions of eight units, placed and refused in every order, so that they
  join above and below, stay apart, or are trimmed and released; requests of a small
  chunk and of a large one, which is at the mmap threshold, an alignment that leaves a leader
  before the block, an array of two small elements and one of two that nearly fill the
  range of `size_t` (it must be refused), a limit of the footprint that is reached, three
  blocks, one call of a thread in the middle of its steps with calls of others in
  between. The limit is set before the first use only. `IallocAlone` is the assumption
  of the run `heap`: nobody else calls, or goes on with a call (`OthersWait`), while
  `ialloc` is between its sections; `ialloc_race` drops it.
* Tries: words of five bits, with bins for the sizes 4-5, 6-7, 8-11 and all larger
  ones, so that a trie branches at several bits; four chunks, of six sizes, equal ones
  among them; victims that are too small, and that fit. What is left of a chunk that is
  split gets any free name.
* Monitor: two processes. One that works and one that interferes, with the mutex,
  rejected or without it, is what the properties speak of; the proofs cover any number.

`CHECK_DEADLOCK FALSE` stands where the system's clock, the message numbers or the
mappings are bounded, and where a behaviour is one call (`Symbols`) or one message (`EventDetails`). The
filters, the strings, the monitor, the heap and the tries can always go on and are
checked for deadlock. The largest runs are `events` (2 million states, two minutes), `event_details` (1.6 million), `modules` (1.1 million), `monitor` (377,000, two
minutes), `filters` (324,000, under a minute) and `heap` (244,000, two minutes); `tree_bins` has 30,000 (two minutes,
because `TakesBestFit` compares all queues at each step).

### Seen while modelling, not runs

Where a comment of the source is wrong in a way that takes no sequence of steps to
see, it is listed here and checked by no run:

* the two basic filters are never deleted (`EventMgr.cpp:254`; the comment at 347 says
  a filter nobody references is);
* `BriefResult`'s `GetKey` returns the path key (`EventFilter.h:188`; `EventMgr.cpp:233`
  lists "Result" as a key of its own);
* the quit event is closed and never set (`syscallmon.cpp:184`; comment at 56), so
  that only the end of the process ends a worker that waits in `Read`;
* `dlmalloc_set_footprint_limit(0)` falls through to the next test (`dlmalloc.c:5357`);
* a segment whose record went into an old top of one unit is never released
  (comment, `dlmalloc.c:4245`);
* a process that gets no mutex for another reason than that it exists (the mutex of
  another user's or an elevated process may not be opened) goes on without one
  (`syscallmon.cpp:367`), so that the message "already running" never comes and two
  processes use the driver; `OneMonitor` and `ConnectionKept` say so;
* `CreateKeys` ignores what `RegSetValueEx` returns (`driverloader.cpp:33`), and
  `NtLoadDriver` is then called with an older path or none;
* the hash of a counted text looks for a NUL before it looks at the length
  (`StringMgr.cpp:51`), so it reads the character behind the text; right behind the copy
  of a message one byte of it belongs to nobody (`KeptIsCopied`);
* `CRegKeyValueString` walks as many `char`s as the data has `WCHAR`s
  (`registry.cpp:63`): of a string the first half is shown;
* a big-endian DWORD of 2^31 or more is shown with its sign extended to 64 bits; a
  QWORD that came with four to seven of its bytes is taken for a DWORD in the other
  order, and nothing says that some are missing (`registry.cpp:108`);
* `STANDARD_RIGHTS_ALL` is tested for any of its bits, before the rights it is made of
  (`nt.cpp:154`), so that `DELETE` or `SYNCHRONIZE` alone is shown as all of them;
* `Find` takes the last of an id's objects for the newest (`ProcessMgr.cpp:165`), but an
  id never has a second one: a creation is skipped when `Find` returns any object
  (`EventMgr.cpp:524`), and a process with a reused id is not recorded;
* `ialloc` adds up the sizes of an array without asking whether the sum wraps
  (`dlmalloc.c:5015`), and then divides a chunk of what is left of it: with
  `MCElements == {<<66, 66>>}`, which sum up to 4 in a `size_t` of 7 bits, the run `heap` finds
  `HeapSound` violated in three steps, by elements that reach over top and out of the
  segment. The run and the theorems are about arrays that fit (`ArraysFit`);
* a query may be doubled by a late report of the same mapping; exported names are paired
  with the wrong addresses unless their ordinals are their own inverse
  (`modulemgr.cpp:71`).

Fairness: in `ProcessMgr` the main thread and the worker are weakly fair, the system
is not: nothing has to start or end. In `SyscallMon` the steps of `Initialize`, of
`Uninitialize` and of the worker are weakly fair, because no lock of the program is
held across them; starting, closing and killing a process are the user's choice.
A worker blocked in `Read` has no enabled step, so that fairness does not promise it
a message.

## 4. Proofs

For each component there is an invariant that is inductive (`IInv`), then one lemma for each
action or group of actions, then `Invariance == Spec => []IInv`, then the theorems. The
proof modules are `ProcessTableProofs`, `ProcessMgrProofs` and `EventMgrProofs`;
`MonitorProofs` for `SyscallMon`, `StringMgr`, `ModuleMgr` and `Symbols`; `ViewProofs` for
`EventFilter` and `EventDetails`; `HeapChunkProofs` and `HeapProofs` for
`DlMalloc`; `TreeBinsProofs` for `TreeBins`.

`ProcessTableProofs` proves what the operators do to a table (what `Find` returns,
what an insertion, a link and an exit preserve). `ProcessMgrProofs` uses these
lemmas for any finite or infinite set of ids and any bounds:

    IInv = TypeOK, TableInv, Distinct(idMap), Known, Queued, Phases

`TableInv` is the consistency of the three containers and of the links; alone it is
not inductive. That no id has two objects, without which `Find` would not be right, needs
that the enumeration visits an id only once
and that what it has still to visit has no object (`Known`, `Phases`), and the links
need that `FillNextParent` has linked exactly the objects before its cursor.

What the table says of the system needs a second invariant over `IInv`, since it is true
only while no id was reused:

    HInv = IInv, Captured, ~reused => Genealogy, OneLife, Deaths, Links, Tracked

An object, a queued notification, the system and the process that is being visited may
each know the birth of one process: `Genealogy` is that they agree, and that a parent is
older than its child, which gives `ParentsOlder`. For `TableCorrect` every running
process must be in the table or be expected there - by a notification or by a step of the
enumeration that is still to come (`Expected`) - and every living object must run or have
its exit queued (`Tracked`). `OneLife` and `Deaths` keep a notification from bringing
back an object that is dead. With an empty queue nothing is expected any more, and table
and system agree.

`EventMgrProofs` proves `EventsInOrder` and `StacksFound` for any finite
set of process ids and any bounds. The list of events is in order because the queue is:
what waits there is in the order of ids and behind everything recorded (`InOrder`). A call
stack sits on its event once because it is still to be sent (`pending`), in the queue
once, behind its event, or handled (`taken`), and never two of these (`StacksOnce`).
`MatchesOne` and `NoneMatches` are what `FindEventById` needs: the walk meets at most one
event that takes the stack, and misses none by stopping early. `ActorIsRight` and
`LastWord` again hold while no id was reused: whoever acts in a queued message runs, or
its exit waits behind the message (`Lives`), so its object is alive when the message is
handled; an object is dead only after its exit's message (`Deaths`), and then no event of
it follows (`Told`). The object `Find` returns is the right one by `ProcessTableProofs`.

`MonitorProofs` proves the safety of `SyscallMon` for any set of processes:
the named mutex has one holder, and a process without it is on record (`MutexUnique`);
a process that goes through `Initialize`, or has the service's name in its loader, is that
holder or could not have the mutex (`Guarded`);
a connected process has the name and has not reached `Uninstall` (`Connected`). So
whoever unloads the driver or rewrites the service's key is the holder itself or has no
mutex, and
a rejected process has no name to unload anything by. `ConnectionKept` is an action
property: of all steps only an unload ends a connection of another process, and then
these two are the processes `OneMonitor` speaks of. `Owned` says who will unload
a driver that is loaded, which gives `NothingLeftBehind`.

For `StringMgr` it needs that a thread between `Lock` and `Unlock` holds the lock, that
a thread that makes a string still has no entry for its text, and that keys and
objects name each other. `InternsCorrect` is the refinement: the initial state maps
to the table's, `Found` and `Make` to its answer, every other step to a question or
a stutter.

`ViewProofs` proves all of the filters' properties. That a count is the number of
references is inductive only together with two facts: a filter is deleted exactly when
its count is zero (`Settled`), and every filter in the copy the program got from
`GetFilters` is still listed, held by the program or a basic one (`Kept`). The lists by
key are a selection from the filter list: `Selection` names the place of each of their
filters there, in order, and `KeysRight` is that it holds for every key. So no key list
names a deleted filter, and what the first filter of a key list that passes says of an
event is what the whole list says of it (`Finds`, `Says`), which is `ShownAsListed`.

`MonitorProofs` also proves all three properties of `ModuleMgr`. The images and `m_ImageMap`
mirror each other, with all paths brought to the form with a drive (`ImagesOk`); every
module of a list was mapped there once (`ListsOk`); and a reported mapping is in the list
of its process or its message waits ahead of every stack that was captured in it
(`QueueOk`). Module lists, images and mappings only grow, which the lemmas `KnownStays`,
`FrameStays` and `QueueGrows` use to carry the rest of the invariant over every step.
The last part is about `Symbols`, for functions with any offsets and any export tables:
`Nearest` says what the loop over the functions has found after each round, up to the
function of the least distance as an `int`, and the symbol file has the functions of the
map the look-up by name uses.

`ViewProofs` also proves all properties of what an event takes and shows, for all
sizes, lengths and offsets, all data and all masks of 32 bits. The invariant is that the
event is what one of the handlers makes of the message (`IInv`) and the detail what one of
the functions makes of the event (`ShownIsMade`), so that the rest are facts about these
functions. A lemma bounds `GetByteArrayMaxLength`; the case of `ULONG_MAX` is kept apart as
in the code. From it come what an event keeps (`KeptIsCopied`, `CopiedPartsKept`) and, as the
bytes that came of a value are fewer than its size exactly if the bound cut them,
`MoreIsSaid`. For masks, `ShownSo` is what a chain of
tests has kept after some of its rights: the bits left are those of none of the rights, every
name shown has a bit of the mask, every bit cleared has a name, and no two names share a
bit. A test keeps it because no right is covered in part by an earlier one (`Follows`); that
the tables of the six kinds of objects and the common one are such tables, with no name
twice, is a lemma for each. `STANDARD_RIGHTS_ALL` is the one test for any bit, and so no right
has a bit of it and a bit beside it (`SingleOrStandard`). `MoreIsShown` is a part of
`CopiedPartsCorrect` and of no run.

All that the run `heap` checks is proved for any granularity, sizes, thresholds, address space
and number of callers (`HeapSoundCorrect`, `NeverAbortsCorrect`, `NothingLeaksCorrect`,
`KeepsPromiseCorrect`), in two modules. Their invariant is

    HeapInv = Sound, OwnedOk, CallsOk

`OwnedOk` is that callers hold exactly the chunks that are in use and no record of a segment,
each large enough for what was asked, and that the footprint is the number of addresses that
the regions of the system cover (`Counted`); `CallsOk` that the chunks of calls under way are held, by one call each, and that mapping is
disabled exactly in the one call that is in `ialloc`. `Sound` is `HeapSound` and what it is not
inductive without: no chunk is outside of the segments and of the regions of mapped chunks
(`Homes`), no header is inside of a chunk and every header repeats what it says of the chunk
before it (`Layout`), a mapped chunk is alone in its region (`DirectOk`), and these spaces are
apart and made of whole regions of the system (`SpacesOk`), without which `VirtualFree`
would take back what somebody holds or be refused.

Each routine has a lemma: of a sound heap it makes a sound one, and `Frame(n, m, S, T)` says
that of the chunks in use it takes away S and adds T, leaves the size of all others alone, and
that the footprint still counts what the regions have. So a call is right when S is what it was
given and T what it returns: nothing that is freed stays in use, and nothing is taken that is not
returned.

A freed mapped chunk must go back to the system in fact, or it would be in use and nobody's.
`win32munmap` gives back regions while their sizes sum up to what is asked, so that the lemma
needs a sum over a set: `SumSetIs` says that the sum of the lengths of intervals that are apart
is the number of addresses they cover. It makes no use of an induction theorem: `EachRound`
carries it from the sets of k intervals to those of k + 1. So the regions of a space sum up to the
space (`SpaceFilled`), `CanUnmap` holds of it, and in `NothingLeaksCorrect` the sums of the
spaces and of the regions are the footprint, as both cover the same addresses.

`KeepsPromiseCorrect` is the refinement of `Heap`. `BlocksPromised` reads off `HeapInv` that
blocks are apart and large enough; `Changed` says what a frame means for blocks, and each step
of a caller is then an allocation, a release, a resize, a division or no change (`StepKeeps`).

* `HeapChunkProofs` - what happens inside of a segment. `Retile`: chunks may be replaced by
  others that fill the same space, if the headers behind them are told. From it
  `dispose_chunk` and `free` (each neighbour: in use, free, the victim, top), what `malloc`
  takes (`SplitChunkIs`, `FromDvIs`, `FromTopIs`), `try_realloc_chunk` (`TryReallocIs`), and
  the division by `ialloc` (`DivideIs`). Then `SwapBody`: headers, segments and regions may be
  exchanged inside of a window of addresses; from it the mapped chunks (`FreeMmappedIs`,
  `MmapAllocIs`, `MoveMappedIs`) and the cut of an aligned chunk (`CarveIs`).
* `HeapProofs` - `sys_alloc`'s three ways to use a new region, behind the segment of
  top (`AppendIs`), in front of one (`PrependIs`) and as a segment of its own
  (`AddSegmentIs`: the old top becomes a chunk in use, the record and fenceposts), and
  trimming (`TrimTopIs`). Then `SysAllocIs`, `MallocIs`, `ReleaseUnusedSegmentsIs`, `SysTrimIs`, `FreeIs`,
  `BulkFreeIs`, then two lemmas for each step of a caller, that it keeps the invariant and that it
  is a step of `Heap`, and the theorems.

The heap theorems assume `IallocAlone`, the assumption of the run `heap`: `ialloc` disables
mapping for all callers while it allocates, and a chunk that is mapped there, because another
`ialloc` has enabled it again, is divided as if it were in a segment. The run `ialloc_race`
shows that without it the heap does not stay sound. They also assume `ArraysFit`, that no
array of `ialloc` has sizes whose sum is more than a `size_t` holds: of such an array `ialloc`
takes a chunk of the wrapped sum and writes headers past it (section 3). With it the sum is
what is allocated (`SumIsRequest`), which is where the invariant uses it (`Sizes`).

`TreeBinsProofs` proves `TriesSound`, and the refinement `TakesBestFit`, for any number of
chunks, of bins and of bits of a size.
A trie has no order that its pointers show: where a chunk hangs depends on the bits of its
size, from the highest that the sizes of its bin may differ in. So the invariant gives each
chunk of a trie a depth, which the code does not keep, and speaks of the bits up to it:

    TriesInv = BinsOk, ~aborted, Rings, Outside, \E dep : Tries(b, Trie(b), dep)

`Hangs` is that a chunk agrees with its parent in all bits above the parent's depth and is
the child its own next bit names, `Holds` the same from above, `PlacesOnce` that no two
chunks of a bin have the same bits to the same depth, and `SizesOnce` that a trie has a size
once; `Outside` that the chunks in rings alone have no children. The depths are what makes
it inductive: a removed chunk is replaced by a leaf far below it, which takes over its
depth, and that is right because all that is below a chunk agrees with it in the bits above
its depth, whatever its own size is (`RightmostFound`, `SwapTries`).

Powers of two and shifts are recursive functions in the model, not `2^k`, of which the provers
know nothing; `Powers` and `Shifts` derive their equations by least counterexamples. `Prefix` is
what a size has of its bits up to a depth, as a number: sizes of a bin agree in it at depth 0
(`SameBin`), it grows by a bit with each depth (`PrefixStep`), and `PrefixOrder` turns the
first bit that two sizes differ in into their order, which is where the order of left and right
comes from. `WalkOf` says what a loop over the children reaches in each round, `EndOf` where it
ends; a path that descends for a size meets it, or stops where it will hang (`PathFinds`), before
the bits of the bin are used up (`Levels`). Each change has a lemma: a leaf is taken off its trie (`LeafGone`),
a chunk comes in another's place (`SwapTries`), one leaves its ring (`UnringIs`), one is
hung at the end of its path (`HungTries`) or joins a ring (`RingJoins`); `Inserted` and
`Unlinked` compose them. Of the searches `TriesSound` needs that what they find is held, and
that a small request finds a chunk if a bin is marked. `BelowIs` says what is below a chunk, and
`SoundTries` reads `TriesSound` off the invariant.

`TakesBestFitCorrect` has two halves. The first is that a search sees a least chunk that fits.
A larger size is in the same bin or a later one (`IndexOrder`), and what is below a left child
is smaller than what is below the right one (`LeftLess`), so that the leftmost path from a chunk
meets the least below it (`LeastLeft`). In the request's own bin the least that fits is on the
path of the request, or below the right child of the deepest chunk where the path went left:
where it leaves the path it is to the right (`LeavesLeast`), and a right child deeper on the
path would be smaller and fit as well (`LeastBeside`). If
nothing of the bin fits, nothing hangs there and the next marked bin is taken (`NoneBeside`,
`FirstLeast`). `BestLargeIs` and `BestSmallIs` put these together.

The second half is the order of a ring. `Queue(b, s)` is *the* sequence that begins with the
chunk of size s that is in the trie, follows `bk` and has all chunks of the size. That there is
one is no consequence of `TriesInv`, which admits two rings of a size if one of them has no chunk
in a trie; hence the invariant is `Orderly = TriesInv /\ Waits`, where `Waits` says that each
size has an order (`InOrder`). That there is only one is by induction along the ring (`QueueIs`).
An insertion puts the chunk before the one in the trie, which is the end of the queue
(`WaitsLast`), an unlinking takes out its place and, if that was the first, moves the next one
into the trie (`WaitsOn`). What a search takes is in the trie, so it is the head (`HeadInTrie`,
`TakeHead`). `StepsAre` is that every step of the bins is a step of `BestFit`.

Loops are written as recursive functions, and what they do is proved round by round.
`Iterated` gives the function a loop computes (it is built as the one a set of rounds
agrees on, by the least counterexample), `EachRound` carries a fact from each round to
the next. The prover takes no operator for a parameter, so that they are about functions.

The only other assumptions are the named ones of the modules: the sets of ids, addresses
and sizes and the bounds have their types; the ids of `EventMgr` are finite in number and
not the system's (they have 32 bits); an export table has a name and a ULONG for each of
its entries, which is what is read even behind its end; requests of the heap are padded
already, the granularity divides `size_t`'s range and has room for a segment and the first
large chunk, and `size_t` reaches beyond twice the address space, so that no sum of an
address and the size of a chunk wraps around.

Only model-checked: all liveness (the prover has no rule for fairness).

## 5. Not modelled

* `LoadFilters` beside a running `DoFilter`: the code takes no lock there, and
  nothing calls it. `FilterRoutine`, `ClearAllEvents` and `FixCallStacks` have no
  caller either.
* What happens while static objects are destroyed at the end of `main` with the
  worker still running: `Exit` is one step.
* Handle values: the second `CloseHandle` of a rejected process.
* An image file that is replaced by one of another size, the version information of
  files, and the Qt workers, which are connected to nothing.
* The text of other arguments, tables of names of status codes and options, icons,
  helpers: formatting or pure calls of the system.
* Of the allocator: the contents of blocks, statistics and `mallinfo`, `inspect_all`,
  mspaces (not built), the spin lock itself and `init_mparams`.

## 6. What is left

1. An abstract event log (each accepted message once, in order, with its stack) that
   `EventMgr` implements through a refinement mapping; the handlers of one shape apart
   where their early returns differ.
2. `ModuleMgr` composed with `ProcessMgr`, so that a process id is reused while
   frames of its predecessor are unresolved; files that are replaced.
3. The remaining loader operations (`FltLoad`, `IoConLol`) and the message buffer of
   `Read`.
4. `DlMalloc` composed with `TreeBins`: that the sets of large chunks of the one are
   those of the other, with the best fit of the one the search of the other.
