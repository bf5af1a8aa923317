# Wisent in TLA+

Wisent is a serialization format for JSON trees: a loader turns a JSON file
(and the CSV files it names) into one block of shared memory, which other
processes map and read without parsing. This directory holds a model of the
loader, of the shared memory and of the server with its clients, the TLC
instances that check it, and theorems about it that TLAPS checks.

All paths below are relative to the repository root, `S` stands for
`src/Source/`.

## 1. Inventory

### Parts, state, operations

| Part | State | Operations | Modules |
|---|---|---|---|
| Format, `S/WisentHelpers.h` | Argument Vector, Type Vector, Structure Vector, String Buffer; type tags with a run-length bit | `make*Argument`, `setRLEArgumentFlagOrPropagateTypes`, `storeString`, the accessors | `WisentHelpers`, `JsonToWisent` |
| Loader, `S/WisentSerializer.cpp` | first traversal: `argumentCountPerLayer`, `expressionCount`, `layerIndex`, `wasKeyValue`; second: `cumulArgCountPerLayer`, two stacks, `nextExpressionIndex`, run counter | callback of `json::parse`, SAX handlers, `load` | `JsonToWisent` |
| CSV columns, `S/CsvLoading.hpp` | none | `loadCsvData<T>`, `loadCsvDataToJson<T>`, choice of a column's type | `CsvLoading` |
| Shared memory, `S/SharedMemorySegment.{hpp,cpp}` | named objects of the operating system, `sharedMemorySegments()`, `currentSharedMemory()` | `malloc`, `realloc`, `free`, `erase`, `load`, `unload`, `createOrGetMemorySegment` | `SharedMemorySegment` |
| Server, `S/WisentServer.cpp` | the process, its thread pool, datasets of the command line | start, command-line loads, `/load`, `/unload`, `/erase`, `/stop`, exit | `WisentServer` |
| JSON and BSON conversion, `S/BsonSerializer.cpp` | a block with text or BSON in the same shared memory | `load`, `loadAsJson`, `loadAsBson`, `unload`, `free` | `JsonConversion` (contents), `WisentServer` (segments) |
| C++ client, `SharedMemoryData` in `Benchmarks/WisentBenchmarks.cpp` | `loadedFiles`, a mapping | erase, load, open, map, unmap, unload | `WisentServer` |
| Python client, `Benchmarks/Python/*.py` | a mapping | load, open, map, unmap, unload; an eager and a lazy reader | `WisentServer`; the eager reader's decoding in `WisentHelpers`, the lazy reader in `Readers` |
| C++ reader, `LazyExpression` in `Benchmarks/WisentBenchmarks.cpp`; Swift reader, `WisentParser/WisentParser/main.swift` | a cursor | key lookup, iteration over one type, a query over two columns, split into runs | `Readers` |
| Baseline benchmarks, build and data scripts, options, Xcode project | | | not modelled |

### Interactions

Clients talk to the server over HTTP (`/load?name=..&path=..` and so on) and
share memory with it by *name*: the server writes a named object, the client
opens the same name. The server keeps a registry from names to segments, and a
pointer to the segment that the format's allocator writes to. Handlers run on
the threads of httplib's pool; registry and pointer have no lock. The loader is
called by the handlers and allocates and grows its block through the pointer.
Named objects outlive every process.

### What is hard

* **Two traversals that must agree.** The first only counts; the second writes
  with no bounds check into a block sized by the counts. They keep the same
  bookkeeping in different forms: one has key bits by *depth* and a running layer, the
  other key bits by *layer*. Arguments of one layer share one cursor.
* **Run-length encoding in place.** A run is known only when it breaks, and its
  header and its length are then written over tags that are already there.
* **Exceptions halfway.** A CSV column out of range throws after the block is
  allocated and mapped.
* **Threads.** Handlers interleave at every allocation, and between the unlinking of a
  name and the erasure of its entry.
* **Memory that is not new.** An object that a crash has left is truncated and written again,
  and keeps its old bytes until they are overwritten.
* **Names that outlive processes.** A crash, a restart, an erasure by one client
  while another has the object mapped, a name that holds another path.
* **One name space for three forms.** A name may hold the Wisent format, JSON or
  BSON, and a load answers with what is there; conversions treat an object they find
  differently from the loader.
* **Clients that do not look at replies.**

PROJECT.json lists these hazards at their lines, with the properties that would
catch each one going wrong.

### What makes each part correct

* Loader: stores stay in the block, slices of expressions are disjoint, the
  block is filled, no argument is overwritten, and the block reads back as the
  tree of the document.
* Run lengths: a run lies in one expression's slice and gives back its tags.
* Shared memory: an entry of the registry is the object that clients find.
* Conversions: a dataset has the same cells, of the same kinds, in every form.
* Readers: each finds the arguments that are in the block.
* Server: an answered `/load` leaves a whole dataset; a dataset stays under its
  name until it is erased or replaced by a conversion or a forced load; what a client
  has mapped does not change; every session ends; no assertion of the code fails.

## 2. Modules

    WisentHelpers   CsvLoading                SharedMemorySegment
          \          /                                |
          JsonToWisent                           WisentServer
               |                                      |
          LoadedTree -- ExpressionTree          ServedDatasets --- DatasetStore
            /      \    (abstract)                /         \       (abstract)
       Readers   JsonConversion         MCWisentServer    ServerProofs
            \      /                                          |
         MCJsonToWisent                                  SessionProofs

    LoadedTree -- LoaderProofs -- CursorProofs -- BlockProofs
                                                      |
    Readers, JsonConversion -- ReadersProofs -- DocumentProofs -- TreeProofs

(In the second diagram each module extends the one before it: `TreeProofs` extends
`BlockProofs`, `DocumentProofs` extends `TreeProofs`, and `ReadersProofs` extends
`DocumentProofs`, `Readers` and `JsonConversion`.)

**`WisentHelpers`**: the tags and `setRLEArgumentFlagOrPropagateTypes` on the
Type Vector, a function on `0..n-1`. The run length parameter is a `uint32_t`
while callers count in `uint64_t`, so it is taken modulo `UINT32_RANGE`. `RunOf`
and `ReadTypes` read a slice back the way a sequential reader does (`readArgs`
in `WisentDeserializer.py`).

**`CsvLoading`**: a cell is known by what `std::stol` and `std::stod` do with it
(seven kinds); `loadCsvData` catches `invalid_argument` and lets `out_of_range` through.
`loadCsvDataToJson` is the second copy of the same code, with other results, and is
written from that copy.

**`JsonToWisent`**: `load` on one file. A document is a sequence of parser events;
the first traversal draws it while it counts it, so TLC loads *every* document within the
bounds; the second reads the same events. There is one action per callback case
and per SAX handler; `handleCsvFile` is five actions (table start, column start,
cell, column end, table end), so that the block is looked at between cells too.
`c` is what the callback captures, `w` is `JsonToWisent` with the buffers.
A string takes one place in the String Buffer. `w.wild` records that a store, or the
bookkeeping of a layer, has left its array: what the process does from then on
is undefined and not followed. `leftover` is what the memory of the block holds before: `malloc` only truncates, so a
load that is forced over an object that exists and is not mapped finds old bytes, one value for each vector (a new
object is zero). Of these the code reads one word before it writes it, the root's `startChildOffset`, for the
slot of the document's own argument; `CleanRoot` says that this word is zero. `seen` is a history of the parser at each event, for `LayersAgree` only.

The parameters of `load` that change what is written are the variable `options`.

**`ExpressionTree`**: the tree a document's events spell, with no buffers. Column
types are the narrowest that hold all cells, not a sequence of attempts.
**`LoadedTree`** states the properties and the refinement mapping: it reads the
block (slices, runs, string offsets) as a tree and checks `BlockIsTree`. What it says of the slots of a block
has the premise `CleanRoot`: without it the document's own argument is stored elsewhere, at best in another slot of the
block (after the same dataset, whose root starts at slot 1), at worst outside it (`LoadLeftover`).

**`JsonConversion`**: `load` of `S/BsonSerializer.cpp` on the document that the loader
has read. It keeps no state between events, so it is a function of the document: the array
that each column becomes, or the exception. `FormatsAgree` compares it with the block.

**`Readers`**: what `LazyExpression` of the benchmark (lookup by key, typed iterators, the
query that zips two), the lazy reader of `Aggregation.py` (both generators) and the Swift
reader make of a finished block, each a function of the Type Vector, compared with `ReadTypes`.

**`SharedMemorySegment`**: objects, names, registry nodes and the current pointer
as one record, one operator per method. An object keeps its contents while
somebody has it mapped, though its name is gone. A node whose entry is erased is
dead, and a pointer to it dangles.

**`WisentServer`**: the process (`Start`, `LoadCommandLine`, `Listen`, `Exit`,
`Crash`), the handlers in steps, and the clients. A handler is cut where another thread or a
crash can come. Each begins with its look at the registry (`Lookup`: `EraseRequest`, `UnloadRequest`, `LoadRequest`,
`LoadCommandLine`) and keeps the reference it gets, in `call[t].node`. `free` then unlinks the name (`EraseUnlink`) and after that erases
the entry (`EraseForget`); `unload` asserts and unmaps (`Unload`). `load` maps what exists (`LoadAdopt`, which conversions and
forced loads have not), returns what is mapped (`LoadFound`) or makes its segment the current one (`LoadSelect`);
then come the constructor's `malloc` (`LoadAllocate`), each string's `realloc` (`LoadStore`), the copy of a conversion
(`LoadCopy`), the exception (`LoadThrows`), the return (`LoadReturn`). A reference that is used after another thread has erased its
entry fails as "dangling" (`UsesDestroyed`). The `free` inside a forced load is one step, as loads are forced from the
command line only, before the server listens, with no other thread. A dataset
is its path in a form (`wisent`, `json`, `bson`), and `fill` counts what is stored: 0 is an object of size zero, 1 an
allocated block, `Strings + 1` the whole. A failed `assert` ends the process, as in a
Debug build; the Release build that README.md:80 asks for compiles them out, so
the runs that check `AssertionsHold` and the findings on asserts speak of what the
asserts say, not of what a Release build does after them.

**`DatasetStore`**: what the server is to clients: a name has no dataset or one;
a load fills an empty name, the loads in `Replacing` (conversions, and a command line
with `--force-reload`) any name; erasing empties names.
**`ServedDatasets`** has the properties, the refinement mapping and the fairness.

## 3. Runs

Each passing run's properties all have a mutant, a plausible slip in one
definition, that breaks them.

### Loader

| Run | Bounds | Shows |
|---|---|---|
| `LoadNested` | 8 events, 3 open containers, integers, CSV names and strings; the options off, and on with memory that is new or holds old headers and expressions; minimum run 2, run lengths modulo 4 | type invariant; slices are disjoint, the block is filled, arguments stay, runs stay in slices, and the block is the tree at every event |
| `LoadDeep` | 11 events, 4 containers, booleans; forced loads into new memory and into old bytes with `CleanRoot`; the code's minimum run of 5, lengths modulo 7 | both traversals are on the layer of the nesting (`LayersAgree`), stores are in the block, and runs around 5 and past the wrap |
| `LoadCsv` | 6 events, 2 containers, seven tables; forced loads, as in `LoadNested`; minimum run 3 | the same for CSV files anywhere in a document: each column type, missing cells, no rows, no columns, columns that throw; the JSON conversion agrees (`FormatsAgree`); the C++ iterators and query, the lazy Python reader and the Swift reader on these blocks |
| `LoadLeftover` | 5 events, old bytes with an offset of 99 | **violation** (below) |
| `ReadKeys` | 7 events, the code's minimum run of 5 | **violation** (below) |
| `ReadDoubles` | 6 events, one table, the code's minimum run of 5 | **violation** (below) |

Why the bounds are enough. The bookkeeping of a layer depends on what is open
and on the key bits of the layers, so the smallest documents that could confuse
it have two containers one after the other on a layer, one of them in a key:
8 events, and 11 with a level around them. A minimum run of 2 makes runs start, break, end and
wrap in documents of this size. `UINT32_RANGE` is small so that the wrap of the
length happens: it then leaves the tags as they are or propagates a short run,
and both still read back. `LoadDeep` repeats the runs with the code's own minimum.
`LoadCsv` has a minimum of 3, so that, as in the code, the length of a run is never the tag
of a number. Its tables pair a column of doubles with one of longs whose missing cells are
in other rows, so that the zipped iterators of the query meet runs that do not line up. `IteratorFindsType` says for which lengths it fails (129 for longs and 130 for doubles are
themselves headers, and an iterator that walks through a run of another type takes its length for one: `Unmistaken`), and
`QueryFindsRows` speaks of columns without such a run; `SwiftReadsFirstRun`
holds for expressions with no run after the first slot; a later run misleads the reader.
`LazyReaderFinds` says what the Python generators get right: the arguments of one type among runs
of that type only, and all arguments up to the first outside a run, which `getArguments` repeats for ever.
The old bytes (`Headers` in `MCJsonToWisent`) are those that would mislead most: every type a run header of an expression,
every expression with a slice. With the root's offset 1 instead of 0 the properties say nothing of the block, but
the type invariant and `LayersAgree` still hold, and no action is stuck.
A document that is only a long string reads its offset from the String Buffer, at the same line as `LoadLeftover`:
`StoresInBlock` speaks of documents with an expression, and with `"longstring"` among the `Leaves` of `LoadLeftover` TLC
finds the string first, in new memory too.

### Server

| Run | Bounds | Shows |
|---|---|---|
| `ServeOne` | one thread, one benchmark, a name in each form, two paths (one a short array), 4 sessions | no assertion fails; the benchmark maps what it asked for, whole and in its form; an answered load is whole |
| `ServeShared` | one thread; benchmark, script and user on one name, which the user also asks for as JSON; a command line with `--force-reload`; a path that breaks halfway; 4 sessions, 2 starts, 1 crash | the registry is current; no load uses a destroyed segment; whole datasets stay under those who map them; the server is a `DatasetStore` |
| `ServeThreads` | two threads, a benchmark and a user, two names (one converted), a missing path, 2 sessions, 2 starts, 1 crash | an entry of the registry is out of date only between the two steps of an erasure, whatever is interleaved; every session ends |
| `ServeRace` | two threads, two benchmarks | **violation** |
| `ServeForms` | one user, one name in two forms | **violation** |
| `ServeBroken` | one user, a path that breaks halfway | **violation** |

`Strings = 2` gives a load two steps at which its block is partly written. Four
sessions are enough for two clients to each use a name twice, or for one to
load, another to erase, a third to load again while the first has it mapped.
`ServeOne` has no crash, as a benchmark that meets a restarted server finds the
old process's segments, which `ServeShared` is about; it is the instance of `Alone` in section 4. `ServeShared` has one
thread because with two `ViewsStay` and `ServerIsStore` break behind the finding of `ServeRace`: one load writes another's
segment, or, when its name is erased meanwhile, one that has no name any more (the theorems below have the same premise).
`ViewsStay` sets a client's dataset free exactly while a conversion or a forced load is between
`setCurrentSharedMemory` and its `malloc` on the very object; `ServeShared` reaches those states, by
`/unload` and a JSON load, and by a restart. A deadlock is an error in
every run: `Returned` and `Rests` are the states where everything is meant to have come to an end.

### Fairness

`FairSpec` is weakly fair to each thread of the pool (the operating system
schedules it), to main's own steps, and to a client's own next step (a request to a
server that is gone fails; opening and closing are the client's code). It is not fair to starting
or crashing the server, nor to new sessions. A client waiting for a
reply is served by a thread or meets the end of the process. `SessionsEnd` needs no
more: no handler waits for another.

### Findings

* `LoadLeftover`: `getNextArgumentIndex` (S/WisentSerializer.cpp:129) reads `expressions[0].startChildOffset` for the
  document's own argument before `startExpression` writes it (line 194). In new memory it is zero. A load that is forced over an object which a crash
  has left reads the old bytes, and stores the argument where they say. `ServeShared` reaches such loads: a JSON text under
  the name, a crash, a restart with `--force-reload`. The same line reads `expressions[0]` of a document that has none,
  when `addString` asks it for the slot of a document that is one string. That read lands in the String Buffer, where a
  string of more than eight bytes is taken for an offset.
* `ServeRace`: `assert(pointer == baseAddress())` (S/SharedMemorySegment.hpp:35)
  fails when a second `/load` moves the current pointer.
* `ServeForms`: `/load` with `toJson` of a name that holds the Wisent format is answered
  "Done." and nothing is converted (S/BsonSerializer.cpp:111), and so is the reverse
  (S/WisentSerializer.cpp:260); README.md:118-125 says the dataset is loaded into that form.
* `ServeBroken`: a load that threw leaves its partial block under the name and
  the next `/load` answers "Done." with it.
* `ReadKeys`: `operator[]` compares the length of a run with the tags; 5, the
  shortest length, is the tag of an expression (Benchmarks/WisentBenchmarks.cpp:128).
* `ReadDoubles`: `getTypedArguments` adds `argCount` after every run but assigns it in runs of
  the expected type only (Benchmarks/Python/Aggregation.py:90): a column of doubles that begins with
  a run of missing cells raises in Python, where the C++ query goes on to the numbers.

Not counted as a finding, but visible in the model: `/load` of another path under
a name that has a dataset answers with the old one. The benchmark erases the name
first (`ViewIsRequested` in `ServeOne` and its mutant), the scripts do not. Two clients that
share a name and each `/unload` it break `assert(sharedMemory.loaded())` (S/WisentSerializer.cpp:342);
`AssertionsHold` is checked with one client, whose own sequence of requests never does.
With two threads, a segment is mapped from the moment its block is allocated, so a second `/load` of the name is answered
"Done." (S/WisentSerializer.cpp:260) while the first still writes it (`AnsweredIsWhole`), and an `/erase` unmaps the segment that a load
is writing (S/WisentSerializer.cpp:348), so that `assert(loaded())` (S/SharedMemorySegment.hpp:34) fails at its next realloc.

## 4. Theorems

### The server

`ServerProofs` begins with one lemma per operation of `SharedMemorySegment`: it
keeps `MemoryOK`, whatever the names and the contents. From these it
proves, for every set of threads, clients, names and paths, every command line
and every number of sessions, starts and crashes:

* `ServerTypeCorrect == Spec => []TypeOK`: among other things no thread stores more than the
  dataset has, and no name, entry or call refers to an object or node that does not exist.
* `RegistryStaysCurrent == Spec => []RegistryIsCurrent`: the entry of a name is the
  object under it, unless a thread has unlinked the name and not erased the entry yet (`Unlinked`). Two runs check it
  on instances; the theorem covers two and more threads, whose steps are interleaved in any way, force reload included.
  It is not obvious that a thread which ends an erasure leaves a current entry, or none: another may have looked the
  name up in between and still hold the old entry, or have erased it and had a new one made. It does, as it drops
  whatever entry the name has by then.

The assumptions are `ServerAssumption` and nothing else. `RegistryIsCurrent` alone
is not inductive: a load writes through `memory.current`, `LoadCopy` through the
object the thread remembers, an erasure through the node it has looked up, and each could be nothing. `IInv` adds that a handler under
way has a name and a node that bears this name, that a load has a path and from `LoadSelect` on a current segment, that the object in
`call[t].root` exists, and that a client with a request has a name and a path. That an erasure
cannot disturb another name's entry needs that a node carries the name of the entry
that holds it, which is part of `MemoryOK` (two entries that shared a node would have one name).
The proof of the step goes by actions, each leaning on the lemma of the operation it calls.

The last part of `ServerProofs` is about requests that are served one at a time
(`OneWorker`: the pool has one thread; `main` has stopped loading before it listens):

* `SerialViewsStay == Spec => ViewsStay`
* `SerialServerIsStore == Spec => ServerIsStore`, the refinement of `DatasetStore`
* `SerialLoadsSound == Spec => [](NoDangling /\ ReallocFindsPointer)`, which needs `NamesDiffer`
  as well: the files of the command line have different base names.

`OneWorker` is needed: with two threads `ServeRace` finds `ReallocFindsPointer` broken, and the
other properties break behind it. So is `NamesDiffer`: under `--force-reload` a second file of
the same base name is loaded while the first is mapped, and the reference at
S/WisentSerializer.cpp:264 dangles. The inductive invariant `SInv` joins `IInv` with
`Tidy` (no two names share an object, and an object of size 0 was never written), `LoadsOK` (main
loads only while the server starts, the thread of the pool only after that, so at most one handler is under
way, and the node that it has looked up stays the entry of its name), `Asking` (a load that has adopted what exists finds it
mapped), `Parsing` (a load before its `malloc` has made the entry of its own name current, and that entry is
not mapped, or is gone if the load was forced) and `Storing` (after it, the current segment is mapped, is
the object in `call[t].root`, and holds the load's own path and form, up to the string it has come to). From these a
step of a load can change one object only, the one that was unmapped when the load began: a client can
have that object mapped only if a conversion or a forced load is about to truncate it, which is the
exception `ViewsStay` names.

`SessionProofs` goes on to what a client gets:

* `SerialAnswersWhole == Spec => AnsweredIsWhole`, from `OneWorker`, `NamesDiffer` and `NothingBreaks` (no crash,
  and no path that breaks halfway): a load that is answered leaves the whole dataset, for any set of clients.
* `AloneFindsRequested == Spec => []ViewIsRequested` and `AloneNeverAsserts == Spec => []AssertionsHold`, from
  `Alone`: one thread, `NothingBreaks`, no command-line files and one benchmark process as the only client.

`NothingBreaks` is needed: `ServeBroken` shows the partial block that an exception leaves and the next load answers
with, and a crash leaves the same. `Alone` is needed: two clients that share a name can each `/unload` it, which fails an
assertion, and a script never erases the name that it loads another path under. No bound is left in the theorems:
`ServeOne` checks four sessions of two paths, they hold for every number of sessions, names and paths.
`BInv` adds to the invariant of `SerialLoadsSound` that a load stores in the segment of its own name (`StoreNamed`), that a name which no load
is storing has all of a dataset or nothing (`WholeOK`), and that a call from a client carries what the client waits for
(`CallersOK`). `AInv` adds what the benchmark *believes*: a name with a dataset has the path that the benchmark asked for last
under it, or none that it remembers, in the name's own form (`HoldsOK`; this is where its erasing before loading another
path counts); a dataset that it uses is the one under the name, and the server has it mapped until the request to unload
(`UsingOK`, from which `unload` finds it loaded); a name that is unlinked has nothing until the erasure is answered (`OwnOK`); and
before the server listens all names are empty (`QuietOK`).

### The loader

Five modules prove about the loader, for every document (of any length and depth), every CSV file and
every setting of the options, minimum run and width of the run length. `LoaderProofs`, `CursorProofs` and `BlockProofs`:

* `LoaderTypeCorrect == Spec => []TypeOK`: among other things the two stacks of `JsonToWisent` are as
  high as one another and never empty, and a counter never goes below zero.
* `TraversalsAgree == Spec => []LayersAgree`: the callback and the handlers are on the same layer.

and, given `CleanRoot`:

* `LoadStaysInBlock == Spec => []StoresInBlock`: the handlers, which have no bounds check, do not leave the block.
* `SlicesNeverMeet == Spec => []SlicesDisjoint`, `LoadFillsBlock == Spec => []BlockFilled` and
  `WrittenArgumentsStay == Spec => ArgumentsStay`: no slot has two owners, none is left over, none is written twice.

and in `TreeProofs` and `DocumentProofs`, given `CleanRoot` too:

* `BlockTellsDocument == Spec => BlockIsTree`: the second traversal implements `ExpressionTree`. Each handler is one
  step of it, or none, on the tree that is read of the Argument, Type and Structure Vectors and the String Buffer.
* `RunsStayInside == Spec => []RunsInsideSlices`: a run of the Type Vector ends in the slice it is in.

The assumptions are `LoadAssumption` (of which the proofs use that the columns of a table have
the same number of rows) and `RunLengthAssumption`. `CleanRoot` is a conjunct of the properties' premises, not an assumption on
the constants: `LoadLeftover` breaks `StoresInBlock` without it. It is used at one place, where the first argument
of a document is stored (`InvBlock`: `Spec => [](CleanRoot => ...)`); the first two theorems need it not. None of the properties is inductive: what the second
traversal does depends on everything that the first one has counted. The argument goes in six steps.

1. The first traversal (`LoaderProofs`). `HistoryOK` speaks of every event of the document so far. The
   nests of the open containers increase, so that the key bits by *depth* of the callback and those by *layer* of the
   handlers determine one another (`KeyDepths`, `KeyLayers`); the callback's layer is
   `Nest(parser)`; each event adds `Adds` to the count of its layer and nothing is taken away, so the
   counts before an event are no more than the final ones (`Below`). Between its first and its last event a document is not
   complete, so only the first handler can be on layer 0.
2. The operations of the second. `WriterOK`: both stacks are as high as the layer plus one,
   what is on them is in the Structure Vector, and the run under way lies in the expression on top.
3. The two joined: `PlaceOK` says that the writer at event `pos` has the layer and the key
   bits that the parser had there, one or two layers deeper inside a CSV file. This gives the first two theorems.
4. Where the cursors stand (`CursorProofs` and `BlockProofs`). The Argument Vector has a part for each layer, as long as
   its final count. `UsedAt` is how many slots of each part are used at an event (and column and row of a
   CSV file): what the first traversal had *counted* there. `FilledTo` says that the cursor of a layer,
   which is the iterator of the expression open on it or else its entry in
   `cumulArgCountPerLayer`, is the base of the part plus these, and that the slices of the
   expressions partition the used slots. A store takes the next slot of its part; opening and closing an expression moves
   a cursor between the stack and `cumulArgCountPerLayer`. The next slot is in its part because its event
   was counted. At the end the counts are the final ones and the block is full.
5. A slice read back (`TreeProofs`). `RunOf` is shown to be the one function that satisfies its recursion, and with that
   `Encoded(types, s, e, run)` says what the writer keeps of a slice `s .. e-1`: a header has a plain tag below
   its bit, the slots behind its length keep that tag, and the run ends before the last `run` slots, which hold
   one tag and no header yet: the run under way. `RunsInsideSlices` is not inductive: that runs end in their slice says nothing
   of the tags which `setRLEArgumentFlagOrPropagateTypes` is about to overwrite. The run under way has to be pure
   when it is marked, and it has to be *outside* the finished ones, which the reader goes through first.
   One more tag, a mark of the run, or a propagated tag (past the wrap of the 32-bit length) keep `Encoded` of every slice and
   what `ReadTypes` makes of it, but for the new slot.
6. The tree (`TreeProofs`, `DocumentProofs`). `Legible` says that every slice is `Encoded`, with a run under way in that of the
   innermost open expression only (`RunIn`), that strings and heads are in the String Buffer, and that the key bits name
   exactly the open key expressions. From it and step 4 follows what every handler does to the nodes: a value appends one kid to the last
   node of the path, a container or key appends a node and its kid and extends the path, an end shortens it. `TreeOK` adds
   that a cell is read only of a column that has a type.

A document that is one long string is the exception in `FillOK`: it has no expression, and its store
may leave the block (section 3). `StoresInBlock` and `SlicesDisjoint` speak of the other cases.

### Conversion and readers

`ReadersProofs`, of every finished block of every document that was loaded into memory with `CleanRoot` (`Finished`):

* `FormatsConvertAlike == Spec => []FormatsAgree`: `loadCsvDataToJson`, the second copy of the column code, accepts the
  columns that `loadCsvData` does, and gives the same types and missing cells.
* `IteratorFinds == Spec => []IteratorFindsType` and `QueryFinds == Spec => []QueryFindsRows`: the
  typed iterators of the C++ reader, one alone and two zipped.
* `SwiftReads == Spec => []SwiftReadsFirstRun`: the Swift reader, up to the first run that is not at the start.
* `LazyReaderReads == Spec => []LazyReaderFinds`: the two generators of the Python reader.

They follow from `BlockInv` and `TreeOK`, which give every slice as `Encoded`, and the two about columns from `SheetOK` as well: a
node `column` has one kid per cell that was read, of the cell's type, and only the column under way is shorter
(`Columned`); every column the load is past had a type, and a load that failed stands at one that has none.
The iterators need `RLE_MINIMUM_SIZE > ARGUMENT_TYPE_DOUBLE`, in the code 5 > 2: the run length 2 would be read as the tag of a
double. The lengths 129 and 130, which are headers, no minimum excludes, and a run of 130 missing cells in a column of doubles is an ordinary file. So
the properties say it (`Unmistaken`): the proof of `QueryFindsRows` does not go through without, and the runs, whose columns
are shorter, could not have shown it.

`RunOf`, the iterators and the generators are recursive functions, each the `CHOOSE` of a solution of its equation, so the proofs
first build a solution, one slot longer at a time (induction, as a proof that there is no least counterexample). For `RunOf` it is shown to be the only
one. For the generators it is not: at a slot inside a run, which no generator comes to, a zero may stand for a length, and the
equation then says nothing. `YieldsExist` finds a value there too, and `YieldsTyped` and `YieldsAll` go only from header to
header.

### Only model-checked

`SessionsEnd`, which is liveness, and what the code gets wrong, which the six runs that find a violation show.

## 5. Left out, and why

* Bytes, alignment, growth of the String Buffer's capacity, and addresses that
  move when a segment is remapped: a string is one place, a base address is the object.
* A data race *inside* `std::unordered_map`: no outcomes to enumerate. Each single
  operation on the registry (`try_emplace`, `erase`) is one step.
* What old bytes are where: they are one value for each vector (`Leftovers`), as they follow no layout of the new block.
* What the JSON library does: parsing, the text or BSON of a document. A conversion's text
  goes to shared memory in one piece.
* `averageTimings`, VERBOSE output, parsing of options and parameters.
* CSV files named on the command line: the server reads them and drops the result.
* What a build does with a destroyed segment: a load that uses one ends in the model ("dangling").
* The consumers of the Python generators (`at`, `getMapLazyValue`), `operator[]` by position of the
  C++ reader, and the Swift reader's aggregation and printing: they compare values, which the model has not.
* The baseline benchmarks, VTune support, build files and data scripts.

## 6. Plan

Done, in this order: format and loader, `ExpressionTree`, shared memory, server
and clients, `DatasetStore`, `Readers`, theorems on types and the registry, conversions and
forms, the lazy Python reader and the zipped query, forced loads, theorems on the server
with one thread, theorems on the loader, on the run headers, the refinement of `ExpressionTree`, the
conversion and the readers, and on what clients of a server with one thread get.

Next: a column of 130 missing cells, for the lengths that `Unmistaken` leaves out (TLC evaluates the readers'
recursive functions on its stack, which a block of that many slots overflows); what
`AloneFindsRequested` says for more than one benchmark, each with names of its own, where only the
current pointer connects them; and `ViewsStay` with more threads, when no two loads overlap.
