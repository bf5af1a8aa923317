----------------------------- MODULE WisentServer -----------------------------
(***************************************************************************)
(* WisentServer and the processes that share memory with it.               *)
(*                                                                         *)
(* The server loads the datasets of its command line, then serves /load,   *)
(* /unload, /erase and /stop on the threads of httplib's pool.  The        *)
(* handlers share sharedMemorySegments() and currentSharedMemory() and     *)
(* take no lock.  A handler runs in the steps between which another        *)
(* thread, or a crash, can come.  The first looks the name up; the         *)
(* reference it gets is used by the later ones, and dangles if another     *)
(* thread has erased the entry since.  An erasure unlinks the name, then   *)
(* drops the entry.  A load adopts what exists, looks whether it is        *)
(* mapped, allocates, stores string by string, and replies.  What it       *)
(* writes is the business of JsonToWisent; here a dataset is its path and  *)
(* how many of its strings are stored, in one of three forms: the Wisent   *)
(* format, or a conversion to JSON or BSON.                                *)
(*                                                                         *)
(* Benchmarks are processes of WisentBenchmarks (SharedMemoryData), Scripts*)
(* runs of Aggregation.py, Users people who send the requests of README.md *)
(* by hand.  None of the clients looks at the status of a reply.           *)
(***************************************************************************)
EXTENDS SharedMemorySegment, FiniteSets

CONSTANTS
  Workers,       \* threads of httplib's pool
  Benchmarks, Scripts, Users,
  JsonNames, BsonNames,  \* names with a suffix that benchmarks load as such
  UserForms,     \* forms that users ask for
  Missing,       \* paths that cannot be read or parsed
  Broken,        \* paths with a column that does not load
  Arrays,        \* paths whose document is no object
  Short,         \* paths whose JSON text fits in a string object itself
  CommandLine,   \* sequence of [name, path]
  CommandLineForm,  \* --load-as-json, --load-as-bson
  ForceReload,   \* --force-reload
  Strings,       \* strings of a dataset
  MaxSessions,   \* bound: client sessions and manual requests
  MaxStarts,     \* bound: starts of the server process
  MaxCrashes     \* bound: crashes of the server process

Forms == {"wisent", "json", "bson"}
Clients == Benchmarks \cup Scripts \cup Users
Threads == Workers \cup {"main"}

ASSUME ServerAssumption ==
  /\ JsonNames \subseteq Names /\ BsonNames \subseteq Names /\ UserForms \subseteq Forms
  /\ \A paths \in {Missing, Broken, Arrays, Short} : paths \subseteq Paths
  /\ CommandLineForm \in Forms
  /\ "none" \notin Paths /\ "main" \notin Workers /\ "main" \notin Clients
  /\ Strings \in Nat /\ Strings >= 2
  /\ CommandLine \in Seq([name : Names, path : Paths])
  /\ ForceReload \in BOOLEAN /\ {MaxSessions, MaxStarts, MaxCrashes} \subseteq Nat

Full == Strings + 1

VARIABLES
  memory,    \* see SharedMemorySegment
  phase,     \* "down", "starting", "listening", "stopping"
  nextFile,  \* the next file of the command line
  call,      \* what each thread of the server is doing
  client,    \* where each client is, with which dataset
  prev,      \* loadedFiles of each benchmark process
  failed,    \* history: assertions that failed, each of which ends the server
  sessions, starts, crashes

vars == <<memory, phase, nextFile, call, client, prev, failed, sessions, starts, crashes>>

NoCall == [pc |-> "idle", from |-> "main", name |-> "none", path |-> "none",
           form |-> "none", force |-> FALSE, node |-> 0, root |-> 0, stored |-> 0]
AtHome == [pc |-> "idle", name |-> "none", path |-> "none", form |-> "none", object |-> 0]

\* What a handler is asked for.
Request(name, path, form, force) == [name |-> name, path |-> path, form |-> form, force |-> force]

Init ==
  /\ memory = NewMemory /\ phase = "down" /\ nextFile = 1
  /\ call = [t \in Threads |-> NoCall]
  /\ client = [k \in Clients |-> AtHome]
  /\ prev = [k \in Benchmarks |-> [n \in Names |-> "none"]]
  /\ failed = {} /\ sessions = 0 /\ starts = 0 /\ crashes = 0

(***************************************************************************)
(* What a client does after a reply, and after an error instead of one: no *)
(* server, or one that went while it served the request.  requests raises  *)
(* in a script; the benchmark does not look at the error of httplib.       *)
(***************************************************************************)
AfterReply(k) ==
  CASE k \in Users                             -> "idle"
    [] k \notin Users /\ client[k].pc = "erase" -> "load"
    [] k \notin Users /\ client[k].pc = "load"  -> "open"
    [] OTHER                                   -> "idle"

\* Mutant: a client asks again until it is answered.
AfterErrorAgain(k) == client[k].pc

AfterError(k) == IF k \in Scripts THEN "idle" ELSE AfterReply(k)

\* Each of ks goes on after its reply, or after its error.
Goes(k, replied) == IF replied THEN AfterReply(k) ELSE AfterError(k)

Continue(ks, replied) ==
  /\ client' = [k \in Clients |-> IF k \notin ks THEN client[k]
                                  ELSE IF Goes(k, replied) = "idle" THEN AtHome
                                  ELSE [client[k] EXCEPT !.pc = Goes(k, replied)]]
  /\ prev' = [k \in Benchmarks |-> IF k \in ks /\ client[k].pc = "load"
                                   THEN [prev[k] EXCEPT ![client[k].name] = client[k].path]
                                   ELSE prev[k]]

(***************************************************************************)
(* The life of the process.                                                *)
(***************************************************************************)
\* Requests that are served end in an error.
Dies ==
  /\ memory' = ProcessEnds(memory)
  /\ phase' = "down" /\ call' = [t \in Threads |-> NoCall]
  /\ Continue({k \in Clients : \E t \in Threads : call[t].from = k}, FALSE)
  /\ UNCHANGED nextFile

Fails(assertion) ==
  /\ Dies /\ failed' = failed \cup {assertion}
  /\ UNCHANGED <<sessions, starts, crashes>>

Start ==
  /\ phase = "down" /\ starts < MaxStarts
  /\ phase' = "starting" /\ nextFile' = 1 /\ starts' = starts + 1
  /\ UNCHANGED <<memory, call, client, prev, failed, sessions, crashes>>

Listen ==
  /\ phase = "starting" /\ nextFile > Len(CommandLine) /\ call["main"] = NoCall
  /\ phase' = "listening"
  /\ UNCHANGED <<memory, nextFile, call, client, prev, failed, sessions, starts, crashes>>

Crash ==
  /\ phase # "down" /\ crashes < MaxCrashes /\ Dies
  /\ crashes' = crashes + 1
  /\ UNCHANGED <<failed, sessions, starts>>

\* What is left of main once listen has returned: the pool has been joined.
Deleted == {CommandLine[i].name : i \in DOMAIN CommandLine}
Exit ==
  /\ phase = "stopping" /\ \A t \in Threads : call[t] = NoCall
  /\ memory' = ProcessEnds([memory EXCEPT !.shm = [n \in Names |-> IF n \in Deleted THEN 0 ELSE @[n]]])
  /\ phase' = "down"
  /\ UNCHANGED <<nextFile, call, client, prev, failed, sessions, starts, crashes>>

(***************************************************************************)
(* Requests.  A client whose pc names a request waits for its reply.       *)
(***************************************************************************)
Waiting(k, request) == client[k].pc = request /\ \A t \in Threads : call[t].from # k
Serving(t, k, request) == t \in Workers /\ phase = "listening" /\ call[t] = NoCall /\ Waiting(k, request)

\* The command line's loads reply to nobody.
Reply(k) == Continue({k}, TRUE) /\ UNCHANGED <<failed, sessions, starts, crashes>>

Refused(k) ==
  /\ phase # "listening"
  /\ \E request \in {"erase", "load", "unload", "stop"} : Waiting(k, request)
  /\ Continue({k}, FALSE)
  /\ UNCHANGED <<memory, phase, nextFile, call, failed, sessions, starts, crashes>>

Stop(t, k) ==
  /\ Serving(t, k, "stop")
  /\ phase' = "stopping"
  /\ Reply(k) /\ UNCHANGED <<memory, nextFile, call>>

\* Every handler begins with a look at the map.
Lookup(t, from, r, next) ==
  LET got == createOrGetMemorySegment(memory, r.name) IN
  /\ memory' = got
  /\ call' = [call EXCEPT ![t] = [pc |-> next, from |-> from, name |-> r.name, path |-> r.path,
                                  form |-> r.form, force |-> r.force,
                                  node |-> got.registry[r.name], root |-> 0, stored |-> 0]]
  /\ UNCHANGED <<client, prev, failed, sessions, starts, crashes>>

Asked(k, force) == Request(client[k].name, client[k].path, client[k].form, force)

EraseRequest(t, k) ==
  /\ Serving(t, k, "erase") /\ Lookup(t, k, Asked(k, FALSE), "unlink")
  /\ UNCHANGED <<phase, nextFile>>

UnloadRequest(t, k) ==
  /\ Serving(t, k, "unload") /\ Lookup(t, k, Asked(k, FALSE), "unmap")
  /\ UNCHANGED <<phase, nextFile>>

\* Where a load goes first: only one into the Wisent format, and not forced,
\* adopts an object that exists and is not mapped.
LoadSteps(t, from, r) ==
  Lookup(t, from, r, IF r.form = "wisent" /\ ~r.force THEN "adopt" ELSE "check")

\* Mutant: the option of the command line is given to every load.
LoadRequestForced(t, k) ==
  /\ Serving(t, k, "load") /\ LoadSteps(t, k, Asked(k, ForceReload))
  /\ UNCHANGED <<phase, nextFile>>

LoadRequest(t, k) ==
  /\ Serving(t, k, "load") /\ LoadSteps(t, k, Asked(k, FALSE))
  /\ UNCHANGED <<phase, nextFile>>

\* The option is not passed on to a conversion.
LoadCommandLine ==
  /\ phase = "starting" /\ nextFile <= Len(CommandLine) /\ call["main"] = NoCall
  /\ LoadSteps("main", "main",
               Request(CommandLine[nextFile].name, CommandLine[nextFile].path, CommandLineForm,
                       ForceReload /\ CommandLineForm = "wisent"))
  /\ nextFile' = nextFile + 1 /\ UNCHANGED phase

\* The handler's reference, until it has gone on to another step.
Node(t) == memory.nodes[call[t].node]
Refers(t, pc) == call[t].pc = pc /\ Node(t).alive

UsesDestroyed(t) ==
  /\ call[t].pc \in {"unlink", "unmap", "adopt", "check"} /\ ~Node(t).alive
  /\ Fails("dangling")

Replies(t) == call' = [call EXCEPT ![t] = NoCall] /\ Reply(call[t].from) /\ UNCHANGED <<phase, nextFile>>
GoesOn(t, next) ==
  /\ call' = [call EXCEPT ![t].pc = next]
  /\ UNCHANGED <<phase, nextFile, client, prev, failed, sessions, starts, crashes>>

(***************************************************************************)
(* The rest of /erase and /unload.                                         *)
(***************************************************************************)
EraseUnlink(t) ==
  /\ Refers(t, "unlink")
  /\ memory' = erase(memory, call[t].node) /\ GoesOn(t, "forget")

EraseForget(t) ==
  /\ call[t].pc = "forget"
  /\ memory' = forget(memory, call[t].name) /\ Replies(t)

\* assert(sharedMemory.loaded())
Unload(t) ==
  /\ Refers(t, "unmap")
  /\ IF loaded(memory, call[t].node)
     THEN memory' = unload(memory, call[t].node) /\ Replies(t)
     ELSE Fails("unload: loaded()")

(***************************************************************************)
(* wisent::serializer::load, and bson::serializer::loadAs* for the forms   *)
(* json and bson, on a thread t.                                           *)
(***************************************************************************)
\* Mutant: an object that exists but is not mapped is not adopted.
LoadAdoptNothing(t) ==
  /\ Refers(t, "adopt")
  /\ GoesOn(t, "check") /\ UNCHANGED memory

LoadAdopt(t) ==
  /\ Refers(t, "adopt")
  /\ memory' = (IF exists(memory, call[t].node) THEN load(memory, call[t].node) ELSE memory)
  /\ GoesOn(t, "check")

\* Answered with what is there.
LoadFound(t) ==
  /\ Refers(t, "check") /\ loaded(memory, call[t].node) /\ ~call[t].force
  /\ Replies(t) /\ UNCHANGED memory

\* free destroys the segment of a forced load, to which the next line refers.
\* Loads are forced before the server listens, with no other thread.
LoadSelect(t) ==
  /\ Refers(t, "check") /\ (loaded(memory, call[t].node) => call[t].force)
  /\ memory' = [IF loaded(memory, call[t].node) THEN free(memory, call[t].name) ELSE memory
                   EXCEPT !.current = call[t].node]
  /\ GoesOn(t, "parse")

Current == memory.nodes[memory.current]

\* A conversion has all of the document before it allocates; wisent's second
\* traversal meets a broken column when the block is half full.
Unreadable(t) ==
  \/ call[t].path \in Missing
  \/ call[t].form # "wisent" /\ call[t].path \in Broken
  \/ call[t].form = "bson" /\ call[t].path \in Arrays

\* std::basic_string does not call its allocator for a short text.
Allocates(t) == call[t].form = "json" => call[t].path \notin Short

\* Shared memory is written through currentSharedMemory(), whoever set it.
LoadAllocate(t) ==
  /\ call[t].pc = "parse" /\ ~Unreadable(t) /\ Allocates(t)
  /\ IF ~Current.alive THEN Fails("dangling")
     ELSE IF loaded(memory, memory.current) THEN Fails("malloc: !loaded()")
     ELSE /\ memory' = malloc(memory, call[t])
          /\ call' = [call EXCEPT ![t].pc = "store", ![t].root = Current.object]
          /\ UNCHANGED <<phase, nextFile, client, prev, failed, sessions, starts, crashes>>

\* Mutant: one string more is stored than the dataset has.
LoadStoreOneMore(t) ==
  /\ call[t].pc = "store" /\ call[t].stored <= Strings
  /\ call[t].path \in Broken => call[t].stored = 0
  /\ memory' = realloc(memory, call[t], call[t].stored + 2)
  /\ call' = [call EXCEPT ![t].stored = @ + 1]
  /\ UNCHANGED <<phase, nextFile, client, prev, failed, sessions, starts, crashes>>

LoadStore(t) ==
  /\ call[t].pc = "store" /\ call[t].stored < Strings /\ call[t].form = "wisent"
  /\ call[t].path \in Broken => call[t].stored = 0
  /\ IF ~Current.alive THEN Fails("dangling")
     ELSE IF ~loaded(memory, memory.current) THEN Fails("realloc: loaded()")
     ELSE IF Current.object # call[t].root THEN Fails("realloc: pointer == baseAddress()")
     ELSE /\ memory' = realloc(memory, call[t], call[t].stored + 2)
          /\ call' = [call EXCEPT ![t].stored = @ + 1]
          /\ UNCHANGED <<phase, nextFile, client, prev, failed, sessions, starts, crashes>>

\* A conversion is copied to the block in one go, without another realloc.
LoadCopy(t) ==
  /\ call[t].pc = "store" /\ call[t].stored < Strings /\ call[t].form # "wisent"
  /\ IF \E k \in DOMAIN memory.nodes : memory.nodes[k].object = call[t].root /\ memory.nodes[k].mapped
     THEN /\ memory' = [memory EXCEPT !.objects[call[t].root] = Content(call[t], Full)]
          /\ call' = [call EXCEPT ![t].stored = Strings]
          /\ UNCHANGED <<phase, nextFile, client, prev, failed, sessions, starts, crashes>>
     ELSE Fails("dangling")

\* The exception ends in httplib, or in main and with it the server.
LoadThrows(t) ==
  /\ \/ call[t].pc = "parse" /\ Unreadable(t)
     \/ /\ call[t].pc = "store" /\ call[t].stored = 1
        /\ call[t].path \in Broken /\ call[t].form = "wisent"
  /\ IF t = "main"
     THEN Dies /\ UNCHANGED <<failed, sessions, starts, crashes>>
     ELSE Replies(t) /\ UNCHANGED memory

\* Mutant: the reply does not wait for the last string.
LoadReturnEarly(t) ==
  /\ \/ call[t].pc = "store" /\ call[t].stored >= Strings - 1
     \/ call[t].pc = "parse" /\ ~Unreadable(t) /\ ~Allocates(t)
  /\ Replies(t) /\ UNCHANGED memory

\* The end of a load; of one that had nothing to allocate, without a block.
LoadReturn(t) ==
  /\ \/ call[t].pc = "store" /\ call[t].stored = Strings
     \/ call[t].pc = "parse" /\ ~Unreadable(t) /\ ~Allocates(t)
  /\ Replies(t) /\ UNCHANGED memory

(***************************************************************************)
(* Clients.                                                                *)
(***************************************************************************)
Session(k, pc, name, path, form) ==
  /\ client[k] = AtHome /\ sessions < MaxSessions
  /\ client' = [client EXCEPT ![k] = [pc |-> pc, name |-> name, path |-> path, form |-> form, object |-> 0]]
  /\ sessions' = sessions + 1
  /\ UNCHANGED <<memory, phase, nextFile, call, prev, failed, starts, crashes>>

\* The suffix of a name says what a benchmark has it loaded as.
FormOf(name) == IF name \in JsonNames THEN "json" ELSE IF name \in BsonNames THEN "bson" ELSE "wisent"

\* Mutant: the benchmark relies on /load alone.
BenchmarkBeginsLoading(k) ==
  \E name \in Names, path \in Paths : Session(k, "load", name, path, FormOf(name))

\* SharedMemoryData erases the name first when it asked for another path before.
BenchmarkBegins(k) ==
  \E name \in Names, path \in Paths :
    Session(k, IF path # prev[k][name] THEN "erase" ELSE "load", name, path, FormOf(name))

ScriptBegins(k) ==
  \E name \in Names, path \in Paths : Session(k, "load", name, path, "wisent")

UserAsks(k) ==
  \E name \in Names :
    \/ \E path \in Paths, form \in UserForms : Session(k, "load", name, path, form)
    \/ \E request \in {"unload", "erase", "stop"} : Session(k, request, name, "none", "none")

\* createOrGetMemorySegment in the benchmark's own process creates what is not
\* there, and mapping an empty object throws: the process ends.  A script
\* opens without creating.
Opens(k) ==
  /\ client[k].pc = "open"
  /\ LET opened == IF k \in Scripts THEN memory ELSE OpenOrCreate(memory, client[k].name)
         object == opened.shm[client[k].name]
     IN /\ memory' = opened
        /\ IF object # 0 /\ opened.objects[object].fill > 0
           THEN client' = [client EXCEPT ![k].pc = "mapped", ![k].object = object] /\ UNCHANGED prev
           ELSE /\ client' = [client EXCEPT ![k] = AtHome]
                /\ prev' = [p \in Benchmarks |-> IF p = k THEN [n \in Names |-> "none"] ELSE prev[p]]
  /\ UNCHANGED <<phase, nextFile, call, failed, sessions, starts, crashes>>

\* The mapping goes before the server is asked to unload.
Closes(k) ==
  /\ client[k].pc = "mapped"
  /\ client' = [client EXCEPT ![k].pc = "unload", ![k].object = 0]
  /\ UNCHANGED <<memory, phase, nextFile, call, prev, failed, sessions, starts, crashes>>

Rests ==
  /\ sessions = MaxSessions /\ (phase = "down" => starts = MaxStarts)
  /\ \A k \in Clients : client[k] = AtHome
  /\ UNCHANGED vars

ThreadNext(t) ==
  \/ \E k \in Clients : EraseRequest(t, k) \/ UnloadRequest(t, k) \/ Stop(t, k) \/ LoadRequest(t, k)
  \/ UsesDestroyed(t) \/ EraseUnlink(t) \/ EraseForget(t) \/ Unload(t)
  \/ LoadAdopt(t) \/ LoadFound(t) \/ LoadSelect(t)
  \/ LoadAllocate(t) \/ LoadStore(t) \/ LoadCopy(t) \/ LoadThrows(t) \/ LoadReturn(t)

ClientNext(k) ==
  \/ k \in Benchmarks /\ BenchmarkBegins(k)
  \/ k \in Scripts /\ ScriptBegins(k)
  \/ k \in Users /\ UserAsks(k)
  \/ Refused(k) \/ Opens(k) \/ Closes(k)

Next ==
  \/ Start \/ Listen \/ Crash \/ Exit \/ LoadCommandLine \/ Rests
  \/ \E t \in Threads : ThreadNext(t)
  \/ \E k \in Clients : ClientNext(k)

Spec == Init /\ [][Next]_vars
=============================================================================
