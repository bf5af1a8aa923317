---------------------------- MODULE ServedDatasets ----------------------------
(***************************************************************************)
(* What the clients of WisentServer rely on.                               *)
(***************************************************************************)
EXTENDS WisentServer

TypeOK ==
  /\ memory.objects \in Seq([path : Paths \cup {"none"}, form : Forms \cup {"none"}, fill : 0 .. Full])
  /\ memory.shm \in [Names -> 0 .. Len(memory.objects)]
  /\ memory.nodes \in Seq([name : Names, object : 1 .. Len(memory.objects),
                           mapped : BOOLEAN, alive : BOOLEAN])
  /\ memory.registry \in [Names -> 0 .. Len(memory.nodes)]
  /\ memory.current \in 0 .. Len(memory.nodes)
  /\ phase \in {"down", "starting", "listening", "stopping"}
  /\ nextFile \in 1 .. Len(CommandLine) + 1
  /\ call \in [Threads -> [pc : {"idle", "unlink", "forget", "unmap", "adopt", "check", "parse", "store"},
                           from : Clients \cup {"main"}, name : Names \cup {"none"},
                           path : Paths \cup {"none"}, form : Forms \cup {"none"}, force : BOOLEAN,
                           node : 0 .. Len(memory.nodes), root : Nat, stored : 0 .. Strings]]
  /\ client \in [Clients -> [pc : {"idle", "erase", "load", "open", "mapped", "unload", "stop"},
                             name : Names \cup {"none"}, path : Paths \cup {"none"},
                             form : Forms \cup {"none"}, object : Nat]]
  /\ prev \in [Benchmarks -> [Names -> Paths \cup {"none"}]]
  /\ sessions \in 0 .. MaxSessions /\ starts \in 0 .. MaxStarts /\ crashes \in 0 .. MaxCrashes

Complete(object) == memory.objects[object].fill = Full

(***************************************************************************)
(* The server's entry for a name has the object that clients find under    *)
(* that name: what it loads is what they open.  While a thread has         *)
(* unlinked a name and not yet dropped its entry, the entry is out of      *)
(* date; it is current again when that thread has come to its reply,       *)
(* whatever the others have done with the name meanwhile.                  *)
(***************************************************************************)
Unlinked == {call[t].name : t \in {u \in Threads : call[u].pc = "forget"}}
RegistryIsCurrent ==
  \A n \in Names : memory.registry[n] # 0 =>
    LET node == memory.nodes[memory.registry[n]]
    IN node.alive /\ node.name = n /\ (n \in Unlinked \/ node.object = memory.shm[n])

(***************************************************************************)
(* A /load that is answered by load's return, not by an exception, leaves  *)
(* the whole of a dataset under the name; but for a JSON text so short     *)
(* that no shared memory is allocated for it.                              *)
(***************************************************************************)
Answers(t, k) ==
  call[t].from = k /\ (LoadFound(t) \/ LoadReturn(t))
Answered(k) == memory'.objects[memory'.shm[client[k].name]]
AnsweredIsWhole ==
  [][\A t \in Workers, k \in Clients :
       Answers(t, k) /\ ~(client[k].form = "json" /\ client[k].path \in Short) =>
         memory'.shm[client[k].name] # 0 /\ Answered(k).fill = Full]_vars

(***************************************************************************)
(* README.md:115-125, a /load answered leaves the dataset in the form that *)
(* was asked for.                                                          *)
(***************************************************************************)
AnsweredInForm ==
  [][\A t \in Workers, k \in Clients : Answers(t, k) => Answered(k).form = client[k].form]_vars

(***************************************************************************)
(* What a client has mapped is the dataset it asked for, all of it, in the *)
(* form it asked for.                                                      *)
(***************************************************************************)
ViewIsRequested ==
  \A k \in Clients : client[k].pc = "mapped" =>
    memory.objects[client[k].object] = Content(client[k], Full)

(***************************************************************************)
(* A client's whole dataset does not change under it, while others erase   *)
(* and load the name again, and through crashes of the server; but for a   *)
(* conversion or a forced load of the name, which truncate what the server *)
(* has not mapped.                                                         *)
(***************************************************************************)
Truncates(t) == call[t].pc = "parse" /\ (call[t].form # "wisent" \/ call[t].force)
Undisturbed(k) ==
  /\ client[k].pc = "mapped" /\ Complete(client[k].object)
  /\ \A t \in Threads : Truncates(t) => Current.object # client[k].object
ViewsStay ==
  [][\A k \in Clients : Undisturbed(k) =>
       memory'.objects[client[k].object] = memory.objects[client[k].object]]_vars

(***************************************************************************)
(* Assertions of the source, and the reference that no load may use after  *)
(* free has destroyed its segment.                                         *)
(***************************************************************************)
AssertionsHold == failed = {}
NoDangling == "dangling" \notin failed
ReallocFindsPointer == "realloc: pointer == baseAddress()" \notin failed

(***************************************************************************)
(* The server is a DatasetStore, where a name has a dataset from the       *)
(* moment its block is allocated, whether or not it is ever completed.     *)
(***************************************************************************)
Dataset(path, form) == [path |-> path, form |-> form]
Datasets == {Dataset(path, form) : path \in Paths, form \in Forms}
DatasetOf(n) ==
  IF memory.shm[n] = 0 THEN Dataset("none", "none")
  ELSE Dataset(memory.objects[memory.shm[n]].path, memory.objects[memory.shm[n]].form)

\* Conversions, and with --force-reload the files of the command line.
Replacing ==
  [name : Names, dataset : {d \in Datasets : d.form # "wisent"}]
    \cup {[name |-> CommandLine[i].name, dataset |-> Dataset(CommandLine[i].path, "wisent")] :
            i \in {j \in DOMAIN CommandLine : ForceReload}}

Store == INSTANCE DatasetStore
           WITH Empty <- Dataset("none", "none"), dataset <- [n \in Names |-> DatasetOf(n)]
ServerIsStore == Store!Spec

(***************************************************************************)
(* Every session comes to its end when no thread and no client stands      *)
(* still: no handler waits for another, and a request to a server that is  *)
(* gone fails.                                                             *)
(***************************************************************************)
Fairness ==
  /\ \A t \in Threads : WF_vars(ThreadNext(t))
  /\ \A k \in Clients : WF_vars(Refused(k) \/ Opens(k) \/ Closes(k))
  /\ WF_vars(LoadCommandLine \/ Listen \/ Exit)
FairSpec == Spec /\ Fairness
SessionsEnd == \A k \in Clients : client[k] # AtHome ~> client[k] = AtHome
=============================================================================
