-------------------------- MODULE SharedMemorySegment --------------------------
(***************************************************************************)
(* Named shared memory as the server process sees it.  memory is a record  *)
(*   objects   every shared memory object ever created, with its contents: *)
(*             the dataset written to it, in which form and how far;       *)
(*             fill = 0 is size 0                                          *)
(*   shm       the operating system's name space, 0 for no object          *)
(*   nodes     every SegmentNode that sharedMemorySegments() ever held     *)
(*   registry  sharedMemorySegments(), 0 for no entry                      *)
(*   current   currentSharedMemory(), 0 for nullptr                        *)
(* Objects outlive their name while somebody has them open or mapped; a    *)
(* node whose map entry is erased is destroyed, and a pointer or reference *)
(* to it dangles.                                                          *)
(***************************************************************************)
EXTENDS Integers, Sequences

CONSTANTS Names, Paths

NoData == [path |-> "none", form |-> "none", fill |-> 0]

NewMemory ==
  [objects |-> <<>>, shm |-> [n \in Names |-> 0], nodes |-> <<>>,
   registry |-> [n \in Names |-> 0], current |-> 0]

\* shared_memory_object(open_or_create, name)
OpenOrCreate(m, name) ==
  IF m.shm[name] # 0 THEN m
  ELSE [m EXCEPT !.objects = Append(@, NoData), !.shm[name] = Len(m.objects) + 1]

\* try_emplace: the constructor runs when the name has no entry.
createOrGetMemorySegment(m, name) ==
  IF m.registry[name] # 0 THEN m
  ELSE LET opened == OpenOrCreate(m, name)
           node   == [name |-> name, object |-> opened.shm[name], mapped |-> FALSE, alive |-> TRUE]
       IN [opened EXCEPT !.nodes = Append(@, node), !.registry[name] = Len(m.nodes) + 1]

exists(m, node) == m.objects[m.nodes[node].object].fill > 0
loaded(m, node) == exists(m, node) /\ m.nodes[node].mapped

load(m, node)   == [m EXCEPT !.nodes[node].mapped = TRUE]
unload(m, node) == [m EXCEPT !.nodes[node].mapped = FALSE]

\* The part fill of a dataset, a path in a form.
Content(dataset, fill) == [path |-> dataset.path, form |-> dataset.form, fill |-> fill]

\* truncate and what the caller then writes.
Write(m, node, dataset, fill) ==
  [m EXCEPT !.objects[m.nodes[node].object] = Content(dataset, fill)]

\* Mutant: the new block is not mapped.
mallocUnmapped(m, dataset) == Write(m, m.current, dataset, 1)

\* malloc and realloc go through currentSharedMemory(); the pointer handed to
\* realloc is known by the object it points into.
malloc(m, dataset) == load(Write(m, m.current, dataset, 1), m.current)
realloc(m, dataset, fill) == load(Write(m, m.current, dataset, fill), m.current)

erase(m, node) == [unload(m, node) EXCEPT !.shm[m.nodes[node].name] = 0]

\* Mutant: the entry of the map stays.
forgetKeepsEntry(m, name) == m

\* sharedMemorySegments().erase(name): the entry goes, and the node with it.
forget(m, name) ==
  IF m.registry[name] = 0 THEN m
  ELSE [m EXCEPT !.registry[name] = 0,
                 !.nodes[m.registry[name]] = [@ EXCEPT !.mapped = FALSE, !.alive = FALSE]]

\* wisent::serializer::free, where no other thread can come between its calls.
free(m, name) ==
  LET got == createOrGetMemorySegment(m, name)
  IN forget(erase(got, got.registry[name]), name)

\* The process ends: mappings and registry go, named objects stay.
ProcessEnds(m) ==
  [m EXCEPT !.nodes = [k \in DOMAIN @ |-> [@[k] EXCEPT !.mapped = FALSE, !.alive = FALSE]],
            !.registry = [n \in Names |-> 0], !.current = 0]
=============================================================================
