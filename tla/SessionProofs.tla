---------------------------- MODULE SessionProofs -----------------------------
(***************************************************************************)
(* What the clients of a server with one thread get: theorems for every    *)
(* set of names and paths, and every number of sessions.  The first is     *)
(* about any set of clients, where no load breaks off; the second about    *)
(* one benchmark process that has the server to itself.                    *)
(***************************************************************************)
EXTENDS ServerProofs

(***************************************************************************)
(* What a client finds under a name.                                       *)
(***************************************************************************)
View(m, n) == IF m.shm[n] = 0 THEN NoData ELSE m.objects[m.shm[n]]
SameViews(m, r) == \A n \in Names : View(r, n) = View(m, n)
Mapped(m, n) == m.registry[n] # 0 /\ m.nodes[m.registry[n]].mapped

\* A view of a name is an object, or nothing.
LEMMA ViewType ==
  ASSUME NEW m, MemoryOK(m), NEW n \in Names
  PROVE  View(m, n) \in Object /\ View(m, n).fill \in 0 .. Full
<1>1. NoData \in Object
  BY ServerAssumption DEF NoData, Object, Full
<1>2. m.objects \in Seq(Object) /\ m.shm[n] \in 0 .. Len(m.objects)
  BY DEF MemoryOK, MemoryType
<1>3. m.shm[n] # 0 => m.objects[m.shm[n]] \in Object
  BY <1>2
<1> QED BY <1>1, <1>3 DEF View, Object

\* An object that is added is empty, as the name without one was.
LEMMA OpenOrCreateView ==
  ASSUME NEW m, MemoryOK(m), NEW name \in Names
  PROVE  SameViews(m, OpenOrCreate(m, name))
<1> DEFINE o == OpenOrCreate(m, name)
<1>1. CASE m.shm[name] # 0
  BY <1>1 DEF OpenOrCreate, SameViews
<1>2. CASE m.shm[name] = 0
  <2>1. o = [objects |-> Append(m.objects, NoData),
             shm |-> [m.shm EXCEPT ![name] = Len(m.objects) + 1],
             nodes |-> m.nodes, registry |-> m.registry, current |-> m.current]
    BY <1>2 DEF OpenOrCreate, MemoryOK, MemoryType
  <2>2. /\ Len(m.objects) \in Nat
        /\ \A i \in 1 .. Len(m.objects) : o.objects[i] = m.objects[i]
        /\ o.objects[Len(m.objects) + 1] = NoData
    BY <2>1 DEF MemoryOK, MemoryType
  <2>3. /\ \A n \in Names : o.shm[n] = IF n = name THEN Len(m.objects) + 1 ELSE m.shm[n]
        /\ \A n \in Names : m.shm[n] \in 0 .. Len(m.objects)
    BY <2>1 DEF MemoryOK, MemoryType
  <2> HIDE DEF o
  <2>4. ASSUME NEW n \in Names PROVE View(o, n) = View(m, n)
    <3>1. CASE n = name
      BY <1>2, <2>2, <2>3, <3>1 DEF View
    <3>2. CASE n # name
      <4>1. o.shm[n] = m.shm[n] /\ (m.shm[n] # 0 => m.shm[n] \in 1 .. Len(m.objects))
        BY <2>2, <2>3, <3>2
      <4> QED BY <2>2, <4>1 DEF View
    <3> QED BY <3>1, <3>2
  <2> QED BY <2>4 DEF SameViews, o
<1> QED BY <1>1, <1>2

\* An entry that is added to the registry is mapped by nobody.
LEMMA CreateOrGetView ==
  ASSUME NEW m, MemoryOK(m), NEW name \in Names
  PROVE  LET g == createOrGetMemorySegment(m, name) IN
         /\ SameViews(m, g)
         /\ m.registry[name] # 0 => g = m
<1> DEFINE g == createOrGetMemorySegment(m, name)
           o == OpenOrCreate(m, name)
<1>1. SameViews(m, g)
  <2>1. CASE m.registry[name] # 0
    BY <2>1 DEF createOrGetMemorySegment, SameViews
  <2>2. CASE m.registry[name] = 0
    <3>1. MemoryOK(o) /\ SameViews(m, o)
      BY OpenOrCreateOK, OpenOrCreateView
    <3>2. g.objects = o.objects /\ g.shm = o.shm
      <4> HIDE DEF o
      <4>1. \A node : [o EXCEPT !.nodes = Append(@, node), !.registry[name] = Len(m.nodes) + 1].objects = o.objects
                     /\ [o EXCEPT !.nodes = Append(@, node), !.registry[name] = Len(m.nodes) + 1].shm = o.shm
        BY <3>1 DEF MemoryOK, MemoryType
      <4> QED BY <2>2, <4>1 DEF createOrGetMemorySegment, o
    <3> HIDE DEF g, o
    <3> QED BY <3>1, <3>2 DEF SameViews, View
  <2> QED BY <2>1, <2>2
<1>2. m.registry[name] # 0 => g = m
  BY DEF createOrGetMemorySegment
<1> QED BY <1>1, <1>2

\* The same objects under the same names are the same views.
LEMMA ViewsOfSame ==
  ASSUME NEW m, NEW r, r.objects = m.objects, r.shm = m.shm
  PROVE  SameViews(m, r)
  BY DEF SameViews, View

\* A name that is freed has nothing, and no other name changes.
LEMMA FreeView ==
  ASSUME NEW m, MemoryOK(m), NEW name \in Names
  PROVE  \A n \in Names : View(free(m, name), n) = IF n = name THEN NoData ELSE View(m, n)
<1> DEFINE g == createOrGetMemorySegment(m, name)
           r == free(m, name)
<1>1. SameViews(m, g)
  BY CreateOrGetView
<1>2. r.objects = g.objects /\ \A n \in Names : r.shm[n] = IF n = name THEN 0 ELSE g.shm[n]
  BY FreeOK
<1> HIDE DEF g, r
<1> QED BY <1>1, <1>2 DEF SameViews, View, r

Written(m, r, content) ==
  r.shm = m.shm /\ r.objects = [m.objects EXCEPT ![m.nodes[m.current].object] = content]

\* A write through the current segment, of a name's load, is seen under that name.
LEMMA WriteView ==
  ASSUME NEW m, MemoryOK(m), Tidy(m), NEW name \in Names, m.current # 0, m.registry[name] = m.current,
         EntryCurrent(m, name), NEW r, NEW content, Written(m, r, content)
  PROVE  \A n \in Names : View(r, n) = IF n = name THEN content ELSE View(m, n)
<1> DEFINE i == m.nodes[m.current].object
<1>1. i = m.shm[name] /\ i \in 1 .. Len(m.objects) /\ i # 0
  BY DEF MemoryOK, MemoryType, EntryCurrent
<1>2. \A n \in Names \ {name} : m.shm[n] # i
  BY <1>1 DEF Tidy
<1>3. /\ r.objects[i] = content /\ \A j \in 1 .. Len(m.objects) : j # i => r.objects[j] = m.objects[j]
      /\ r.shm = m.shm
  BY <1>1 DEF Written, MemoryOK, MemoryType
<1> HIDE DEF i
<1>4. ASSUME NEW n \in Names PROVE View(r, n) = IF n = name THEN content ELSE View(m, n)
  <2>1. m.shm[n] \in 0 .. Len(m.objects) /\ Len(m.objects) \in Nat
    BY DEF MemoryOK, MemoryType
  <2>2. m.shm[n] = 0 \/ m.shm[n] \in 1 .. Len(m.objects)
    BY <2>1
  <2> QED BY <1>1, <1>2, <1>3, <2>2 DEF View
<1> QED BY <1>4

\* While no name is unlinked, every entry of the server is current.
LEMMA EntriesAreCurrent ==
  ASSUME SInv, OneWorker, NEW t \in Threads, call[t].pc \notin {"idle", "forget"}
  PROVE  \A n \in Names : EntryCurrent(memory, n)
<1>1. \A u \in Threads : call[u].pc # "forget"
  BY OthersIdle DEF Idle, NoCall
<1> QED BY <1>1 DEF SInv, IInv, EntriesCurrent, Unlinked

\* A handler's look at the map changes nothing of a name.
LEMMA LookupView ==
  ASSUME SInv, NEW t, NEW from, NEW r, r.name \in Names, NEW next, Lookup(t, from, r, next)
  PROVE  SameViews(memory, memory') /\ (Mapped(memory, r.name) => Mapped(memory', r.name))
<1>1. memory' = createOrGetMemorySegment(memory, r.name) /\ MemoryOK(memory)
  BY DEF Lookup, SInv, IInv
<1> QED BY <1>1, CreateOrGetView DEF Mapped

\* A name that is unlinked has nothing, and no other name changes.
LEMMA UnlinkView ==
  ASSUME SInv, NEW t \in Threads, EraseUnlink(t)
  PROVE  \A n \in Names : View(memory', n) = IF n = call[t].name THEN NoData ELSE View(memory, n)
<1>1. /\ call[t].pc = "unlink" /\ call[t].node \in 1 .. Len(memory.nodes)
      /\ memory.nodes[call[t].node].name = call[t].name /\ call[t].name \in Names
  BY HandlerPhase DEF EraseUnlink, Refers, Referring
<1>2. /\ NodeMaps(memory, memory', call[t].node, FALSE)
      /\ \A n \in Names : memory'.shm[n] = IF n = call[t].name THEN 0 ELSE memory.shm[n]
  BY <1>1, EraseOK DEF EraseUnlink, SInv, IInv
<1> QED BY <1>2 DEF View, NodeMaps

\* Dropping an entry changes nothing of what the names have.
LEMMA ForgetView ==
  ASSUME SInv, NEW t \in Threads, EraseForget(t)
  PROVE  SameViews(memory, memory')
<1>1. call[t].pc = "forget" /\ call[t].name \in Names
  BY HandlerPhase DEF EraseForget, Referring
<1> QED BY <1>1, ForgetOK, ViewsOfSame DEF EraseForget, SInv, IInv

\* Mapping a segment, or unmapping it, changes nothing of a name either.
LEMMA MapView ==
  ASSUME SInv, NEW t \in Threads, call[t].pc \in Referring,
         memory' = load(memory, call[t].node) \/ memory' = unload(memory, call[t].node) \/ UNCHANGED memory
  PROVE  SameViews(memory, memory')
<1>1. call[t].node \in 1 .. Len(memory.nodes) /\ MemoryOK(memory)
  BY HandlerPhase DEF Referring, SInv, IInv
<1>2. ASSUME NEW b \in BOOLEAN, memory' = WithMapped(memory, call[t].node, b) PROVE SameViews(memory, memory')
  <2>1. NodeMaps(memory, memory', call[t].node, b) /\ memory'.shm = memory.shm
    BY <1>1, <1>2, MapKeeps
  <2> QED BY <2>1, ViewsOfSame DEF NodeMaps
<1>3. CASE UNCHANGED memory
  BY <1>3 DEF SameViews
<1> QED BY <1>2, <1>3 DEF load, unload, WithMapped

\* A load that finds its name mapped finds something in it.
LEMMA FoundView ==
  ASSUME SInv, OneWorker, NEW t \in Threads, LoadFound(t)
  PROVE  /\ UNCHANGED memory /\ Mapped(memory, call[t].name)
         /\ View(memory, call[t].name).fill > 0
<1>1. /\ call[t].pc = "check" /\ call[t].node \in 1 .. Len(memory.nodes) /\ call[t].name \in Names
      /\ memory.registry[call[t].name] = call[t].node
  BY HandlerPhase DEF LoadFound, Refers, Referring, CallSound
<1>2. EntryCurrent(memory, call[t].name)
  BY <1>1, EntriesAreCurrent
<1>3. UNCHANGED memory /\ loaded(memory, call[t].node)
  BY DEF LoadFound
<1>4. memory.nodes[call[t].node].object # 0
  BY <1>1 DEF SInv, IInv, MemoryOK, MemoryType
<1> QED BY <1>1, <1>2, <1>3, <1>4 DEF EntryCurrent, View, Mapped, loaded, exists

\* A load that sets the current segment frees the name before only if it is forced.
LEMMA SelectView ==
  ASSUME SInv, NEW t \in Threads, LoadSelect(t)
  PROVE  /\ ~call[t].force => SameViews(memory, memory')
         /\ \A n \in Names : View(memory', n) \in {View(memory, n), NoData}
<1> DEFINE c == call[t]
           k == c.node
           base == IF loaded(memory, k) THEN free(memory, c.name) ELSE memory
<1>1. /\ c.name \in Names /\ k \in 1 .. Len(memory.nodes) /\ MemoryOK(memory)
      /\ loaded(memory, k) => c.force
  BY HandlerPhase DEF LoadSelect, Refers, Referring, SInv, IInv
<1>2. memory' = [base EXCEPT !.current = k]
  BY DEF LoadSelect
<1>3. /\ MemoryOK(base) /\ (~c.force => SameViews(memory, base))
      /\ \A n \in Names : View(base, n) \in {View(memory, n), NoData}
  <2>1. CASE loaded(memory, k)
    BY <1>1, <2>1, FreeOK, FreeView
  <2>2. CASE ~loaded(memory, k)
    BY <1>1, <2>2 DEF SameViews
  <2> QED BY <2>1, <2>2
<1> HIDE DEF base
<1>4. memory'.objects = base.objects /\ memory'.shm = base.shm
  BY <1>2, <1>3 DEF MemoryOK, MemoryType
<1>5. SameViews(base, memory')
  BY <1>4, ViewsOfSame
<1> QED BY <1>3, <1>5 DEF SameViews

\* A load that stores does so in the segment of its name.
StoreNamed == \A t \in Threads : call[t].pc = "store" => memory.registry[call[t].name] = memory.current

\* What is written is the name's.
Writes(t) ==
  LET c == call[t] IN
  /\ UNCHANGED <<phase, client, prev, failed>>
  /\ call'[t].pc = "store" /\ call[t].pc \in {"parse", "store"}
  /\ \A u \in Threads \ {t} : call'[u] = call[u]
  /\ call'[t].name = c.name /\ call'[t].path = c.path /\ call'[t].form = c.form
  /\ call'[t].from = c.from /\ call'[t].force = c.force
  /\ memory'.registry = memory.registry /\ memory'.current = memory.current
  /\ memory.registry[c.name] = memory.current
  /\ \A n \in Names : View(memory', n) = IF n = c.name THEN Content(c, call'[t].stored + 1) ELSE View(memory, n)
  /\ Mapped(memory', c.name)

\* What is known of a call under way.
LEMMA LoadingCall ==
  ASSUME FInv, NEW t \in Threads, call[t].pc \in {"parse", "store"}
  PROVE  /\ call[t] \in Call /\ call[t].name \in Names /\ call[t].path \in Paths /\ call[t].form \in Forms
         /\ memory.current # 0 /\ MemoryOK(memory) /\ Tidy(memory) /\ memory.current \in DOMAIN memory.nodes
BY DEF FInv, SInv, IInv, CallsOK, CallOK, Loading, MemoryOK, MemoryType

\* The segment of a call that stores is its own, mapped, with what it has stored.
LEMMA StoringCall ==
  ASSUME FInv, NEW t \in Threads, call[t].pc = "store"
  PROVE  /\ Current.alive /\ Current.mapped /\ Current.object = call[t].root
         /\ loaded(memory, memory.current) /\ memory.objects[call[t].root] = Content(call[t], call[t].stored + 1)
<1>1. Storing(call[t]) /\ call[t] \in Call
  BY DEF FInv, SInv, IInv, CallsOK, LoadsOK, CallSound
<1>2. memory.objects[Current.object].fill > 0
  BY <1>1 DEF Storing, Content, Call
<1> QED BY <1>1, <1>2 DEF Storing, loaded, exists, Current

\* The allocation of a block writes to the name of its load.
LEMMA AllocateWrites ==
  ASSUME FInv, OneWorker, NEW t \in Threads, LoadAllocate(t)
  PROVE  Writes(t)
<1> DEFINE c == call[t]
<1>1. /\ c.pc = "parse" /\ c \in Call /\ c.name \in Names /\ c.path \in Paths /\ c.form \in Forms
      /\ memory.current # 0 /\ MemoryOK(memory) /\ Tidy(memory) /\ EntryCurrent(memory, c.name)
  BY LoadingCall, EntriesAreCurrent DEF LoadAllocate, FInv
<1>2. Parsing(c) /\ Current.alive
  BY <1>1 DEF FInv, SInv, LoadsOK, CallSound, LoadsLive, Live
<1>3. c.stored = 0 /\ memory.registry[c.name] = memory.current /\ ~loaded(memory, memory.current)
  BY <1>2 DEF Parsing
<1>4. /\ memory' = malloc(memory, c)
      /\ call' = [call EXCEPT ![t].pc = "store", ![t].root = Current.object]
      /\ UNCHANGED <<phase, nextFile, client, prev, failed, sessions, starts, crashes>>
  BY <1>2, <1>3 DEF LoadAllocate
<1>5. memory' = realloc(memory, c, 1) /\ 1 \in 1 .. Full
  BY <1>4, ServerAssumption DEF malloc, realloc, Full
<1>6. /\ call'[t] = [c EXCEPT !.pc = "store", !.root = Current.object]
      /\ \A u \in Threads \ {t} : call'[u] = call[u]
  BY <1>4 DEF FInv, SInv, IInv, CallsOK
<1>7. /\ call'[t].pc = "store" /\ call'[t].stored = 0 /\ call'[t].stored + 1 = 1
      /\ call'[t].name = c.name /\ call'[t].path = c.path /\ call'[t].form = c.form
      /\ call'[t].from = c.from /\ call'[t].force = c.force
  BY <1>1, <1>3, <1>6 DEF Call
<1> HIDE DEF c
<1>8. /\ Written(memory, memory', Content(c, 1))
      /\ memory'.registry = memory.registry /\ memory'.current = memory.current
      /\ memory'.nodes[memory.current].mapped
  BY <1>1, <1>5, WriteTidy DEF Written
<1>9. \A n \in Names : View(memory', n) = IF n = c.name THEN Content(c, 1) ELSE View(memory, n)
  BY <1>1, <1>3, <1>8, WriteView
<1>10. Mapped(memory', c.name)
  BY <1>1, <1>3, <1>8 DEF Mapped
<1> QED BY <1>1, <1>3, <1>4, <1>6, <1>7, <1>8, <1>9, <1>10 DEF Writes, c

\* So does a realloc, which stores one string more.
LEMMA StoreWrites ==
  ASSUME FInv, OneWorker, StoreNamed, NEW t \in Threads, LoadStore(t)
  PROVE  Writes(t) /\ call'[t].stored = call[t].stored + 1
<1> DEFINE c == call[t]
           f == c.stored + 2
<1>1. /\ c.pc = "store" /\ c \in Call /\ c.name \in Names /\ c.path \in Paths /\ c.form \in Forms
      /\ memory.current # 0 /\ MemoryOK(memory) /\ Tidy(memory) /\ c.stored < Strings
      /\ EntryCurrent(memory, c.name)
  BY LoadingCall, EntriesAreCurrent DEF LoadStore, FInv
<1>2. /\ Current.alive /\ Current.object = c.root /\ loaded(memory, memory.current)
      /\ memory.registry[c.name] = memory.current
  BY <1>1, StoringCall DEF StoreNamed
<1>3. /\ memory' = realloc(memory, c, f)
      /\ call' = [call EXCEPT ![t].stored = @ + 1]
      /\ UNCHANGED <<phase, nextFile, client, prev, failed, sessions, starts, crashes>>
  BY <1>2 DEF LoadStore
<1>4. f \in 1 .. Full
  BY <1>1, ServerAssumption DEF Full, Call
<1>5. /\ call'[t] = [c EXCEPT !.stored = c.stored + 1]
      /\ \A u \in Threads \ {t} : call'[u] = call[u]
  BY <1>3 DEF FInv, SInv, IInv, CallsOK
<1>6. /\ call'[t].pc = "store" /\ call'[t].stored = c.stored + 1 /\ call'[t].stored + 1 = f
      /\ call'[t].name = c.name /\ call'[t].path = c.path /\ call'[t].form = c.form
      /\ call'[t].from = c.from /\ call'[t].force = c.force
  BY <1>1, <1>5 DEF Call
<1> HIDE DEF c, f
<1>7. /\ Written(memory, memory', Content(c, f))
      /\ memory'.registry = memory.registry /\ memory'.current = memory.current
      /\ memory'.nodes[memory.current].mapped
  BY <1>1, <1>3, <1>4, WriteTidy DEF Written
<1>8. \A n \in Names : View(memory', n) = IF n = c.name THEN Content(c, f) ELSE View(memory, n)
  BY <1>1, <1>2, <1>7, WriteView
<1>9. Mapped(memory', c.name)
  BY <1>1, <1>2, <1>7 DEF Mapped
<1> QED BY <1>1, <1>2, <1>3, <1>5, <1>6, <1>7, <1>8, <1>9 DEF Writes, c

\* So does the copy of a conversion, which stores all of them.
LEMMA CopyWrites ==
  ASSUME FInv, OneWorker, StoreNamed, NEW t \in Threads, LoadCopy(t)
  PROVE  Writes(t) /\ call'[t].stored = Strings
<1> DEFINE c == call[t]
<1>1. /\ c.pc = "store" /\ c \in Call /\ c.name \in Names /\ memory.current \in DOMAIN memory.nodes
      /\ memory.current # 0 /\ MemoryOK(memory) /\ Tidy(memory) /\ EntryCurrent(memory, c.name)
  BY LoadingCall, EntriesAreCurrent DEF LoadCopy, FInv
<1>2. /\ Current.object = c.root /\ Current.mapped /\ memory.registry[c.name] = memory.current
  BY <1>1, StoringCall DEF StoreNamed
<1>3. /\ memory' = [memory EXCEPT !.objects[c.root] = Content(c, Full)]
      /\ call' = [call EXCEPT ![t].stored = Strings]
      /\ UNCHANGED <<phase, nextFile, client, prev, failed, sessions, starts, crashes>>
  <2>1. \E k \in DOMAIN memory.nodes : memory.nodes[k].object = c.root /\ memory.nodes[k].mapped
    BY <1>1, <1>2 DEF Current
  <2> QED BY <2>1 DEF LoadCopy
<1>4. /\ call'[t] = [c EXCEPT !.stored = Strings]
      /\ \A u \in Threads \ {t} : call'[u] = call[u]
  BY <1>3 DEF FInv, SInv, IInv, CallsOK
<1>5. /\ call'[t].pc = "store" /\ call'[t].stored = Strings /\ call'[t].stored + 1 = Full
      /\ call'[t].name = c.name /\ call'[t].path = c.path /\ call'[t].form = c.form
      /\ call'[t].from = c.from /\ call'[t].force = c.force
  <2>1. Strings + 1 = Full
    BY DEF Full
  <2>2. call'[t].stored = Strings
    BY <1>1, <1>4 DEF Call
  <2> QED BY <1>1, <1>4, <2>1, <2>2 DEF Call
<1> HIDE DEF c
<1>6. /\ Written(memory, memory', Content(c, Full))
      /\ memory'.registry = memory.registry /\ memory'.current = memory.current
      /\ memory'.nodes = memory.nodes
  BY <1>1, <1>2, <1>3 DEF Written, MemoryOK, MemoryType, Current
<1>7. \A n \in Names : View(memory', n) = IF n = c.name THEN Content(c, Full) ELSE View(memory, n)
  BY <1>1, <1>2, <1>6, WriteView
<1>8. Mapped(memory', c.name)
  BY <1>1, <1>2, <1>6 DEF Mapped, Current
<1> QED BY <1>1, <1>2, <1>3, <1>4, <1>5, <1>6, <1>7, <1>8 DEF Writes, c

\* What is stored so far is what is found under the name.
LEMMA StoringView ==
  ASSUME FInv, OneWorker, StoreNamed, NEW t \in Threads, call[t].pc = "store"
  PROVE  View(memory, call[t].name) = Content(call[t], call[t].stored + 1) /\ memory.shm[call[t].name] # 0
<1>1. /\ call[t].name \in Names /\ memory.current # 0 /\ MemoryOK(memory) /\ memory.current \in DOMAIN memory.nodes
  BY LoadingCall
<1>2. /\ memory.objects[call[t].root] = Content(call[t], call[t].stored + 1)
      /\ Current.object = call[t].root /\ memory.registry[call[t].name] = memory.current
  BY StoringCall DEF StoreNamed
<1>3. memory.shm[call[t].name] = call[t].root
  <2>1. EntryCurrent(memory, call[t].name)
    BY <1>1, EntriesAreCurrent DEF FInv
  <2> QED BY <1>1, <1>2, <2>1 DEF EntryCurrent, Current
<1>4. call[t].root # 0
  BY <1>1, <1>2 DEF MemoryOK, MemoryType, Current
<1> QED BY <1>2, <1>3, <1>4 DEF View

(***************************************************************************)
(* Where no server crashes and no column breaks off a load, a name has all *)
(* of a dataset or nothing, unless a load is storing it.                   *)
(***************************************************************************)
NothingBreaks == MaxCrashes = 0 /\ Broken = {}
Whole(n) ==
  View(memory, n).fill \in {0, Full} \/ \E t \in Threads : call[t].pc = "store" /\ call[t].name = n
WholeOK == \A n \in Names : Whole(n)
WInv == FInv /\ StoreNamed /\ WholeOK

NoStore == \A t \in Threads : call[t].pc # "store"

\* Names only lose what they have, and nobody stores.
LEMMA EmptiedWhole ==
  ASSUME WInv, NoStore, NoStore', \A n \in Names : View(memory', n) \in {View(memory, n), NoData}
  PROVE  StoreNamed' /\ WholeOK'
<1>1. \A n \in Names : View(memory, n).fill \in {0, Full}
  BY DEF WInv, WholeOK, Whole, NoStore
<1>2. NoData.fill = 0
  BY DEF NoData
<1>3. \A n \in Names : View(memory', n).fill \in {0, Full}
  BY <1>1, <1>2
<1> QED BY <1>3 DEF StoreNamed, WholeOK, Whole, NoStore

\* What a client does on its own.
LEMMA UntouchedWhole ==
  ASSUME WInv, UNCHANGED call, SameViews(memory, memory'), memory'.registry = memory.registry,
         memory'.current = memory.current
  PROVE  StoreNamed' /\ WholeOK'
<1>1. \A n \in Names : View(memory', n) = View(memory, n)
  BY DEF SameViews
<1>2. StoreNamed'
  BY DEF WInv, StoreNamed
<1> QED BY <1>1, <1>2 DEF WInv, WholeOK, Whole

\* A thread that writes is the one that stores under the name.
LEMMA WritesWhole ==
  ASSUME WInv, OneWorker, NEW t \in Threads, Writes(t)
  PROVE  StoreNamed' /\ WholeOK'
<1>1. call[t].pc # "idle" /\ \A u \in Threads \ {t} : call[u] = NoCall /\ call'[u] = NoCall
  BY OthersIdle DEF Writes, WInv, FInv, Idle
<1>2. NoCall.pc = "idle"
  BY DEF NoCall
<1>3. StoreNamed'
  BY <1>1, <1>2 DEF StoreNamed, Writes
<1>4. ASSUME NEW n \in Names PROVE Whole(n)'
  <2>1. CASE n = call[t].name
    BY <2>1 DEF Whole, Writes
  <2>2. CASE n # call[t].name
    <3>1. View(memory', n) = View(memory, n)
      BY <2>2 DEF Writes
    <3>2. View(memory, n).fill \in {0, Full}
      BY <1>1, <1>2, <2>2 DEF WInv, WholeOK, Whole
    <3> QED BY <3>1, <3>2 DEF Whole
  <2> QED BY <2>1, <2>2
<1> QED BY <1>3, <1>4 DEF WholeOK

\* A thread that is done with its load has stored all of it.
LEMMA ReturnWhole ==
  ASSUME WInv, OneWorker, NEW t \in Threads, call[t].pc # "idle", call'= [call EXCEPT ![t] = NoCall],
         UNCHANGED memory, call[t].pc = "store" => call[t].stored = Strings
  PROVE  StoreNamed' /\ WholeOK'
<1>1. \A u \in Threads : call'[u].pc = "idle"
  BY OthersIdle DEF WInv, FInv, SInv, IInv, CallsOK, Idle, NoCall
<1>2. StoreNamed'
  BY <1>1 DEF StoreNamed
<1>3. ASSUME NEW n \in Names PROVE View(memory, n).fill \in {0, Full}
  <2>1. CASE call[t].pc = "store" /\ call[t].name = n
    <3>1. View(memory, n) = Content(call[t], call[t].stored + 1) /\ call[t].stored = Strings
      BY <2>1, StoringView DEF WInv
    <3> QED BY <3>1 DEF Content, Full
  <2>2. CASE ~(call[t].pc = "store" /\ call[t].name = n)
    <3>1. \A u \in Threads \ {t} : call[u].pc # "store"
      BY OthersIdle DEF WInv, FInv, Idle, NoCall
    <3> QED BY <2>2, <3>1 DEF WInv, WholeOK, Whole
  <2> QED BY <2>1, <2>2
<1> QED BY <1>2, <1>3 DEF WholeOK, Whole

\* The end of the process loses the server's mappings, not what it has stored.
LEMMA EndsViews ==
  ASSUME NEW m \in MemoryType
  PROVE  ProcessEnds(m).objects = m.objects /\ ProcessEnds(m).shm = m.shm
<1>1. \A f, g : /\ [m EXCEPT !.nodes = f, !.registry = g, !.current = 0].objects = m.objects
                /\ [m EXCEPT !.nodes = f, !.registry = g, !.current = 0].shm = m.shm
  BY DEF MemoryType
<1> QED BY <1>1 DEF ProcessEnds

\* A server that dies while nobody stores leaves whole datasets.
LEMMA DiesWhole ==
  ASSUME WInv, NoStore, Dies
  PROVE  StoreNamed' /\ WholeOK'
<1>1. memory'.objects = memory.objects /\ memory'.shm = memory.shm
  BY EndsViews DEF Dies, WInv, FInv, SInv, IInv, MemoryOK
<1>2. NoStore'
  BY DEF NoStore, Dies, NoCall
<1> QED BY <1>1, <1>2, ViewsOfSame, EmptiedWhole DEF SameViews

\* A handler that does not store, while it runs alone.
LEMMA HandlerWhole ==
  ASSUME WInv, OneWorker, NEW t \in Threads, call[t].pc \notin {"idle", "store"},
         call' = [call EXCEPT ![t] = call'[t]], call'[t].pc # "store",
         \A n \in Names : View(memory', n) \in {View(memory, n), NoData}
  PROVE  StoreNamed' /\ WholeOK'
<1>1. \A u \in Threads \ {t} : call[u].pc = "idle" /\ call'[u].pc = "idle"
  BY OthersIdle DEF WInv, FInv, SInv, IInv, CallsOK, Idle, NoCall
<1>2. NoStore /\ NoStore'
  BY <1>1 DEF NoStore
<1> QED BY <1>2, EmptiedWhole

\* The first step of a handler, of main or of a thread that serves a request.
LEMMA LookupWhole ==
  ASSUME WInv, \A u \in Threads : Idle(u), NEW t \in Threads, NEW from, NEW r, r.name \in Names,
         NEW next, next # "store", Lookup(t, from, r, next)
  PROVE  StoreNamed' /\ WholeOK'
<1>1. /\ \A u \in Threads \ {t} : call'[u].pc = "idle"
      /\ call'[t].pc = next
  BY DEF Lookup, Idle, NoCall, WInv, FInv, SInv, IInv, CallsOK
<1>2. NoStore /\ NoStore'
  BY <1>1 DEF NoStore, Idle, NoCall
<1>3. SameViews(memory, memory')
  BY LookupView DEF WInv, FInv
<1> QED BY <1>2, <1>3, EmptiedWhole DEF SameViews

\* A client waits while a thread serves its request.
RequestOf(pc) == CASE pc \in {"unlink", "forget"} -> "erase"
                   [] pc = "unmap" -> "unload"
                   [] OTHER -> "load"
Caller(c) == /\ client[c.from].pc = RequestOf(c.pc) /\ client[c.from].name = c.name
             /\ client[c.from].path = c.path /\ client[c.from].form = c.form
CallersOK == \A t \in Threads : call[t].pc # "idle" /\ call[t].from \in Clients => Caller(call[t])

\* What may happen to the calls and the clients in a step.
Ended == \A t \in Threads : call'[t].pc = "idle"
Begun(t, k) ==
  /\ UNCHANGED client /\ client[k].pc = RequestOf(call'[t].pc) /\ \A u \in Threads \ {t} : call'[u].pc = "idle"
  /\ call'[t].name = client[k].name /\ call'[t].path = client[k].path /\ call'[t].form = client[k].form
  /\ call'[t].from = k

\* Without calls nobody waits for one.
LEMMA EndedCallers ==
  ASSUME Ended
  PROVE  CallersOK'
BY DEF Ended, CallersOK

\* A load that begins is that of the client that asked for it.
LEMMA BegunCallers ==
  ASSUME NEW t \in Threads, NEW k \in Clients, Begun(t, k)
  PROVE  CallersOK'
BY DEF Begun, CallersOK, Caller

\* A load that goes on is still that of its client, which waits.
LEMMA KeptCallers ==
  ASSUME CallersOK, \A t \in Threads : call'[t].pc # "idle" => call[t].pc # "idle"
                      /\ RequestOf(call'[t].pc) = RequestOf(call[t].pc)
                      /\ call'[t].name = call[t].name /\ call'[t].path = call[t].path
                      /\ call'[t].form = call[t].form /\ call'[t].from = call[t].from,
         \A k \in Clients : client[k].pc \in {"erase", "load", "unload"} /\ (\E t \in Threads : call[t].from = k)
                              => client'[k] = client[k]
  PROVE  CallersOK'
<1> SUFFICES ASSUME NEW t \in Threads, call'[t].pc # "idle", call'[t].from \in Clients
             PROVE  Caller(call[t])'
  BY DEF CallersOK
<1>1. /\ call[t].pc # "idle" /\ call[t].from = call'[t].from /\ Caller(call[t])
      /\ RequestOf(call'[t].pc) = RequestOf(call[t].pc)
  BY DEF CallersOK
<1>2. RequestOf(call[t].pc) \in {"erase", "load", "unload"}
  BY DEF RequestOf
<1>3. client'[call[t].from] = client[call[t].from]
  BY <1>1, <1>2 DEF Caller
<1> QED BY <1>1, <1>3 DEF Caller

\* A step of a client of its own leaves alone those that are served.
LEMMA ClientCallers ==
  ASSUME IInv, CallersOK, NEW k \in Clients, ClientNext(k)
  PROVE  CallersOK' /\ UNCHANGED <<call, phase, failed>>
<1>1. UNCHANGED <<call, phase, failed>>
  BY Zenon DEF ClientNext, BenchmarkBegins, ScriptBegins, UserAsks, Session, Refused, Opens, Closes
<1>2. ASSUME NEW j \in Clients, client[j].pc \in {"erase", "load", "unload"}, \E t \in Threads : call[t].from = j
      PROVE  client'[j] = client[j]
  <2>0. client = [i \in Clients |-> client[i]]
    BY DEF IInv, ClientsOK
  <2>1. AtHome.pc = "idle"
    BY DEF AtHome
  <2>2. ASSUME NEW pc, NEW name, NEW path, NEW form, Session(k, pc, name, path, form) PROVE client'[j] = client[j]
    <3>1. k # j
      BY <1>2, <2>1, <2>2 DEF Session
    <3> QED BY <2>0, <2>2, <3>1 DEF Session
  <2>3. CASE Refused(k)
    <3>1. j # k
      BY <1>2, <2>3 DEF Refused, Waiting
    <3> QED BY <2>3, <3>1 DEF Refused, Continue
  <2>4. CASE Opens(k)
    <3>1. k # j
      BY <1>2, <2>4 DEF Opens
    <3>2. \/ \E object : client' = [client EXCEPT ![k].pc = "mapped", ![k].object = object]
          \/ client' = [client EXCEPT ![k] = AtHome]
      BY <2>4, Zenon DEF Opens
    <3> QED BY <2>0, <3>1, <3>2
  <2>5. CASE Closes(k)
    <3>1. k # j
      BY <1>2, <2>5 DEF Closes
    <3> QED BY <2>0, <2>5, <3>1 DEF Closes
  <2>6. CASE BenchmarkBegins(k)
    BY <2>2, <2>6 DEF BenchmarkBegins
  <2>7. CASE ScriptBegins(k)
    BY <2>2, <2>7 DEF ScriptBegins
  <2>8. CASE UserAsks(k)
    BY <2>2, <2>8 DEF UserAsks
  <2> QED BY <2>3, <2>4, <2>5, <2>6, <2>7, <2>8 DEF ClientNext
<1> QED BY <1>1, <1>2, KeptCallers

\* The parts of a client's step that concern the memory.
LEMMA ClientMemory ==
  ASSUME IInv, NEW k \in Clients, ClientNext(k)
  PROVE  /\ SameViews(memory, memory') /\ memory'.registry = memory.registry
         /\ memory'.nodes = memory.nodes /\ memory'.current = memory.current
<1>1. CASE UNCHANGED memory
  BY <1>1 DEF SameViews
<1>2. CASE Opens(k)
  <2>1. MemoryOK(memory) /\ client[k].name \in Names
    BY <1>2 DEF Opens, IInv, ClientsOK
  <2>2. memory' = OpenOrCreate(memory, client[k].name) \/ memory' = memory
    BY <1>2, Zenon DEF Opens
  <2> QED BY <1>1, <2>1, <2>2, OpenOrCreateOK, OpenOrCreateView DEF KeepsCurrent
<1>3. Opens(k) \/ UNCHANGED memory
  BY Zenon DEF ClientNext, BenchmarkBegins, ScriptBegins, UserAsks, Session, Refused, Closes
<1> QED BY <1>1, <1>2, <1>3

BInv == WInv /\ CallersOK

\* While a thread takes a request, nobody loads.
LEMMA RequestIdle ==
  ASSUME OneWorker, FInv, NEW t, NEW k \in Clients, NEW request \in {"erase", "load", "unload", "stop"},
         Serving(t, k, request)
  PROVE  /\ client[k].name \in Names /\ client[k].pc = request /\ phase = "listening" /\ t \in Workers
         /\ \A u \in Threads : Idle(u) /\ call[u].pc = "idle"
<1>1. \A u \in Threads : Idle(u)
  BY ServingIdle DEF FInv, Serving, Idle
<1>2. client[k].pc = request /\ request # "idle" /\ phase = "listening" /\ t \in Workers
  BY DEF Serving, Waiting
<1>3. client[k].name \in Names
  BY <1>2 DEF FInv, SInv, IInv, ClientsOK
<1> QED BY <1>1, <1>2, <1>3 DEF Idle, NoCall

\* The first step of a handler.
LEMMA BeginWhole ==
  ASSUME BInv, \A u \in Threads : Idle(u), NEW t \in Threads, NEW from,
         NEW r, r.name \in Names, NEW next \in {"unlink", "unmap", "adopt", "check"},
         Lookup(t, from, r, next),
         from \in Clients => /\ client[from].pc = RequestOf(next) /\ client[from].name = r.name
                             /\ client[from].path = r.path /\ client[from].form = r.form
  PROVE  StoreNamed' /\ WholeOK' /\ CallersOK'
<1>1. StoreNamed' /\ WholeOK'
  BY LookupWhole DEF BInv
<1>2. /\ call'[t].pc = next /\ call'[t].from = from /\ call'[t].name = r.name
      /\ call'[t].path = r.path /\ call'[t].form = r.form
      /\ \A u \in Threads \ {t} : call'[u].pc = "idle"
      /\ UNCHANGED client
  BY DEF Lookup, Idle, NoCall, BInv, WInv, FInv, SInv, IInv, CallsOK
<1>3. CallersOK'
  <2>1. CASE from \in Clients
    <3>1. Begun(t, from)
      BY <1>2, <2>1 DEF Begun
    <3> QED BY <2>1, <3>1, BegunCallers
  <2>2. CASE from \notin Clients
    BY <1>2, <2>2 DEF CallersOK
  <2> QED BY <2>1, <2>2
<1> QED BY <1>1, <1>3

\* A handler that goes on.
LEMMA OnWhole ==
  ASSUME OneWorker, BInv, NEW t \in Threads, call[t].pc \notin {"idle", "store"}, NEW next, GoesOn(t, next),
         next \notin {"idle", "store"}, RequestOf(next) = RequestOf(call[t].pc),
         \A n \in Names : View(memory', n) \in {View(memory, n), NoData}
  PROVE  StoreNamed' /\ WholeOK' /\ CallersOK'
<1>1. /\ call' = [call EXCEPT ![t] = [call[t] EXCEPT !.pc = next]] /\ call[t] \in Call
      /\ UNCHANGED client
  BY DEF GoesOn, BInv, WInv, FInv, SInv, IInv, CallsOK
<1>2. /\ call'[t].pc = next /\ call'[t].from = call[t].from /\ call'[t].name = call[t].name
      /\ call'[t].path = call[t].path /\ call'[t].form = call[t].form
      /\ call' = [call EXCEPT ![t] = call'[t]]
      /\ \A u \in Threads \ {t} : call'[u] = call[u]
  BY <1>1 DEF Call, BInv, WInv, FInv, SInv, IInv, CallsOK
<1>3. StoreNamed' /\ WholeOK'
  BY <1>2, HandlerWhole DEF BInv
<1>4. CallersOK'
  BY <1>1, <1>2, KeptCallers DEF BInv
<1> QED BY <1>3, <1>4

\* A handler that replies before it stores anything.
LEMMA ReplyWhole ==
  ASSUME OneWorker, BInv, NEW t \in Threads, call[t].pc \notin {"idle", "store"},
         call' = [call EXCEPT ![t] = NoCall],
         \A n \in Names : View(memory', n) \in {View(memory, n), NoData}
  PROVE  StoreNamed' /\ WholeOK' /\ CallersOK'
<1>1. call'[t].pc = "idle" /\ call' = [call EXCEPT ![t] = call'[t]]
  BY DEF NoCall, BInv, WInv, FInv, SInv, IInv, CallsOK
<1>2. StoreNamed' /\ WholeOK'
  BY <1>1, HandlerWhole DEF BInv
<1>3. Ended
  BY OthersIdle DEF Ended, BInv, WInv, FInv, SInv, IInv, CallsOK, Idle, NoCall
<1> QED BY <1>2, <1>3, EndedCallers

\* The end of a load.
LEMMA EndWhole ==
  ASSUME OneWorker, BInv, NEW t \in Threads, call[t].pc # "idle", call' = [call EXCEPT ![t] = NoCall],
         UNCHANGED memory, call[t].pc = "store" => call[t].stored = Strings
  PROVE  StoreNamed' /\ WholeOK' /\ CallersOK'
<1>1. StoreNamed' /\ WholeOK'
  BY ReturnWhole DEF BInv
<1>2. Ended
  BY OthersIdle DEF Ended, BInv, WInv, FInv, SInv, IInv, CallsOK, Idle, NoCall
<1> QED BY <1>1, <1>2, EndedCallers

\* The step of a thread.
LEMMA ThreadWhole ==
  ASSUME OneWorker, NothingBreaks, BInv, NEW t \in Threads, ThreadNext(t)
  PROVE  StoreNamed' /\ WholeOK' /\ CallersOK'
<1> DEFINE Goal == StoreNamed' /\ WholeOK' /\ CallersOK'
<1>0. /\ MemoryOK(memory) /\ NoCall.pc = "idle" /\ WInv /\ FInv /\ CallersOK /\ StoreNamed
      /\ call \in [Threads -> Call]
  BY DEF BInv, WInv, FInv, SInv, IInv, NoCall, CallsOK
<1>1. ASSUME NEW k \in Clients, NEW request \in {"erase", "load", "unload", "stop"}, Serving(t, k, request),
             UNCHANGED call, \A n \in Names : View(memory', n) \in {View(memory, n), NoData}
      PROVE  Goal
  <2>1. \A u \in Threads : call[u].pc = "idle"
    BY <1>0, <1>1, RequestIdle
  <2>2. NoStore /\ NoStore' /\ Ended
    BY <1>1, <2>1 DEF NoStore, Ended
  <2> QED BY <1>0, <1>1, <2>2, EmptiedWhole, EndedCallers
<1>2. ASSUME Dies, NoStore PROVE Goal
  <2>1. Ended
    BY <1>0, <1>2 DEF Ended, Dies
  <2> QED BY <1>0, <1>2, <2>1, DiesWhole, EndedCallers
<1>3. ASSUME Writes(t) PROVE Goal
  <2>1. StoreNamed' /\ WholeOK'
    BY <1>0, <1>3, WritesWhole
  <2>2. CallersOK'
    <3>1. UNCHANGED client
      BY <1>3 DEF Writes
    <3>2. /\ call[t].pc # "idle" /\ call'[t].name = call[t].name /\ call'[t].path = call[t].path
          /\ call'[t].form = call[t].form /\ call'[t].from = call[t].from
          /\ \A u \in Threads \ {t} : call'[u] = call[u]
      BY <1>3 DEF Writes
    <3>3. RequestOf(call'[t].pc) = RequestOf(call[t].pc)
      BY <1>3 DEF Writes, RequestOf
    <3> QED BY <1>0, <3>1, <3>2, <3>3, KeptCallers
  <2> QED BY <2>1, <2>2
<1> SUFFICES Goal
  OBVIOUS
<1> HIDE DEF Goal
<1>4. ASSUME NEW k \in Clients, NEW request \in {"erase", "load", "unload", "stop"}, Serving(t, k, request),
             NEW next \in {"unlink", "unmap", "adopt", "check"}, request = RequestOf(next),
             Lookup(t, k, Asked(k, FALSE), next)
      PROVE  Goal
  <2> DEFINE r == Asked(k, FALSE)
  <2>1. /\ client[k].name \in Names /\ client[k].pc = request /\ \A u \in Threads : Idle(u)
    BY <1>0, <1>4, RequestIdle
  <2>2. r.name = client[k].name /\ r.path = client[k].path /\ r.form = client[k].form
    BY DEF Asked, Request
  <2> HIDE DEF r
  <2>3. Lookup(t, k, r, next)
    BY <1>4 DEF r
  <2> QED BY <1>4, <2>1, <2>2, <2>3, BeginWhole DEF Goal
<1>5. ASSUME NEW k \in Clients, EraseRequest(t, k) \/ UnloadRequest(t, k) \/ LoadRequest(t, k) PROVE Goal
  <2>1. /\ RequestOf("unlink") = "erase" /\ RequestOf("unmap") = "unload"
        /\ RequestOf("adopt") = "load" /\ RequestOf("check") = "load"
    BY DEF RequestOf
  <2> QED BY <1>4, <1>5, <2>1 DEF EraseRequest, UnloadRequest, LoadRequest, LoadSteps
<1>6. ASSUME NEW k \in Clients, Stop(t, k) PROVE Goal
  <2>1. Serving(t, k, "stop") /\ UNCHANGED <<call, memory>>
    BY <1>6 DEF Stop
  <2> QED BY <1>1, <2>1, "stop" \in {"erase", "load", "unload", "stop"}
<1>7. ASSUME SameViews(memory, memory') PROVE \A n \in Names : View(memory', n) \in {View(memory, n), NoData}
  BY <1>7 DEF SameViews
<1>13. CASE EraseUnlink(t)
  <2>1. \A n \in Names : View(memory', n) \in {View(memory, n), NoData}
    BY <1>0, <1>13, UnlinkView DEF FInv
  <2>2. call[t].pc = "unlink" /\ GoesOn(t, "forget") /\ RequestOf("forget") = RequestOf("unlink")
    BY <1>13 DEF EraseUnlink, Refers, RequestOf
  <2> QED BY <2>1, <2>2, OnWhole DEF Goal
<1>14. CASE EraseForget(t)
  <2>1. call[t].pc = "forget" /\ SameViews(memory, memory') /\ call' = [call EXCEPT ![t] = NoCall]
    BY <1>0, <1>14, ForgetView DEF FInv, EraseForget, Replies
  <2> QED BY <1>7, <2>1, ReplyWhole DEF Goal
<1>15. CASE Unload(t)
  <2>1. call[t].pc = "unmap" /\ call[t].pc \in Referring
    BY <1>15 DEF Unload, Refers, Referring
  <2>2. CASE memory' = unload(memory, call[t].node) /\ Replies(t)
    <3>1. SameViews(memory, memory') /\ call' = [call EXCEPT ![t] = NoCall]
      BY <1>0, <2>1, <2>2, MapView DEF FInv, Replies
    <3> QED BY <1>7, <2>1, <3>1, ReplyWhole DEF Goal
  <2>3. CASE Fails("unload: loaded()")
    <3>1. NoStore
      BY <1>0, <2>1, OthersIdle DEF NoStore, Idle, FInv
    <3> QED BY <1>2, <2>3, <3>1 DEF Fails
  <2> QED BY <1>15, <2>2, <2>3 DEF Unload
<1>16. CASE LoadAdopt(t)
  <2>1. call[t].pc = "adopt" /\ call[t].pc \in Referring /\ GoesOn(t, "check")
        /\ RequestOf("check") = RequestOf("adopt")
    BY <1>16 DEF LoadAdopt, Refers, Referring, RequestOf
  <2>2. SameViews(memory, memory')
    BY <1>0, <1>16, <2>1, MapView DEF FInv, LoadAdopt
  <2> QED BY <1>7, <2>1, <2>2, OnWhole DEF Goal
<1>17. CASE LoadFound(t)
  <2>1. /\ call[t].pc = "check" /\ call' = [call EXCEPT ![t] = NoCall] /\ UNCHANGED memory
    BY <1>17 DEF LoadFound, Refers, Replies
  <2> QED BY <2>1, ReplyWhole DEF Goal
<1>18. CASE LoadSelect(t)
  <2>1. \A n \in Names : View(memory', n) \in {View(memory, n), NoData}
    BY <1>0, <1>18, SelectView DEF FInv
  <2>2. call[t].pc = "check" /\ GoesOn(t, "parse") /\ RequestOf("parse") = RequestOf("check")
    BY <1>18 DEF LoadSelect, Refers, RequestOf
  <2> QED BY <2>1, <2>2, OnWhole DEF Goal
<1>19. ~UsesDestroyed(t)
  BY <1>0, LoadsSucceed
<1>8. CASE LoadAllocate(t)
  BY <1>0, <1>3, <1>8, AllocateWrites
<1>9. CASE LoadStore(t)
  BY <1>0, <1>3, <1>9, StoreWrites
<1>10. CASE LoadCopy(t)
  BY <1>0, <1>3, <1>10, CopyWrites
<1>11. CASE LoadThrows(t)
  <2>1. call[t].pc = "parse"
    BY <1>11 DEF LoadThrows, NothingBreaks
  <2>2. CASE Dies
    <3>1. NoStore
      BY <1>0, <2>1, OthersIdle DEF NoStore, Idle, FInv
    <3> QED BY <1>2, <2>2, <3>1
  <2>3. CASE call' = [call EXCEPT ![t] = NoCall] /\ UNCHANGED memory
    BY <2>1, <2>3, EndWhole DEF Goal
  <2> QED BY <1>11, <2>2, <2>3 DEF LoadThrows, Replies
<1>12. CASE LoadReturn(t)
  BY <1>12, EndWhole DEF Goal, LoadReturn, Replies
<1> QED BY <1>5, <1>6, <1>8, <1>9, <1>10, <1>11, <1>12, <1>13, <1>14, <1>15, <1>16, <1>17, <1>18,
           <1>19 DEF ThreadNext

\* The step of main, or of a client.
LEMMA WholeStep ==
  ASSUME OneWorker, NamesDiffer, NothingBreaks, BInv, [Next]_vars
  PROVE  BInv'
<1>0. /\ MemoryOK(memory) /\ NoCall.pc = "idle" /\ WInv /\ FInv /\ SInv /\ IInv /\ CallersOK /\ StoreNamed
      /\ call \in [Threads -> Call] /\ "main" \in Threads
  BY DEF BInv, WInv, FInv, SInv, IInv, NoCall, CallsOK, Threads
<1>1. FInv'
  <2>1. SInv'
    BY <1>0, SerialStep
  <2>2. CASE UNCHANGED vars
    BY <1>0, <2>1, <2>2 DEF vars, FInv, Fresh, LoadsLive, Live, Sound, Current
  <2>3. CASE Next
    BY <1>0, <2>1, <2>3, FreshStep DEF FInv
  <2> QED BY <2>2, <2>3
<1> DEFINE Goal == StoreNamed' /\ WholeOK' /\ CallersOK'
<1> SUFFICES Goal
  BY <1>1 DEF BInv, WInv
<1>2. ASSUME UNCHANGED <<memory, call, client>> PROVE Goal
  BY <1>0, <1>2, UntouchedWhole, KeptCallers DEF SameViews
<1>3. ASSUME \A u \in Threads : Idle(u), UNCHANGED call, \A n \in Names : View(memory', n) \in {View(memory, n), NoData}
      PROVE  Goal
  <2>1. NoStore /\ NoStore' /\ Ended
    BY <1>0, <1>3 DEF NoStore, Ended, Idle
  <2> QED BY <1>0, <1>3, <2>1, EmptiedWhole, EndedCallers
<1> HIDE DEF Goal
<1>4. CASE Start \/ Listen \/ Rests \/ UNCHANGED vars
  BY <1>2, <1>4 DEF Start, Listen, Rests, vars
<1>5. ~Crash
  BY <1>0 DEF Crash, NothingBreaks, IInv, ProcessOK
<1>6. CASE Exit
  <2>1. \A u \in Threads : Idle(u)
    BY <1>6 DEF Exit, Idle
  <2> DEFINE left == [n \in Names |-> IF n \in Deleted THEN 0 ELSE memory.shm[n]]
  <2>2. memory'.objects = memory.objects /\ memory'.shm = left
    <3>1. memory \in MemoryType
      BY <1>0 DEF MemoryOK
    <3> HIDE DEF left
    <3>2. \A f, g : /\ [[memory EXCEPT !.shm = left] EXCEPT !.nodes = f, !.registry = g, !.current = 0].objects = memory.objects
                    /\ [[memory EXCEPT !.shm = left] EXCEPT !.nodes = f, !.registry = g, !.current = 0].shm = left
      BY <3>1 DEF MemoryType
    <3>3. memory' = ProcessEnds([memory EXCEPT !.shm = left])
      BY <1>6 DEF Exit, left
    <3> QED BY <3>2, <3>3 DEF ProcessEnds
  <2>3. \A n \in Names : View(memory', n) \in {View(memory, n), NoData}
    BY <2>2 DEF View
  <2> QED BY <1>3, <1>6, <2>1, <2>3 DEF Exit
<1>7. CASE LoadCommandLine
  <2> DEFINE r == Request(CommandLine[nextFile].name, CommandLine[nextFile].path, CommandLineForm,
                          ForceReload /\ CommandLineForm = "wisent")
             next == IF r.form = "wisent" /\ ~r.force THEN "adopt" ELSE "check"
  <2>1. nextFile \in 1 .. Len(CommandLine) /\ phase = "starting" /\ Idle("main")
    BY <1>7, ServerAssumption DEF LoadCommandLine, BInv, WInv, FInv, SInv, IInv, ProcessOK, Idle
  <2>2. \A u \in Threads : Idle(u)
    BY <1>0, <2>1 DEF SInv, LoadsOK, CallSound, Threads, Idle
  <2>3. CommandLine[nextFile] \in [name : Names, path : Paths]
    BY <2>1, ServerAssumption, ElementOfSeq
  <2>4. r.name \in Names /\ Lookup("main", "main", r, next) /\ next \in {"adopt", "check"}
    BY <1>7, <2>3 DEF LoadCommandLine, LoadSteps, Request
  <2> HIDE DEF r, next
  <2>5. "main" \notin Clients
    BY ServerAssumption
  <2> QED BY <1>0, <2>2, <2>4, <2>5, BeginWhole DEF Goal
<1>8. ASSUME NEW t \in Threads, ThreadNext(t) PROVE Goal
  BY <1>8, ThreadWhole DEF Goal
<1>9. ASSUME NEW k \in Clients, ClientNext(k) PROVE Goal
  BY <1>0, <1>9, ClientCallers, ClientMemory, UntouchedWhole DEF Goal
<1> QED BY <1>4, <1>5, <1>6, <1>7, <1>8, <1>9 DEF Next

\* What is answered is whole.
AnswersWhole ==
  \A t \in Workers, k \in Clients :
       Answers(t, k) /\ ~(client[k].form = "json" /\ client[k].path \in Short) =>
         memory'.shm[client[k].name] # 0 /\ Answered(k).fill = Full

\* What is answered in such a state.
LEMMA AnswerWhole ==
  ASSUME OneWorker, NamesDiffer, NothingBreaks, BInv
  PROVE  AnswersWhole
<1> SUFFICES ASSUME NEW t \in Workers, NEW k \in Clients, Answers(t, k),
                    ~(client[k].form = "json" /\ client[k].path \in Short)
             PROVE  View(memory', client[k].name).fill = Full
  <2>1. Full # 0 /\ NoData.fill = 0
    BY ServerAssumption DEF Full, NoData
  <2> QED BY <2>1 DEF AnswersWhole, Answered, View
<1>0. FInv /\ t \in Threads /\ "load" \in {"erase", "load", "unload", "stop"} /\ StoreNamed /\ CallersOK
  BY DEF BInv, WInv, Threads
<1>1. CASE LoadFound(t) /\ call[t].from = k
  <2>1. call[t].pc = "check" /\ call[t].name \in Names
    BY <1>0, <1>1, HandlerPhase DEF LoadFound, Refers, Referring, FInv
  <2>2. client[k].name = call[t].name
    BY <1>0, <1>1, <2>1 DEF CallersOK, Caller
  <2>3. UNCHANGED memory /\ View(memory, call[t].name).fill > 0
    BY <1>0, <1>1, FoundView DEF FInv
  <2>4. \A u \in Threads : call[u].pc # "store"
    BY <1>0, <2>1, OthersIdle DEF Idle, NoCall, FInv
  <2>5. View(memory, call[t].name).fill \in {0, Full}
    BY <2>1, <2>4 DEF BInv, WInv, WholeOK, Whole
  <2>6. memory' = memory
    BY <2>3
  <2> QED BY <2>2, <2>3, <2>5, <2>6
<1>2. CASE LoadReturn(t) /\ call[t].from = k
  <2>1. call[t].pc # "idle" /\ UNCHANGED memory
    BY <1>2 DEF LoadReturn
  <2>2. client[k].name = call[t].name /\ client[k].path = call[t].path /\ client[k].form = call[t].form
    BY <1>0, <1>2, <2>1 DEF CallersOK, Caller
  <2>3. call[t].pc = "store" /\ call[t].stored = Strings
    BY <1>2, <2>2 DEF LoadReturn, Allocates
  <2>4. View(memory, call[t].name) = Content(call[t], Strings + 1)
    BY <1>0, <2>3, StoringView
  <2>5. memory' = memory
    BY <2>1
  <2> QED BY <2>2, <2>4, <2>5 DEF Content, Full
<1> QED BY <1>1, <1>2 DEF Answers

\* At first every name has nothing.
LEMMA WholeInit == Init => BInv
<1> SUFFICES ASSUME Init PROVE BInv
  OBVIOUS
<1>1. FInv
  BY SerialInit, ServerAssumption DEF Init, FInv, Fresh, LoadsLive, Live, Sound, NewMemory, NoCall
<1>2. StoreNamed /\ WholeOK /\ CallersOK
  BY DEF Init, StoreNamed, WholeOK, Whole, CallersOK, View, NewMemory, NoData, NoCall
<1> QED BY <1>1, <1>2 DEF BInv, WInv

(***************************************************************************)
(* With one thread in the pool, no column that breaks off and no crash, a  *)
(* /load that is answered by load's return leaves the whole of a dataset   *)
(* under the name, whatever the clients have asked for before; but for a   *)
(* JSON text so short that no shared memory is allocated for it.           *)
(***************************************************************************)
THEOREM SerialAnswersWhole ==
  ASSUME OneWorker, NamesDiffer, NothingBreaks
  PROVE  Spec => AnsweredIsWhole
<1>1. BInv /\ [Next]_vars => BInv' /\ AnswersWhole
  BY WholeStep, AnswerWhole
<1>2. AnswersWhole => \A t \in Workers, k \in Clients :
       Answers(t, k) /\ ~(client[k].form = "json" /\ client[k].path \in Short) =>
         memory'.shm[client[k].name] # 0 /\ Answered(k).fill = Full
  BY DEF AnswersWhole
<1> QED BY <1>1, <1>2, WholeInit, PTL DEF Spec, AnsweredIsWhole

(***************************************************************************)
(* One benchmark process and a server with one thread, alone with their    *)
(* shared memory.                                                          *)
(***************************************************************************)
Alone ==
  /\ OneWorker /\ NothingBreaks /\ CommandLine = <<>> /\ Scripts = {} /\ Users = {}
  /\ \A j, k \in Benchmarks : j = k

\* What a load of the benchmark stores in shared memory.
Loadable(path, form) ==
  /\ path \notin Missing /\ (form = "bson" => path \notin Arrays) /\ (form = "json" => path \notin Short)

\* The path that a benchmark believes a name to have, with the load it waits for.
Believed(k, n) == IF client[k].pc = "load" /\ client[k].name = n THEN client[k].path ELSE prev[k][n]

Requesting(c) ==
  /\ c.pc \in {"idle", "erase", "load", "open", "mapped", "unload"}
  /\ c.pc # "idle" => c.name \in Names /\ c.path \in Paths /\ c.form = FormOf(c.name)
RequestingOK == \A k \in Clients : Requesting(client[k])
OwnOK ==
  /\ call["main"].pc = "idle"
  /\ \A t \in Threads : call[t].pc # "idle" => call[t].from \in Clients /\ ~call[t].force
  /\ \A t \in Threads : call[t].pc = "forget" => View(memory, call[t].name).fill = 0
QuietOK ==
  /\ failed = {} /\ phase # "stopping"
  /\ phase \in {"down", "starting"} => \A n \in Names : View(memory, n).fill = 0

\* A name has what the benchmark believes, in the form of the name.
Holds(k, n) ==
  View(memory, n).fill > 0 =>
    /\ View(memory, n).form = FormOf(n) /\ Loadable(View(memory, n).path, View(memory, n).form)
    /\ Believed(k, n) \in {"none", View(memory, n).path}
HoldsOK == \A k \in Clients, n \in Names : Holds(k, n)

\* From the reply to /load to the request to unload.
Using(k) ==
  /\ client[k].pc \in {"open", "mapped"} => prev[k][client[k].name] = client[k].path
  /\ client[k].pc = "mapped" => client[k].object = memory.shm[client[k].name] /\ client[k].object # 0
  /\ client[k].pc \in {"mapped", "unload"} => View(memory, client[k].name).fill > 0
  /\ client[k].pc \in {"open", "mapped", "unload"} /\ View(memory, client[k].name).fill > 0 =>
       Mapped(memory, client[k].name)
UsingOK == \A k \in Clients : Using(k)

AInv == BInv /\ RequestingOK /\ OwnOK /\ QuietOK /\ HoldsOK /\ UsingOK

\* What it says of the threads and clients.
LEMMA AloneIs ==
  ASSUME Alone
  PROVE  /\ OneWorker /\ NothingBreaks /\ NamesDiffer /\ Clients = Benchmarks
         /\ \A j, k \in Clients : j = k
BY DEF Alone, NamesDiffer, Clients

\* The benchmark goes on after a reply, and after an error, alike.
LEMMA BenchmarkGoesOn ==
  ASSUME Alone, AInv, NEW k \in Clients, client[k].pc \in {"erase", "load", "unload"},
         NEW replied \in BOOLEAN, Continue({k}, replied)
  PROVE  /\ client[k].pc = "erase" => client'[k] = [client[k] EXCEPT !.pc = "load"] /\ prev' = prev
         /\ client[k].pc = "load" => client'[k] = [client[k] EXCEPT !.pc = "open"]
                               /\ prev'[k] = [prev[k] EXCEPT ![client[k].name] = client[k].path]
         /\ client[k].pc = "unload" => client'[k] = AtHome /\ prev' = prev
<1>1. k \notin Users /\ k \notin Scripts /\ k \in Benchmarks
  BY AloneIs DEF Alone
<1>2. Goes(k, replied) = IF client[k].pc = "erase" THEN "load" ELSE IF client[k].pc = "load" THEN "open" ELSE "idle"
  <2>1. CASE client[k].pc = "erase"
    BY <1>1, <2>1 DEF Goes, AfterReply, AfterError
  <2>2. CASE client[k].pc = "load"
    BY <1>1, <2>2 DEF Goes, AfterReply, AfterError
  <2>3. CASE client[k].pc = "unload"
    BY <1>1, <2>3 DEF Goes, AfterReply, AfterError
  <2> QED BY <2>1, <2>2, <2>3
<1>3. prev = [j \in Benchmarks |-> prev[j]]
  BY DEF AInv, BInv, WInv, FInv, SInv, IInv, ClientsOK
<1>4. client[k].pc # "load" => prev' = [j \in Benchmarks |-> prev[j]]
  BY <1>1 DEF Continue
<1>5. client[k].pc = "load" => prev'[k] = [prev[k] EXCEPT ![client[k].name] = client[k].path]
  BY <1>1 DEF Continue
<1>6. client'[k] = IF Goes(k, replied) = "idle" THEN AtHome ELSE [client[k] EXCEPT !.pc = Goes(k, replied)]
  BY DEF Continue
<1> QED BY <1>2, <1>3, <1>4, <1>5, <1>6

\* Where the names keep what they have, and the benchmark believes no more.
LEMMA HeldKept ==
  ASSUME HoldsOK, SameViews(memory, memory'),
         \A k \in Clients, n \in Names : Believed(k, n)' \in {Believed(k, n), "none"}
  PROVE  HoldsOK'
<1>1. ASSUME NEW k \in Clients, NEW n \in Names PROVE Holds(k, n)'
  <2>1. View(memory', n) = View(memory, n) /\ Holds(k, n)
    BY DEF SameViews, HoldsOK
  <2>2. Believed(k, n)' \in {Believed(k, n), "none"}
    OBVIOUS
  <2> QED BY <2>1, <2>2 DEF Holds
<1> QED BY <1>1 DEF HoldsOK

\* A load that is over, however it ended.
LEMMA LoadAnswered ==
  ASSUME Alone, AInv, NEW k \in Clients, client[k].pc = "load", NEW replied \in BOOLEAN, Continue({k}, replied),
         SameViews(memory, memory'), View(memory, client[k].name).fill > 0 => Mapped(memory', client[k].name)
  PROVE  RequestingOK' /\ HoldsOK' /\ UsingOK'
<1> DEFINE n == client[k].name
<1>0. client[k] \in Client /\ k \in Benchmarks /\ \A j \in Clients : j = k
  BY AloneIs DEF AInv, BInv, WInv, FInv, SInv, IInv, ClientsOK
<1>1. /\ client'[k] = [client[k] EXCEPT !.pc = "open"] /\ prev'[k] = [prev[k] EXCEPT ![n] = client[k].path]
      /\ client[k] \in Client /\ prev[k] \in [Names -> Paths \cup {"none"}] /\ n \in Names
      /\ \A j \in Clients : j = k
  <2>1. /\ client'[k] = [client[k] EXCEPT !.pc = "open"]
        /\ prev'[k] = [prev[k] EXCEPT ![client[k].name] = client[k].path]
    <3>1. client[k].pc \in {"erase", "load", "unload"}
      OBVIOUS
    <3> QED BY <3>1, BenchmarkGoesOn, Zenon
  <2>2. prev[k] \in [Names -> Paths \cup {"none"}] /\ n \in Names
    BY <1>0 DEF AInv, BInv, WInv, FInv, SInv, IInv, ClientsOK
  <2> QED BY <1>0, <2>1, <2>2
<1>2. /\ client'[k].pc = "open" /\ client'[k].name = n /\ client'[k].path = client[k].path
      /\ client'[k].form = client[k].form
      /\ \A o \in Names : prev'[k][o] = IF o = n THEN client[k].path ELSE prev[k][o]
  BY <1>1 DEF Client
<1>3. RequestingOK'
  <2>1. Requesting(client[k])
    BY DEF AInv, RequestingOK
  <2>2. Requesting(client'[k])
    BY <1>2, <2>1 DEF Requesting
  <2> QED BY <1>1, <2>2 DEF RequestingOK
<1>4. HoldsOK'
  <2>1. \A o \in Names : Believed(k, o)' = Believed(k, o)
    BY <1>2 DEF Believed
  <2> QED BY <1>1, <2>1, HeldKept DEF AInv
<1>5. UsingOK'
  <2>1. View(memory', n) = View(memory, n)
    BY <1>1 DEF SameViews
  <2>2. Using(k)'
    BY <1>1, <1>2, <2>1 DEF Using
  <2> QED BY <1>1, <2>2 DEF UsingOK
<1> QED BY <1>3, <1>4, <1>5

\* A load that stores what it has been asked for.
LEMMA StoresAlone ==
  ASSUME Alone, AInv, NEW t \in Threads, Writes(t), Loadable(call[t].path, call[t].form)
  PROVE  RequestingOK' /\ OwnOK' /\ QuietOK' /\ HoldsOK' /\ UsingOK'
<1> DEFINE c == call[t]
<1>1. PICK k \in Clients :
      /\ c.from = k /\ c.pc # "idle" /\ client[k].pc = "load" /\ client[k].name = c.name
      /\ client[k].path = c.path /\ client[k].form = c.form /\ c.name \in Names
      /\ UNCHANGED <<phase, client, prev, failed>> /\ \A j \in Clients : j = k
  BY AloneIs DEF Writes, AInv, BInv, OwnOK, CallersOK, Caller, RequestOf, WInv, FInv, SInv, IInv, CallsOK, CallOK
<1>2. t \in Workers /\ phase \notin {"down", "starting"}
  <2>1. t \in Workers
    <3>1. call["main"].pc = "idle" /\ call[t].pc # "idle"
      BY <1>1 DEF AInv, OwnOK
    <3> QED BY <3>1 DEF Threads
  <2>2. phase \in {"listening", "stopping"}
    BY <1>1, <2>1 DEF AInv, BInv, WInv, FInv, SInv, LoadsOK
  <2> QED BY <2>1, <2>2
<1>3. RequestingOK' /\ OwnOK' /\ QuietOK'
  <2>1. RequestingOK'
    BY <1>1 DEF AInv, RequestingOK
  <2>2. /\ call'[t].from = call[t].from /\ call'[t].force = call[t].force /\ call'[t].pc = "store"
        /\ \A u \in Threads \ {t} : call'[u] = call[u]
    BY DEF Writes
  <2>4. \A u \in Threads \ {t} : call[u].pc = "idle"
    BY <1>1, OthersIdle, AloneIs DEF Idle, NoCall, AInv, BInv, WInv, FInv
  <2>3. OwnOK'
    BY <1>1, <1>2, <2>2, <2>4, ServerAssumption DEF AInv, OwnOK, Threads
  <2> QED BY <1>1, <1>2, <2>1, <2>3 DEF AInv, QuietOK
<1>4. \A n \in Names : Believed(k, n)' = Believed(k, n) /\ Believed(k, c.name) = c.path
  BY <1>1 DEF Believed
<1>5. \A n \in Names : View(memory', n) = IF n = c.name THEN Content(c, call'[t].stored + 1) ELSE View(memory, n)
  BY DEF Writes
<1>6. c.form = FormOf(c.name)
  BY <1>1 DEF AInv, RequestingOK, Requesting
<1> HIDE DEF c
<1>7. ASSUME NEW n \in Names PROVE Holds(k, n)'
  <2>1. CASE n = c.name
    <3>1. View(memory', n).path = c.path /\ View(memory', n).form = c.form
      BY <1>5, <2>1 DEF Content
    <3>2. Believed(k, n)' = c.path
      BY <1>1, <2>1 DEF Believed
    <3>3. View(memory', n).form = FormOf(n) /\ Loadable(View(memory', n).path, View(memory', n).form)
      BY <1>6, <2>1, <3>1 DEF c
    <3> QED BY <3>1, <3>2, <3>3 DEF Holds
  <2>2. CASE n # c.name
    <3>1. View(memory', n) = View(memory, n) /\ Holds(k, n)
      BY <1>1, <1>5, <2>2 DEF AInv, HoldsOK
    <3> QED BY <1>4, <3>1 DEF Holds
  <2> QED BY <2>1, <2>2
<1>8. UsingOK'
  BY <1>1 DEF UsingOK, Using
<1> QED BY <1>1, <1>3, <1>7, <1>8 DEF HoldsOK

\* The client of a request that is served.
LEMMA OwnCall ==
  ASSUME Alone, AInv, NEW t \in Threads, call[t].pc # "idle"
  PROVE  /\ t \in Workers /\ call[t].from \in Clients /\ client[call[t].from].pc = RequestOf(call[t].pc)
         /\ client[call[t].from].name = call[t].name /\ client[call[t].from].path = call[t].path
         /\ client[call[t].from].form = call[t].form /\ phase = "listening" /\ ~call[t].force
         /\ call[t].name \in Names /\ call[t].path \in Paths /\ call[t].form = FormOf(call[t].name)
<1>1. call[t].from \in Clients /\ t # "main" /\ ~call[t].force
  BY DEF AInv, OwnOK
<1>2. Caller(call[t])
  BY <1>1 DEF AInv, BInv, CallersOK
<1>3. t \in Workers
  BY <1>1 DEF Threads
<1>4. phase = "listening"
  BY <1>3 DEF AInv, QuietOK, BInv, WInv, FInv, SInv, LoadsOK
<1>5. Requesting(client[call[t].from]) /\ RequestOf(call[t].pc) # "idle"
  BY <1>1 DEF AInv, RequestingOK, RequestOf
<1> QED BY <1>1, <1>2, <1>3, <1>4, <1>5 DEF Caller, Requesting

\* The client of a load.
LEMMA OwnLoad ==
  ASSUME Alone, AInv, NEW t \in Threads, call[t].pc \in Loading
  PROVE  client[call[t].from].pc = "load" /\ call[t].pc # "idle"
  BY OwnCall DEF Loading, RequestOf

\* Nothing is found of a dataset that does not load.
LEMMA NotLoadable ==
  ASSUME Alone, AInv, NEW t \in Threads, call[t].pc \in Loading, ~Loadable(call[t].path, call[t].form)
  PROVE  ~(View(memory, call[t].name).fill > 0)
<1> DEFINE k == call[t].from
           v == View(memory, call[t].name)
<1>1. /\ k \in Clients /\ Believed(k, call[t].name) = call[t].path /\ call[t].path # "none"
      /\ call[t].name \in Names /\ call[t].form = FormOf(call[t].name)
  BY OwnCall, OwnLoad, ServerAssumption DEF Believed
<1>2. Holds(k, call[t].name)
  BY <1>1 DEF AInv, HoldsOK
<1> HIDE DEF k
<1> QED BY <1>1, <1>2 DEF Holds

\* What a load stores can be loaded.
LEMMA AllocatesLoadable ==
  ASSUME NEW t \in Threads, ~Unreadable(t), Allocates(t)
  PROVE  Loadable(call[t].path, call[t].form)
BY DEF Unreadable, Allocates, Loadable

\* A load that stores has come this far with a dataset that loads.
LEMMA StoresLoadable ==
  ASSUME Alone, AInv, NEW t \in Threads, call[t].pc = "store"
  PROVE  Loadable(call[t].path, call[t].form)
<1>1. View(memory, call[t].name) = Content(call[t], call[t].stored + 1)
  BY AloneIs, StoringView DEF AInv, BInv, WInv
<1>2. call[t].stored \in 0 .. Strings /\ Strings \in Nat
  BY ServerAssumption DEF AInv, BInv, WInv, FInv, SInv, IInv, CallsOK, Call
<1>3. View(memory, call[t].name).fill > 0
  BY <1>1, <1>2 DEF Content
<1> QED BY <1>3, NotLoadable DEF Loading

\* The end of a load of the benchmark.
LEMMA LoadEnds ==
  ASSUME Alone, AInv, NEW t \in Threads, call[t].pc \in Loading, Replies(t), UNCHANGED memory,
         View(memory, call[t].name).fill > 0 => Mapped(memory, call[t].name)
  PROVE  RequestingOK' /\ OwnOK' /\ QuietOK' /\ HoldsOK' /\ UsingOK'
<1>1. PICK k \in Clients : /\ call[t].from = k /\ client[k].pc = "load" /\ client[k].name = call[t].name
                           /\ phase = "listening"
  BY OwnCall, OwnLoad
<1>2. memory' = memory /\ Continue({k}, TRUE) /\ failed' = failed /\ phase' = phase /\ TRUE \in BOOLEAN
  BY <1>1 DEF Replies, Reply
<1>3. SameViews(memory, memory')
  BY <1>2 DEF SameViews
<1>4. View(memory, client[k].name).fill > 0 => Mapped(memory', client[k].name)
  BY <1>1, <1>2
<1>5. RequestingOK' /\ HoldsOK' /\ UsingOK'
  BY <1>1, <1>2, <1>3, <1>4, LoadAnswered
<1>6. \A u \in Threads : call'[u].pc = "idle"
  BY OwnLoad, RepliesAlone, AloneIs DEF AInv, BInv, WInv, FInv, NoCall
<1>7. OwnOK' /\ QuietOK'
  BY <1>1, <1>2, <1>6 DEF AInv, OwnOK, QuietOK, Threads
<1> QED BY <1>5, <1>7

\* What a step of a handler leaves to show, of which the client sees nothing.
LEMMA UnseenAlone ==
  ASSUME Alone, AInv, phase = "listening", UNCHANGED <<phase, client, prev, failed>>, OwnOK',
         SameViews(memory, memory'),
         \A k \in Clients : client[k].pc = "unload" => (Mapped(memory, client[k].name) => Mapped(memory', client[k].name)),
         \A k \in Clients : client[k].pc \in {"erase", "load", "unload"}
  PROVE  RequestingOK' /\ OwnOK' /\ QuietOK' /\ HoldsOK' /\ UsingOK'
<1>1. RequestingOK' /\ QuietOK'
  BY DEF AInv, RequestingOK, QuietOK
<1>2. HoldsOK'
  BY HeldKept DEF AInv, Believed
<1>3. ASSUME NEW k \in Clients PROVE Using(k)'
  <2>1. Using(k) /\ Requesting(client[k]) /\ client[k].name \in Names
    BY DEF AInv, UsingOK, RequestingOK, Requesting
  <2>2. View(memory', client[k].name) = View(memory, client[k].name)
    BY <2>1 DEF SameViews
  <2> QED BY <2>1, <2>2 DEF Using
<1> QED BY <1>1, <1>2, <1>3 DEF UsingOK

\* A request that is taken.
LEMMA RequestAlone ==
  ASSUME Alone, AInv, NEW t \in Threads, NEW k \in Clients,
         EraseRequest(t, k) \/ UnloadRequest(t, k) \/ LoadRequest(t, k)
  PROVE  RequestingOK' /\ OwnOK' /\ QuietOK' /\ HoldsOK' /\ UsingOK'
<1> DEFINE r == Asked(k, FALSE)
<1>1. PICK request \in {"erase", "load", "unload"}, next \in {"unlink", "unmap", "adopt", "check"} :
        Serving(t, k, request) /\ Lookup(t, k, r, next) /\ UNCHANGED phase
  BY DEF EraseRequest, UnloadRequest, LoadRequest, LoadSteps
<1>2. FInv /\ SInv /\ OneWorker /\ call \in [Threads -> Call] /\ \A j \in Clients : j = k
  BY AloneIs DEF AInv, BInv, WInv, FInv, SInv, IInv, CallsOK
<1>3. /\ client[k].name \in Names /\ client[k].pc = request /\ phase = "listening" /\ t \in Workers
      /\ \A u \in Threads : Idle(u) /\ call[u].pc = "idle"
  BY <1>1, <1>2, RequestIdle
<1>4. r.name = client[k].name /\ ~r.force
  BY DEF Asked, Request
<1> HIDE DEF r
<1>5. SameViews(memory, memory') /\ (Mapped(memory, client[k].name) => Mapped(memory', client[k].name))
  BY <1>1, <1>2, <1>3, <1>4, LookupView
<1>6. OwnOK'
  <2>1. /\ t # "main" /\ call'[t].from = k /\ ~call'[t].force /\ call'[t].pc = next
        /\ \A u \in Threads \ {t} : call'[u].pc = "idle"
    BY <1>1, <1>2, <1>3, <1>4, ServerAssumption DEF Lookup
  <2> QED BY <2>1 DEF OwnOK, Threads
<1>7. UNCHANGED <<phase, client, prev, failed>>
  BY <1>1 DEF Lookup
<1> QED BY <1>1, <1>2, <1>3, <1>5, <1>6, <1>7, UnseenAlone

\* A handler that goes on.
LEMMA OnAlone ==
  ASSUME Alone, AInv, NEW t \in Threads, call[t].pc # "idle", NEW next, GoesOn(t, next),
         SameViews(memory, memory'), RequestOf(call[t].pc) # "unload", next # "forget"
  PROVE  RequestingOK' /\ OwnOK' /\ QuietOK' /\ HoldsOK' /\ UsingOK'
<1>1. /\ t \in Workers /\ call[t].from \in Clients /\ client[call[t].from].pc = RequestOf(call[t].pc)
      /\ phase = "listening" /\ \A j \in Clients : j = call[t].from
  BY OwnCall, AloneIs
<1>2. RequestOf(call[t].pc) \in {"erase", "load", "unload"}
  BY DEF RequestOf
<1>3. OwnOK'
  <2>1. /\ call'[t].from = call[t].from /\ call'[t].force = call[t].force /\ call'[t].pc = next
        /\ \A u \in Threads \ {t} : call'[u] = call[u]
    BY DEF GoesOn, AInv, BInv, WInv, FInv, SInv, IInv, CallsOK, Call
  <2>2. \A u \in Threads \ {t} : call[u].pc = "idle"
    BY OthersIdle, AloneIs DEF Idle, NoCall, AInv, BInv, WInv, FInv
  <2> QED BY <1>1, <2>1, <2>2, ServerAssumption DEF AInv, OwnOK, Threads
<1> QED BY <1>1, <1>2, <1>3, UnseenAlone DEF GoesOn

\* The name that is unlinked has nothing any more.
LEMMA UnlinkAlone ==
  ASSUME Alone, AInv, NEW t \in Threads, EraseUnlink(t)
  PROVE  RequestingOK' /\ OwnOK' /\ QuietOK' /\ HoldsOK' /\ UsingOK'
<1> DEFINE k == call[t].from
           n == call[t].name
<1>1. /\ call[t].pc = "unlink" /\ t \in Workers /\ k \in Clients /\ client[k].pc = "erase" /\ phase = "listening"
      /\ \A j \in Clients : j = k
  BY OwnCall, AloneIs DEF EraseUnlink, Refers, RequestOf
<1>2. \A o \in Names : View(memory', o) = IF o = n THEN NoData ELSE View(memory, o)
  BY UnlinkView DEF AInv, BInv, WInv, FInv
<1>3. UNCHANGED <<phase, client, prev, failed>>
  BY DEF EraseUnlink, GoesOn
<1>4. OwnOK'
  <2>1. /\ call'[t].from = call[t].from /\ call'[t].force = call[t].force
        /\ call'[t].name = n /\ \A u \in Threads \ {t} : call'[u] = call[u]
    BY DEF EraseUnlink, GoesOn, AInv, BInv, WInv, FInv, SInv, IInv, CallsOK, Call
  <2>2. \A u \in Threads \ {t} : call[u].pc = "idle"
    BY <1>1, OthersIdle, AloneIs DEF Idle, NoCall, AInv, BInv, WInv, FInv
  <2>3. View(memory', n).fill = 0
    BY <1>1, <1>2, OwnCall DEF NoData
  <2> HIDE DEF k, n
  <2> QED BY <1>1, <2>1, <2>2, <2>3, ServerAssumption DEF AInv, OwnOK, Threads
<1> HIDE DEF k, n
<1>5. RequestingOK' /\ QuietOK' /\ UsingOK'
  BY <1>1, <1>3 DEF AInv, RequestingOK, QuietOK, UsingOK, Using
<1>6. ASSUME NEW j \in Clients, NEW o \in Names PROVE Holds(j, o)'
  <2>1. Believed(j, o)' = Believed(j, o) /\ Holds(j, o)
    BY <1>3 DEF AInv, HoldsOK, Believed
  <2>2. NoData.fill = 0
    BY DEF NoData
  <2> QED BY <1>2, <2>1, <2>2 DEF Holds
<1> QED BY <1>4, <1>5, <1>6 DEF HoldsOK

\* A reply to /erase or /unload.
LEMMA ReplyAlone ==
  ASSUME Alone, AInv, NEW t \in Threads, call[t].pc \in {"forget", "unmap"}, Replies(t),
         SameViews(memory, memory')
  PROVE  RequestingOK' /\ OwnOK' /\ QuietOK' /\ HoldsOK' /\ UsingOK'
<1>1. PICK k \in Clients :
        /\ call[t].from = k /\ client[k].pc = RequestOf(call[t].pc) /\ client[k].pc \in {"erase", "unload"}
        /\ client[k].name = call[t].name /\ call[t].name \in Names
        /\ phase = "listening" /\ client[k] \in Client /\ \A j \in Clients : j = k
  <2>1. RequestOf(call[t].pc) \in {"erase", "unload"}
    BY DEF RequestOf
  <2>2. client \in [Clients -> Client]
    BY DEF AInv, BInv, WInv, FInv, SInv, IInv, ClientsOK
  <2> QED BY <2>1, <2>2, OwnCall, AloneIs
<1>2. Continue({k}, TRUE) /\ UNCHANGED <<phase, failed>> /\ TRUE \in BOOLEAN
  BY <1>1 DEF Replies, Reply
<1>3. \A u \in Threads : call'[u].pc = "idle"
  BY RepliesAlone, AloneIs DEF AInv, BInv, WInv, FInv, NoCall
<1>4. OwnOK' /\ QuietOK'
  BY <1>1, <1>2, <1>3 DEF AInv, OwnOK, QuietOK, Threads
<1>5. /\ client[k].pc = "erase" => client'[k] = [client[k] EXCEPT !.pc = "load"]
      /\ client[k].pc = "unload" => client'[k] = AtHome
      /\ prev' = prev
  BY <1>1, <1>2, BenchmarkGoesOn
<1>6. Requesting(client[k]) /\ Using(k)
  BY DEF AInv, RequestingOK, UsingOK
<1>7. /\ Requesting(client'[k]) /\ Using(k)'
      /\ \A o \in Names : Believed(k, o)' = Believed(k, o) \/ ~(View(memory, o).fill > 0)
  <2>1. CASE client[k].pc = "unload"
    BY <1>5, <2>1 DEF Requesting, Using, Believed, AtHome
  <2>2. CASE client[k].pc = "erase"
    <3>1. /\ client'[k].pc = "load" /\ client'[k].name = client[k].name /\ client'[k].path = client[k].path
          /\ client'[k].form = client[k].form
      BY <1>1, <1>5, <2>2 DEF Client
    <3>2. \A o \in Names \ {client[k].name} : Believed(k, o)' = Believed(k, o)
      BY <1>5, <2>2, <3>1 DEF Believed
    <3>3. ~(View(memory, client[k].name).fill > 0)
      <4>1. call[t].pc = "forget"
        BY <1>1, <2>2 DEF RequestOf
      <4> QED BY <1>1, <4>1 DEF AInv, OwnOK
    <3>4. Requesting(client'[k]) /\ Using(k)'
      BY <1>5, <1>6, <2>2, <3>1 DEF Requesting, Using
    <3> QED BY <3>2, <3>3, <3>4
  <2> QED BY <1>1, <2>1, <2>2
<1>8. HoldsOK'
  <2> SUFFICES ASSUME NEW o \in Names PROVE Holds(k, o)'
    BY <1>1 DEF HoldsOK
  <2>1. View(memory', o) = View(memory, o) /\ Holds(k, o)
    BY DEF SameViews, AInv, HoldsOK
  <2>2. Believed(k, o)' = Believed(k, o) \/ ~(View(memory, o).fill > 0)
    BY <1>7
  <2> QED BY <2>1, <2>2 DEF Holds
<1> QED BY <1>1, <1>4, <1>7, <1>8 DEF RequestingOK, UsingOK

\* The step of a thread.
LEMMA ThreadAlone ==
  ASSUME Alone, AInv, NEW t \in Threads, ThreadNext(t)
  PROVE  RequestingOK' /\ OwnOK' /\ QuietOK' /\ HoldsOK' /\ UsingOK'
<1> DEFINE Goal == RequestingOK' /\ OwnOK' /\ QuietOK' /\ HoldsOK' /\ UsingOK'
<1>0. SInv /\ FInv /\ StoreNamed /\ NothingBreaks /\ OneWorker
  BY AloneIs DEF AInv, BInv, WInv, FInv
<1> SUFFICES Goal
  OBVIOUS
<1> HIDE DEF Goal
<1>1. CASE LoadAllocate(t)
  <2>1. call[t].pc = "parse" /\ ~Unreadable(t) /\ Allocates(t)
    BY <1>1 DEF LoadAllocate
  <2>2. Writes(t)
    BY <1>0, <1>1, AllocateWrites
  <2> QED BY <2>1, <2>2, AllocatesLoadable, StoresAlone DEF Goal
<1>2. CASE LoadStore(t)
  <2>1. call[t].pc = "store"
    BY <1>2 DEF LoadStore
  <2>2. Writes(t)
    BY <1>0, <1>2, StoreWrites
  <2>3. Loadable(call[t].path, call[t].form)
    BY <2>1, StoresLoadable
  <2> QED BY <2>2, <2>3, StoresAlone DEF Goal
<1>3. CASE LoadCopy(t)
  <2>1. call[t].pc = "store"
    BY <1>3 DEF LoadCopy
  <2>2. Writes(t)
    BY <1>0, <1>3, CopyWrites
  <2>3. Loadable(call[t].path, call[t].form)
    BY <2>1, StoresLoadable
  <2> QED BY <2>2, <2>3, StoresAlone DEF Goal
<1>4. CASE LoadThrows(t)
  <2>1. call[t].pc = "parse" /\ Unreadable(t) /\ call[t].pc \in Loading
    BY <1>0, <1>4 DEF LoadThrows, NothingBreaks, Loading
  <2>2. t # "main"
    BY <2>1 DEF AInv, OwnOK
  <2>3. ~Loadable(call[t].path, call[t].form)
    BY <1>0, <2>1 DEF Unreadable, Loadable, NothingBreaks
  <2>4. Replies(t) /\ UNCHANGED memory
    BY <1>4, <2>2 DEF LoadThrows
  <2> QED BY <2>1, <2>3, <2>4, NotLoadable, LoadEnds DEF Goal
<1>5. CASE LoadReturn(t)
  <2>1. Replies(t) /\ UNCHANGED memory
    BY <1>5 DEF LoadReturn
  <2>2. CASE call[t].pc = "store"
    <3>1. Current.mapped /\ memory.registry[call[t].name] = memory.current /\ memory.current # 0
      BY <1>0, <2>2, StoringCall, LoadingCall DEF StoreNamed
    <3>2. Mapped(memory, call[t].name) /\ call[t].pc \in Loading
      BY <2>2, <3>1 DEF Mapped, Current, Loading
    <3> QED BY <2>1, <3>2, LoadEnds DEF Goal
  <2>3. CASE call[t].pc = "parse" /\ ~Allocates(t)
    <3>1. ~Loadable(call[t].path, call[t].form) /\ call[t].pc \in Loading
      BY <2>3 DEF Allocates, Loadable, Loading
    <3> QED BY <2>1, <3>1, NotLoadable, LoadEnds DEF Goal
  <2> QED BY <1>5, <2>2, <2>3 DEF LoadReturn
<1>6. CASE LoadFound(t)
  <2>1. call[t].pc \in Loading /\ Replies(t)
    BY <1>6 DEF LoadFound, Refers, Loading
  <2>2. UNCHANGED memory /\ Mapped(memory, call[t].name)
    BY <1>0, <1>6, FoundView
  <2> QED BY <2>1, <2>2, LoadEnds DEF Goal
<1>7. CASE LoadAdopt(t)
  <2>1. /\ call[t].pc = "adopt" /\ call[t].pc \in Referring /\ GoesOn(t, "check")
        /\ RequestOf(call[t].pc) # "unload"
    BY <1>7 DEF LoadAdopt, Refers, Referring, RequestOf
  <2>2. SameViews(memory, memory')
    BY <1>0, <1>7, <2>1, MapView DEF LoadAdopt
  <2> QED BY <2>1, <2>2, OnAlone DEF Goal
<1>8. CASE LoadSelect(t)
  <2>1. call[t].pc = "check" /\ GoesOn(t, "parse") /\ RequestOf(call[t].pc) # "unload"
    BY <1>8 DEF LoadSelect, Refers, RequestOf
  <2>2. ~call[t].force
    BY <2>1, OwnCall
  <2>3. SameViews(memory, memory')
    BY <1>0, <1>8, <2>2, SelectView
  <2> QED BY <2>1, <2>3, OnAlone DEF Goal
<1>9. CASE EraseUnlink(t)
  BY <1>9, UnlinkAlone DEF Goal
<1>10. CASE EraseForget(t)
  <2>1. call[t].pc = "forget" /\ Replies(t)
    BY <1>10 DEF EraseForget
  <2>2. SameViews(memory, memory')
    BY <1>0, <1>10, ForgetView
  <2> QED BY <2>1, <2>2, ReplyAlone DEF Goal
<1>11. CASE Unload(t)
  <2> DEFINE n == call[t].name
             k == call[t].node
  <2>1. call[t].pc = "unmap" /\ call[t].pc \in Referring
    BY <1>11 DEF Unload, Refers, Referring
  <2>2. View(memory, n).fill > 0 /\ Mapped(memory, n) /\ n \in Names
    <3>1. /\ call[t].from \in Clients /\ client[call[t].from].pc = "unload" /\ client[call[t].from].name = n
          /\ n \in Names
      BY <2>1, OwnCall DEF RequestOf
    <3> QED BY <3>1 DEF AInv, UsingOK, Using
  <2>3. loaded(memory, k)
    <3>1. memory.registry[n] = k /\ k \in 1 .. Len(memory.nodes)
      BY <1>0, <2>1, HandlerPhase DEF CallSound
    <3>2. EntryCurrent(memory, n)
      BY <1>0, <2>1, <2>2, EntriesAreCurrent
    <3>3. memory.nodes[k].object # 0
      BY <1>0, <3>1 DEF SInv, IInv, MemoryOK, MemoryType
    <3> QED BY <2>2, <3>1, <3>2, <3>3 DEF EntryCurrent, View, Mapped, loaded, exists
  <2>4. memory' = unload(memory, k) /\ Replies(t)
    BY <1>11, <2>3 DEF Unload
  <2>5. SameViews(memory, memory')
    BY <1>0, <2>1, <2>4, MapView
  <2> QED BY <2>1, <2>4, <2>5, ReplyAlone DEF Goal
<1>12. ~UsesDestroyed(t)
  BY <1>0, LoadsSucceed
<1>13. ASSUME NEW k \in Clients, Stop(t, k) PROVE FALSE
  BY <1>13 DEF Stop, Serving, Waiting, AInv, RequestingOK, Requesting
<1>14. ASSUME NEW k \in Clients, EraseRequest(t, k) \/ UnloadRequest(t, k) \/ LoadRequest(t, k) PROVE Goal
  BY <1>14, RequestAlone DEF Goal
<1> QED BY Zenon, <1>1, <1>2, <1>3, <1>4, <1>5, <1>6, <1>7, <1>8, <1>9, <1>10, <1>11, <1>12, <1>13, <1>14 DEF ThreadNext

\* The step of the benchmark.
LEMMA ClientAlone ==
  ASSUME Alone, AInv, NEW k \in Clients, ClientNext(k)
  PROVE  RequestingOK' /\ OwnOK' /\ QuietOK' /\ HoldsOK' /\ UsingOK'
<1>0. /\ MemoryOK(memory) /\ IInv /\ CallersOK /\ client[k] \in Client /\ k \in Benchmarks
      /\ k \notin Scripts /\ k \notin Users /\ (\A j \in Clients : j = k)
      /\ prev[k] \in [Names -> Paths \cup {"none"}] /\ prev \in [Benchmarks -> [Names -> Paths \cup {"none"}]]
      /\ client \in [Clients -> Client]
  BY AloneIs DEF Alone, AInv, BInv, WInv, FInv, SInv, IInv, ClientsOK
<1>1. Requesting(client[k]) /\ Using(k) /\ OwnOK /\ QuietOK /\ HoldsOK
  BY DEF AInv, RequestingOK, UsingOK
<1>2. /\ UNCHANGED <<call, phase, failed>>
      /\ SameViews(memory, memory') /\ memory'.registry = memory.registry /\ memory'.nodes = memory.nodes
  BY <1>0, ClientCallers, ClientMemory
<1>3. OwnOK' /\ QuietOK'
  <2>1. \A n \in Names : View(memory', n) = View(memory, n)
    BY <1>2 DEF SameViews
  <2>2. \A t \in Threads : call[t].pc = "forget" => call[t].name \in Names
    BY OwnCall
  <2> QED BY <1>1, <1>2, <2>1, <2>2 DEF OwnOK, QuietOK
<1>4. \A n \in Names : View(memory', n) = View(memory, n) /\ (Mapped(memory', n) <=> Mapped(memory, n))
  BY <1>2 DEF SameViews, Mapped
<1> DEFINE Goal == RequestingOK' /\ HoldsOK' /\ UsingOK'
<1>5. ASSUME Requesting(client'[k]), Using(k)', \A n \in Names : Believed(k, n)' \in {Believed(k, n), "none"}
      PROVE  Goal
  <2>1. RequestingOK' /\ UsingOK'
    BY <1>0, <1>5 DEF RequestingOK, UsingOK
  <2> QED BY <1>0, <1>1, <1>2, <1>5, <2>1, HeldKept
<1> SUFFICES Goal
  BY <1>3
<1> HIDE DEF Goal
<1>6. CASE BenchmarkBegins(k)
  <2>1. PICK name \in Names, path \in Paths :
          Session(k, IF path # prev[k][name] THEN "erase" ELSE "load", name, path, FormOf(name))
    BY <1>6 DEF BenchmarkBegins
  <2> DEFINE pc == IF path # prev[k][name] THEN "erase" ELSE "load"
  <2>2. /\ client[k] = AtHome /\ UNCHANGED prev
        /\ client'[k] = [pc |-> pc, name |-> name, path |-> path, form |-> FormOf(name), object |-> 0]
    BY <1>0, <2>1 DEF Session
  <2>3. /\ client[k].pc = "idle" /\ client'[k].pc = pc /\ client'[k].name = name /\ client'[k].path = path
        /\ client'[k].form = FormOf(name)
    BY <2>2 DEF AtHome
  <2>4. Requesting(client'[k]) /\ Using(k)'
    BY <2>3 DEF Requesting, Using
  <2>5. \A n \in Names : Believed(k, n)' = Believed(k, n)
    BY <2>2, <2>3 DEF Believed
  <2> QED BY <1>5, <2>4, <2>5
<1>7. CASE Refused(k)
  <2>1. Continue({k}, FALSE) /\ UNCHANGED memory /\ client[k].pc \in {"erase", "load", "unload"} /\ FALSE \in BOOLEAN
        /\ phase \in {"down", "starting"}
    <3>1. client[k].pc \in {"erase", "load", "unload", "stop"} /\ phase # "listening"
      BY <1>7 DEF Refused, Waiting
    <3>2. phase \in {"down", "starting"}
      BY <1>0, <1>1, <3>1 DEF QuietOK, IInv, ProcessOK
    <3> QED BY <1>1, <1>7, <3>1, <3>2 DEF Refused, Requesting
  <2>2. \A n \in Names : View(memory, n).fill = 0
    BY <1>1, <2>1 DEF QuietOK
  <2>3. /\ client[k].pc = "erase" => client'[k] = [client[k] EXCEPT !.pc = "load"] /\ prev' = prev
        /\ client[k].pc = "load" => client'[k] = [client[k] EXCEPT !.pc = "open"]
                               /\ prev'[k] = [prev[k] EXCEPT ![client[k].name] = client[k].path]
        /\ client[k].pc = "unload" => client'[k] = AtHome /\ prev' = prev
    BY <2>1, BenchmarkGoesOn
  <2>4. CASE client[k].pc = "load"
    <3>1. ~(View(memory, client[k].name).fill > 0)
      BY <1>1, <2>2, <2>4 DEF Requesting
    <3> QED BY <1>2, <2>1, <2>4, <3>1, LoadAnswered DEF Goal
  <2>5. CASE client[k].pc = "erase"
    <3>1. /\ client'[k].pc = "load" /\ client'[k].name = client[k].name /\ client'[k].path = client[k].path
          /\ client'[k].form = client[k].form
      BY <1>0, <2>3, <2>5 DEF Client
    <3>2. RequestingOK' /\ UsingOK'
      <4>1. Requesting(client'[k]) /\ Using(k)'
        BY <1>1, <2>5, <3>1 DEF Requesting, Using
      <4> QED BY <1>0, <4>1 DEF RequestingOK, UsingOK
    <3>3. HoldsOK'
      <4>1. \A n \in Names : ~(View(memory', n).fill > 0)
        BY <1>4, <2>2
      <4> QED BY <4>1 DEF HoldsOK, Holds
    <3> QED BY <3>2, <3>3 DEF Goal
  <2>6. CASE client[k].pc = "unload"
    <3>1. Requesting(client'[k]) /\ Using(k)'
      BY <2>3, <2>6 DEF Requesting, Using, AtHome
    <3>2. \A n \in Names : Believed(k, n)' = Believed(k, n)
      BY <2>3, <2>6 DEF Believed, AtHome
    <3> QED BY <1>5, <3>1, <3>2
  <2> QED BY <2>1, <2>4, <2>5, <2>6
<1>8. CASE Opens(k)
  <2> DEFINE n == client[k].name
             opened == OpenOrCreate(memory, n)
             object == opened.shm[n]
  <2>1. client[k].pc = "open" /\ n \in Names
    BY <1>1, <1>8 DEF Opens, Requesting
  <2>2. memory' = opened
    BY <1>0, <1>8 DEF Opens
  <2>3. CASE /\ object # 0 /\ opened.objects[object].fill > 0
             /\ client' = [client EXCEPT ![k].pc = "mapped", ![k].object = object] /\ UNCHANGED prev
    <3>1. memory'.shm[n] = object /\ View(memory', n).fill > 0
      BY <2>2, <2>3 DEF View
    <3>2. client'[k] = [client[k] EXCEPT !.pc = "mapped", !.object = object]
      BY <1>0, <2>3
    <3> HIDE DEF object, opened
    <3>3. /\ client'[k].pc = "mapped" /\ client'[k].name = n /\ client'[k].path = client[k].path
          /\ client'[k].form = client[k].form /\ client'[k].object = object
      BY <1>0, <3>2 DEF Client
    <3>4. Requesting(client'[k])
      BY <1>1, <2>1, <3>3 DEF Requesting
    <3>5. Using(k)'
      <4>1. prev'[k][n] = client[k].path /\ View(memory', n) = View(memory, n) /\ Mapped(memory', n)
        BY <1>1, <1>4, <2>1, <2>3, <3>1 DEF Using
      <4> QED BY <2>3, <3>1, <3>3, <4>1 DEF Using
    <3>6. \A o \in Names : Believed(k, o)' = Believed(k, o)
      BY <2>1, <2>3, <3>3 DEF Believed
    <3> QED BY <1>5, <3>4, <3>5, <3>6
  <2>4. CASE /\ client' = [client EXCEPT ![k] = AtHome]
             /\ prev' = [p \in Benchmarks |-> IF p = k THEN [m \in Names |-> "none"] ELSE prev[p]]
    <3>1. client'[k] = AtHome /\ \A o \in Names : prev'[k][o] = "none"
      BY <1>0, <2>4
    <3>2. Requesting(client'[k]) /\ Using(k)' /\ \A o \in Names : Believed(k, o)' = "none"
      BY <3>1 DEF Requesting, Using, Believed, AtHome
    <3> QED BY <1>5, <3>2
  <2> QED BY <1>0, <1>8, <2>3, <2>4, Zenon DEF Opens
<1>9. CASE Closes(k)
  <2>1. client[k].pc = "mapped" /\ client'[k] = [client[k] EXCEPT !.pc = "unload", !.object = 0] /\ UNCHANGED prev
    BY <1>0, <1>9 DEF Closes
  <2>2. /\ client'[k].pc = "unload" /\ client'[k].name = client[k].name /\ client'[k].path = client[k].path
        /\ client'[k].form = client[k].form
    BY <1>0, <2>1 DEF Client
  <2>3. Requesting(client'[k])
    BY <1>1, <2>1, <2>2 DEF Requesting
  <2>4. Using(k)'
    <3>1. client[k].name \in Names
      BY <1>1, <2>1 DEF Requesting
    <3>2. View(memory', client[k].name) = View(memory, client[k].name) /\ Mapped(memory', client[k].name)
      BY <1>1, <1>4, <2>1, <3>1 DEF Using
    <3> QED BY <1>1, <2>1, <2>2, <3>2 DEF Using
  <2>5. \A o \in Names : Believed(k, o)' = Believed(k, o)
    BY <2>1, <2>2 DEF Believed
  <2> QED BY <1>5, <2>3, <2>4, <2>5
<1> QED BY <1>0, <1>6, <1>7, <1>8, <1>9 DEF ClientNext

\* Every step keeps the invariant.
LEMMA AloneStep ==
  ASSUME Alone, AInv, [Next]_vars
  PROVE  AInv'
<1>0. BInv'
  BY AloneIs, WholeStep DEF AInv
<1> DEFINE Goal == RequestingOK' /\ OwnOK' /\ QuietOK' /\ HoldsOK' /\ UsingOK'
<1> SUFFICES Goal
  BY <1>0 DEF AInv
<1>1. ASSUME UNCHANGED <<memory, call, client, prev, failed>>, phase' # "stopping",
             phase' \in {"down", "starting"} => phase \in {"down", "starting"}
      PROVE  Goal
  <2>1. RequestingOK' /\ OwnOK' /\ QuietOK'
    BY <1>1 DEF AInv, RequestingOK, OwnOK, QuietOK
  <2>2. HoldsOK' /\ UsingOK'
    BY <1>1 DEF AInv, HoldsOK, Holds, Believed, UsingOK, Using
  <2> QED BY <2>1, <2>2
<1> HIDE DEF Goal
<1>2. CASE Start \/ Listen \/ Rests \/ UNCHANGED vars
  BY <1>1, <1>2 DEF Start, Listen, Rests, vars, AInv, QuietOK
<1>3. ~Crash
  BY AloneIs DEF Crash, NothingBreaks, AInv, BInv, WInv, FInv, SInv, IInv, ProcessOK
<1>4. ~Exit
  BY DEF Exit, AInv, QuietOK
<1>5. ~LoadCommandLine
  <2>1. Len(CommandLine) = 0 /\ nextFile \in 1 .. Len(CommandLine) + 1
    BY DEF Alone, AInv, BInv, WInv, FInv, SInv, IInv, ProcessOK
  <2> QED BY <2>1 DEF LoadCommandLine
<1>6. ASSUME NEW t \in Threads, ThreadNext(t) PROVE Goal
  BY <1>6, ThreadAlone DEF Goal
<1>7. ASSUME NEW k \in Clients, ClientNext(k) PROVE Goal
  BY <1>7, ClientAlone DEF Goal
<1> QED BY <1>2, <1>3, <1>4, <1>5, <1>6, <1>7 DEF Next

\* What the benchmark has mapped, in such a state.
LEMMA AloneView ==
  ASSUME Alone, AInv
  PROVE  ViewIsRequested
<1> SUFFICES ASSUME NEW k \in Clients, client[k].pc = "mapped"
             PROVE  memory.objects[client[k].object] = Content(client[k], Full)
  BY DEF ViewIsRequested
<1> DEFINE n == client[k].name
           v == View(memory, n)
<1>1. Requesting(client[k]) /\ Using(k)
  BY DEF AInv, RequestingOK, UsingOK
<1>2. /\ n \in Names /\ client[k].path \in Paths /\ client[k].form = FormOf(n) /\ prev[k][n] = client[k].path
      /\ client[k].object = memory.shm[n] /\ client[k].object # 0 /\ v.fill > 0
  BY <1>1 DEF Requesting, Using
<1>3. v = memory.objects[client[k].object]
  BY <1>2 DEF View
<1>4. v \in [path : Paths \cup {"none"}, form : Forms \cup {"none"}, fill : 0 .. Full]
  BY <1>2, ViewType DEF Object, AInv, BInv, WInv, FInv, SInv, IInv
<1>5. v.form = FormOf(n) /\ v.path = client[k].path
  <2>1. Holds(k, n) /\ Believed(k, n) = client[k].path /\ client[k].path # "none"
    BY <1>2, ServerAssumption DEF AInv, HoldsOK, Believed
  <2> QED BY <1>2, <2>1 DEF Holds
<1>6. v.fill = Full
  <2>1. \A t \in Threads : call[t].pc = "idle"
    <3>1. ASSUME NEW t \in Threads, call[t].pc # "idle" PROVE FALSE
      <4>1. call[t].from \in Clients /\ client[call[t].from].pc # "mapped"
        BY <3>1, OwnCall DEF RequestOf
      <4>2. call[t].from = k
        BY <4>1, AloneIs
      <4> QED BY <4>1, <4>2
    <3> QED BY <3>1
  <2>2. Whole(n)
    BY <1>2 DEF AInv, BInv, WInv, WholeOK
  <2> QED BY <1>2, <2>1, <2>2 DEF Whole
<1> HIDE DEF v
<1> QED BY <1>2, <1>3, <1>4, <1>5, <1>6 DEF Content

\* At first nothing is asked for and nothing is there.
LEMMA AloneInit ==
  ASSUME Init
  PROVE  AInv
<1>1. BInv
  BY WholeInit
<1>2. client = [k \in Clients |-> AtHome] /\ AtHome.pc = "idle" /\ phase = "down" /\ failed = {}
  BY DEF Init, AtHome
<1>3. \A n \in Names : View(memory, n).fill = 0
  BY DEF Init, View, NewMemory, NoData
<1>4. \A t \in Threads : call[t].pc = "idle"
  BY DEF Init, NoCall
<1>5. RequestingOK /\ UsingOK
  BY <1>2 DEF RequestingOK, Requesting, UsingOK, Using
<1>6. OwnOK /\ QuietOK /\ HoldsOK
  BY <1>2, <1>3, <1>4 DEF OwnOK, QuietOK, HoldsOK, Holds, Threads
<1> QED BY <1>1, <1>5, <1>6 DEF AInv

\* The invariant holds.
LEMMA AloneAlways ==
  ASSUME Alone
  PROVE  Spec => []AInv
<1>1. AInv /\ [Next]_vars => AInv'
  BY AloneStep
<1> QED BY <1>1, AloneInit, PTL DEF Spec

(***************************************************************************)
(* A benchmark that has a server with one thread to itself maps the        *)
(* dataset that it asked for, all of it, in the form of its name, in       *)
(* however many sessions and with whichever paths are missing, no objects  *)
(* or too short.                                                           *)
(***************************************************************************)
THEOREM AloneFindsRequested ==
  ASSUME Alone
  PROVE  Spec => []ViewIsRequested
<1>1. AInv => ViewIsRequested
  BY AloneView
<1> QED BY <1>1, AloneAlways, PTL

(***************************************************************************)
(* The sequence of requests that one benchmark sends never fails an        *)
(* assertion of the server: those of unload, malloc and realloc that the   *)
(* segment is loaded or not, and that of realloc that its pointer is the   *)
(* current one; and no load of it uses a destroyed segment.                *)
(***************************************************************************)
THEOREM AloneNeverAsserts ==
  ASSUME Alone
  PROVE  Spec => []AssertionsHold
<1>1. AInv => AssertionsHold
  BY DEF AInv, QuietOK, AssertionsHold
<1> QED BY <1>1, AloneAlways, PTL
=============================================================================
