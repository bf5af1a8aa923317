----------------------------- MODULE ServerProofs -----------------------------
(***************************************************************************)
(* Theorems about the server, for every set of clients, names and paths    *)
(* and every command line, through crashes.  The first part holds for any  *)
(* number of threads in httplib's pool, the last with one, where the       *)
(* handlers come one after the other; ServeRace shows what becomes of that *)
(* with two.                                                               *)
(***************************************************************************)
EXTENDS ServedDatasets, SequenceTheorems, TLAPS

(***************************************************************************)
(* What every operation of SharedMemorySegment preserves, whatever the     *)
(* names, the segments and the contents.                                   *)
(***************************************************************************)

(***************************************************************************)
(* The memory record on its own: what a handler may leave behind, and one  *)
(* lemma per operation of SharedMemorySegment.  NodeOK and EntryCurrent    *)
(* are RegistryIsCurrent for one entry of the registry: that its segment   *)
(* is there, and that it has the object under the name.                    *)
(***************************************************************************)
Object == [path : Paths \cup {"none"}, form : Forms \cup {"none"}, fill : 0 .. Full]
SegmentNode == [name : Names, object : Nat, mapped : BOOLEAN, alive : BOOLEAN]
MemoryType == [objects : Seq(Object), shm : [Names -> Nat], nodes : Seq(SegmentNode),
               registry : [Names -> Nat], current : Nat]

NodeOK(m, n) ==
  m.registry[n] # 0 => /\ m.nodes[m.registry[n]].alive
                       /\ m.nodes[m.registry[n]].name = n

EntryCurrent(m, n) == m.registry[n] # 0 => m.nodes[m.registry[n]].object = m.shm[n]

MemoryOK(m) ==
  /\ m \in MemoryType
  /\ \A n \in Names : m.shm[n] \in 0 .. Len(m.objects)
  /\ \A k \in 1 .. Len(m.nodes) : m.nodes[k].object \in 1 .. Len(m.objects)
  /\ \A n \in Names : m.registry[n] \in 0 .. Len(m.nodes)
  /\ m.current \in 0 .. Len(m.nodes)
  /\ \A n \in Names : NodeOK(m, n)

\* Nodes and objects are never taken back, and only a load's
\* setCurrentSharedMemory and the end of the process move current.
Grows(m, r) ==
  /\ Len(m.nodes) <= Len(r.nodes) /\ Len(m.objects) <= Len(r.objects)
  /\ \A k \in 1 .. Len(m.nodes) : r.nodes[k].name = m.nodes[k].name
KeepsCurrent(m, r) == r.current = m.current /\ Grows(m, r)

\* The entries of these names stay current.
EntriesKept(m, r, names) == \A n \in names : EntryCurrent(m, n) => EntryCurrent(r, n)

\* What grows twice has grown.
LEMMA GrowsTwice ==
  ASSUME NEW l, MemoryOK(l), NEW m, MemoryOK(m), NEW r, MemoryOK(r), Grows(l, m), Grows(m, r)
  PROVE  Grows(l, r)
<1>1. /\ Len(l.objects) \in Nat /\ Len(m.objects) \in Nat /\ Len(r.objects) \in Nat
      /\ Len(l.nodes) \in Nat /\ Len(m.nodes) \in Nat /\ Len(r.nodes) \in Nat
  BY DEF MemoryOK, MemoryType
<1>2. \A k \in 1 .. Len(l.nodes) : k \in 1 .. Len(m.nodes)
  BY <1>1 DEF Grows
<1> QED BY <1>1, <1>2 DEF Grows

\* The memory before the first start.
LEMMA NewMemoryOK == MemoryOK(NewMemory)
  BY DEF MemoryOK, MemoryType, NewMemory, NodeOK

\* Opening a name only adds an object, under a name that has none.
LEMMA OpenOrCreateOK ==
  ASSUME NEW m, MemoryOK(m), NEW name \in Names
  PROVE  /\ MemoryOK(OpenOrCreate(m, name))
         /\ OpenOrCreate(m, name).shm[name] \in 1 .. Len(OpenOrCreate(m, name).objects)
         /\ OpenOrCreate(m, name).nodes = m.nodes
         /\ OpenOrCreate(m, name).registry = m.registry
         /\ KeepsCurrent(m, OpenOrCreate(m, name))
         /\ EntriesKept(m, OpenOrCreate(m, name), Names)
<1> DEFINE o == OpenOrCreate(m, name)
<1>1. CASE m.shm[name] # 0
  BY <1>1 DEF OpenOrCreate, MemoryOK, MemoryType, KeepsCurrent, Grows, EntriesKept
<1>2. CASE m.shm[name] = 0
  <2>1. o = [objects |-> Append(m.objects, NoData),
             shm |-> [m.shm EXCEPT ![name] = Len(m.objects) + 1],
             nodes |-> m.nodes, registry |-> m.registry, current |-> m.current]
    BY <1>2 DEF OpenOrCreate, MemoryOK, MemoryType
  <2>2. NoData \in Object
    BY ServerAssumption DEF NoData, Object, Full
  <2>3. /\ o.objects = Append(m.objects, NoData) /\ o.objects \in Seq(Object)
        /\ Len(o.objects) = Len(m.objects) + 1
        /\ o.shm = [m.shm EXCEPT ![name] = Len(m.objects) + 1]
        /\ o.nodes = m.nodes /\ o.registry = m.registry /\ o.current = m.current
    BY <2>1, <2>2 DEF MemoryOK, MemoryType
  <2>4. o \in MemoryType
    BY <2>1, <2>3 DEF MemoryOK, MemoryType
  <2>5. /\ \A n \in Names : NodeOK(o, n)
        /\ EntriesKept(m, o, Names)
    <3>1. EntryCurrent(m, name) => m.registry[name] = 0
      <4>1. m.registry[name] # 0 => m.nodes[m.registry[name]].object # 0
        BY DEF MemoryOK, MemoryType
      <4> QED BY <1>2, <4>1 DEF EntryCurrent
    <3>2. \A n \in Names : o.shm[n] = IF n = name THEN Len(m.objects) + 1 ELSE m.shm[n]
      BY <2>3 DEF MemoryOK, MemoryType
    <3> HIDE DEF o
    <3> QED BY <2>3, <3>1, <3>2 DEF MemoryOK, NodeOK, EntryCurrent, EntriesKept
  <2>6. /\ \A n \in Names : o.shm[n] \in 0 .. Len(o.objects)
        /\ \A k \in 1 .. Len(o.nodes) : o.nodes[k].object \in 1 .. Len(o.objects)
        /\ o.shm[name] \in 1 .. Len(o.objects)
    <3>1. /\ m.shm \in [Names -> Nat] /\ \A n \in Names : m.shm[n] \in 0 .. Len(m.objects)
          /\ \A k \in 1 .. Len(m.nodes) : m.nodes[k].object \in 1 .. Len(m.objects)
          /\ Len(m.objects) \in Nat
      BY DEF MemoryOK, MemoryType
    <3>2. \A k \in 1 .. Len(o.nodes) : o.nodes[k].object \in 1 .. Len(o.objects)
      <4> HIDE DEF o
      <4>1. \A k \in 1 .. Len(m.nodes) : m.nodes[k].object \in 1 .. Len(m.objects) + 1
        BY <3>1
      <4> QED BY <2>3, <4>1
    <3> HIDE DEF o
    <3> QED BY <2>3, <3>1, <3>2
  <2>7. MemoryOK(o)
    BY <2>3, <2>4, <2>5, <2>6 DEF MemoryOK
  <2>8. KeepsCurrent(m, o)
    BY <2>3 DEF KeepsCurrent, Grows, MemoryOK, MemoryType
  <2> QED BY <2>3, <2>5, <2>6, <2>7, <2>8
<1> QED BY <1>1, <1>2

\* The entry of a name exists afterwards, and is current.
LEMMA CreateOrGetOK ==
  ASSUME NEW m, MemoryOK(m), NEW name \in Names
  PROVE  /\ MemoryOK(createOrGetMemorySegment(m, name))
         /\ createOrGetMemorySegment(m, name).registry[name]
              \in 1 .. Len(createOrGetMemorySegment(m, name).nodes)
         /\ KeepsCurrent(m, createOrGetMemorySegment(m, name))
         /\ EntriesKept(m, createOrGetMemorySegment(m, name), Names)
<1> DEFINE g == createOrGetMemorySegment(m, name)
<1>1. CASE m.registry[name] # 0
  BY <1>1 DEF createOrGetMemorySegment, MemoryOK, MemoryType, KeepsCurrent, Grows, EntriesKept
<1>2. CASE m.registry[name] = 0
  <2> DEFINE o == OpenOrCreate(m, name)
             node == [name |-> name, object |-> o.shm[name], mapped |-> FALSE, alive |-> TRUE]
  <2>1. /\ MemoryOK(o) /\ o.shm[name] \in 1 .. Len(o.objects)
        /\ o.nodes = m.nodes /\ o.registry = m.registry /\ KeepsCurrent(m, o)
        /\ EntriesKept(m, o, Names)
    BY OpenOrCreateOK
  <2> HIDE DEF o
  <2>2. g = [objects |-> o.objects, shm |-> o.shm, nodes |-> Append(o.nodes, node),
             registry |-> [o.registry EXCEPT ![name] = Len(o.nodes) + 1], current |-> o.current]
    BY <1>2, <2>1 DEF createOrGetMemorySegment, MemoryOK, MemoryType, o
  <2>3. node \in SegmentNode
    BY <2>1 DEF SegmentNode, MemoryOK, MemoryType
  <2> HIDE DEF node
  <2>4. /\ g.objects = o.objects /\ g.shm = o.shm /\ g.current = o.current
        /\ g.nodes = Append(o.nodes, node) /\ g.nodes \in Seq(SegmentNode)
        /\ Len(g.nodes) = Len(o.nodes) + 1
        /\ g.registry = [o.registry EXCEPT ![name] = Len(o.nodes) + 1]
    BY <2>1, <2>2, <2>3 DEF MemoryOK, MemoryType
  <2>5. g \in MemoryType
    BY <2>1, <2>2, <2>4 DEF MemoryOK, MemoryType
  <2>6. \A n \in Names : g.registry[n] = IF n = name THEN Len(o.nodes) + 1 ELSE o.registry[n]
    BY <2>1, <2>4 DEF MemoryOK, MemoryType
  <2>7. \A n \in Names : NodeOK(g, n)
    <3>1. /\ Len(o.nodes) \in Nat /\ g.nodes[Len(o.nodes) + 1] = node
          /\ \A k \in 1 .. Len(o.nodes) : g.nodes[k] = o.nodes[k]
          /\ \A n \in Names : o.registry[n] \in 0 .. Len(o.nodes) /\ NodeOK(o, n)
      BY <2>1, <2>4 DEF MemoryOK, MemoryType
    <3>2. node.name = name /\ node.alive
      BY DEF node
    <3> QED BY <2>6, <3>1, <3>2 DEF NodeOK
  <2>8. \A k \in 1 .. Len(g.nodes) : g.nodes[k].object \in 1 .. Len(g.objects)
    BY <2>1, <2>4 DEF MemoryOK, MemoryType, node
  <2>9. MemoryOK(g)
    <3>1. /\ Len(o.nodes) \in Nat /\ \A n \in Names : o.registry[n] \in 0 .. Len(o.nodes)
          /\ \A n \in Names : o.shm[n] \in 0 .. Len(o.objects)
          /\ o.current \in 0 .. Len(o.nodes)
      BY <2>1 DEF MemoryOK, MemoryType
    <3>2. /\ \A n \in Names : g.registry[n] \in 0 .. Len(g.nodes)
          /\ \A n \in Names : g.shm[n] \in 0 .. Len(g.objects)
          /\ g.current \in 0 .. Len(g.nodes)
      BY <2>4, <2>6, <3>1
    <3> QED BY <2>5, <2>7, <2>8, <3>2 DEF MemoryOK
  <2>10. Len(o.nodes) \in Nat /\ \A k \in 1 .. Len(o.nodes) : g.nodes[k] = o.nodes[k]
    BY <2>1, <2>4 DEF MemoryOK, MemoryType
  <2>11. EntriesKept(m, g, Names)
    <3>1. \A n \in Names : o.registry[n] \in 0 .. Len(o.nodes)
      BY <2>1 DEF MemoryOK
    <3>2. g.nodes[Len(o.nodes) + 1].object = o.shm[name]
      BY <2>1, <2>4 DEF node, MemoryOK, MemoryType
    <3> HIDE DEF g
    <3> QED BY <2>1, <2>4, <2>6, <2>10, <3>1, <3>2 DEF EntriesKept, EntryCurrent
  <2>12. KeepsCurrent(m, g)
    <3> HIDE DEF g
    <3> QED BY <2>1, <2>4, <2>10 DEF KeepsCurrent, Grows
  <2>13. g.registry[name] \in 1 .. Len(g.nodes)
    BY <2>1, <2>4, <2>6, <2>10
  <2> QED BY <2>9, <2>11, <2>12, <2>13
<1> QED BY <1>1, <1>2

\* A new entry is not mapped, and no other name has its entry changed.
LEMMA CreateOrGetEntry ==
  ASSUME NEW m, MemoryOK(m), NEW name \in Names
  PROVE  LET g == createOrGetMemorySegment(m, name) IN
         /\ \A n \in Names \ {name} : g.registry[n] = m.registry[n]
         /\ m.registry[name] = 0 => ~g.nodes[g.registry[name]].mapped
<1> DEFINE g == createOrGetMemorySegment(m, name)
           o == OpenOrCreate(m, name)
           node == [name |-> name, object |-> o.shm[name], mapped |-> FALSE, alive |-> TRUE]
<1>1. CASE m.registry[name] # 0
  BY <1>1 DEF createOrGetMemorySegment
<1>2. CASE m.registry[name] = 0
  <2>1. MemoryOK(o) /\ o.nodes = m.nodes /\ o.registry = m.registry
    BY OpenOrCreateOK
  <2>2. g = [o EXCEPT !.nodes = Append(@, node), !.registry[name] = Len(m.nodes) + 1]
    BY <1>2 DEF createOrGetMemorySegment
  <2>3. ~node.mapped
    OBVIOUS
  <2> HIDE DEF g, o, node
  <2>4. /\ g.nodes = Append(m.nodes, node)
        /\ g.registry = [m.registry EXCEPT ![name] = Len(m.nodes) + 1]
    BY <2>1, <2>2 DEF MemoryOK, MemoryType
  <2>5. g.registry[name] = Len(m.nodes) + 1 /\ g.nodes[Len(m.nodes) + 1] = node
    BY <2>4 DEF MemoryOK, MemoryType
  <2>6. \A n \in Names \ {name} : g.registry[n] = m.registry[n]
    BY <2>4 DEF MemoryOK, MemoryType
  <2> QED BY <2>3, <2>5, <2>6 DEF g
<1> QED BY <1>1, <1>2

\* A segment mapped or unmapped.
WithMapped(m, k, b) == [m EXCEPT !.nodes[k].mapped = b]

\* Mapping and unmapping a segment leaves the names alone.
LEMMA MapOK ==
  ASSUME NEW m, MemoryOK(m), NEW k \in 1 .. Len(m.nodes), NEW b \in BOOLEAN,
         NEW r, r = WithMapped(m, k, b)
  PROVE  /\ MemoryOK(r) /\ r.objects = m.objects /\ r.shm = m.shm
         /\ r.registry = m.registry /\ r.current = m.current
         /\ Len(r.nodes) = Len(m.nodes)
         /\ r.nodes[k].name = m.nodes[k].name /\ r.nodes[k].object = m.nodes[k].object
<1> DEFINE node == [m.nodes[k] EXCEPT !.mapped = b]
<1>1. r = [objects |-> m.objects, shm |-> m.shm, nodes |-> [m.nodes EXCEPT ![k] = node],
           registry |-> m.registry, current |-> m.current]
  <2>1. m = [objects |-> m.objects, shm |-> m.shm, nodes |-> m.nodes,
             registry |-> m.registry, current |-> m.current]
    BY DEF MemoryOK, MemoryType
  <2>2. r = [m EXCEPT !.nodes = [m.nodes EXCEPT ![k] = node]]
    BY DEF WithMapped
  <2> HIDE DEF node
  <2> QED BY <2>1, <2>2
<1>2. m.nodes[k] \in SegmentNode
  BY DEF MemoryOK, MemoryType
<1>3. /\ node \in SegmentNode /\ node.name = m.nodes[k].name
      /\ node.object = m.nodes[k].object /\ node.alive = m.nodes[k].alive
  BY <1>2 DEF SegmentNode
<1> HIDE DEF node
<1>4. /\ [m.nodes EXCEPT ![k] = node] \in Seq(SegmentNode)
      /\ Len([m.nodes EXCEPT ![k] = node]) = Len(m.nodes)
      /\ \A j \in 1 .. Len(m.nodes) : [m.nodes EXCEPT ![k] = node][j] = IF j = k THEN node ELSE m.nodes[j]
  BY <1>3, ExceptSeq DEF MemoryOK, MemoryType
<1>5. r \in MemoryType
  BY <1>1, <1>4 DEF MemoryOK, MemoryType
<1>6. \A n \in Names : NodeOK(r, n)
  BY <1>1, <1>3, <1>4 DEF MemoryOK, MemoryType, NodeOK
<1>7. \A j \in 1 .. Len(r.nodes) : r.nodes[j].object \in 1 .. Len(r.objects)
  BY <1>1, <1>3, <1>4 DEF MemoryOK
<1>8. MemoryOK(r)
  <2>1. Len(r.nodes) = Len(m.nodes)
    BY <1>1, <1>4
  <2>2. /\ \A n \in Names : r.shm[n] \in 0 .. Len(r.objects)
        /\ \A n \in Names : r.registry[n] \in 0 .. Len(r.nodes)
        /\ r.current \in 0 .. Len(r.nodes)
    BY <1>1, <2>1 DEF MemoryOK
  <2> QED BY <1>5, <1>6, <1>7, <2>2 DEF MemoryOK
<1> QED BY <1>1, <1>3, <1>4, <1>8

\* The segment itself is mapped or unmapped.
LEMMA MapNode ==
  ASSUME NEW m, MemoryOK(m), NEW k \in 1 .. Len(m.nodes), NEW b \in BOOLEAN,
         NEW r, r = WithMapped(m, k, b)
  PROVE  r.nodes[k].mapped = b /\ r.nodes[k].alive = m.nodes[k].alive
<1>1. m.nodes[k] \in SegmentNode /\ k \in DOMAIN m.nodes /\ m \in MemoryType
  BY DEF MemoryOK, MemoryType
<1>2. r.nodes[k] = [m.nodes[k] EXCEPT !.mapped = b]
  BY <1>1 DEF MemoryType, WithMapped
<1> QED BY <1>1, <1>2 DEF SegmentNode

\* Neither is the registry disturbed, or another segment.
NodeMaps(m, r, k, b) ==
  /\ MemoryOK(r) /\ KeepsCurrent(m, r)
  /\ r.registry = m.registry /\ r.objects = m.objects
  /\ Len(r.nodes) = Len(m.nodes) /\ r.nodes[k].mapped = b
  /\ \A j \in 1 .. Len(m.nodes) :
       /\ r.nodes[j].name = m.nodes[j].name /\ r.nodes[j].object = m.nodes[j].object
       /\ r.nodes[j].alive = m.nodes[j].alive
       /\ j # k => r.nodes[j] = m.nodes[j]
\* Mapping or unmapping one segment keeps the memory sound and changes no other.
LEMMA MapKeeps ==
  ASSUME NEW m, MemoryOK(m), NEW k \in 1 .. Len(m.nodes), NEW b \in BOOLEAN
  PROVE  /\ NodeMaps(m, WithMapped(m, k, b), k, b)
         /\ EntriesKept(m, WithMapped(m, k, b), Names) /\ WithMapped(m, k, b).shm = m.shm
<1> DEFINE r == WithMapped(m, k, b)
<1>1. /\ MemoryOK(r) /\ r.registry = m.registry /\ r.objects = m.objects /\ r.shm = m.shm
      /\ r.current = m.current
      /\ Len(r.nodes) = Len(m.nodes) /\ r.nodes[k].mapped = b
      /\ r.nodes[k].name = m.nodes[k].name /\ r.nodes[k].object = m.nodes[k].object
      /\ r.nodes[k].alive = m.nodes[k].alive
  <2>1. r = WithMapped(m, k, b)
    OBVIOUS
  <2> HIDE DEF r
  <2> QED BY <2>1, MapOK, MapNode
<1>2. \A j \in 1 .. Len(m.nodes) : j # k => r.nodes[j] = m.nodes[j]
  BY DEF MemoryOK, MemoryType, WithMapped
<1> HIDE DEF r
<1>3. Len(m.objects) \in Nat /\ Len(m.nodes) \in Nat /\ \A n \in Names : m.registry[n] \in 0 .. Len(m.nodes)
  BY DEF MemoryOK, MemoryType
<1>4. \A j \in 1 .. Len(m.nodes) :
        /\ r.nodes[j].name = m.nodes[j].name /\ r.nodes[j].object = m.nodes[j].object
        /\ r.nodes[j].alive = m.nodes[j].alive
  BY <1>1, <1>2
<1>5. KeepsCurrent(m, r) /\ EntriesKept(m, r, Names)
  BY <1>1, <1>3, <1>4 DEF KeepsCurrent, Grows, EntriesKept, EntryCurrent
<1> QED BY <1>1, <1>2, <1>4, <1>5 DEF NodeMaps, r

\* A name is unlinked, and its segment unmapped: its entry is out of date.
LEMMA EraseOK ==
  ASSUME NEW m, MemoryOK(m), NEW k \in 1 .. Len(m.nodes), NEW name \in Names,
         m.nodes[k].name = name
  PROVE  /\ NodeMaps(m, erase(m, k), k, FALSE)
         /\ EntriesKept(m, erase(m, k), Names \ {name})
         /\ \A n \in Names : erase(m, k).shm[n] = IF n = name THEN 0 ELSE m.shm[n]
<1> DEFINE u == unload(m, k)
           r == erase(m, k)
<1>1. NodeMaps(m, u, k, FALSE) /\ EntriesKept(m, u, Names) /\ u.shm = m.shm
  <2>1. u = WithMapped(m, k, FALSE) /\ FALSE \in BOOLEAN
    BY DEF unload, WithMapped
  <2> HIDE DEF u
  <2> QED BY <2>1, MapKeeps
<1>2. r = [u EXCEPT !.shm[name] = 0]
  BY DEF erase
<1> HIDE DEF u, r
<1>3. u = [objects |-> u.objects, shm |-> u.shm, nodes |-> u.nodes,
           registry |-> u.registry, current |-> u.current]
  BY <1>1 DEF NodeMaps, MemoryOK, MemoryType
<1>4. r = [objects |-> u.objects, shm |-> [u.shm EXCEPT ![name] = 0], nodes |-> u.nodes,
           registry |-> u.registry, current |-> u.current]
  BY <1>2, <1>3
<1>5. \A n \in Names : r.shm[n] = IF n = name THEN 0 ELSE u.shm[n]
  <2>1. u.shm \in [Names -> Nat]
    BY <1>1 DEF NodeMaps, MemoryOK, MemoryType
  <2> QED BY <1>1, <1>4, <2>1
<1>6. r \in MemoryType
  BY <1>1, <1>4 DEF NodeMaps, MemoryOK, MemoryType
<1>7. MemoryOK(r)
  <2>1. /\ r.objects = u.objects /\ r.nodes = u.nodes /\ r.registry = u.registry
        /\ r.current = u.current /\ Len(u.objects) \in Nat
    BY <1>1, <1>4 DEF NodeMaps, MemoryOK, MemoryType
  <2>2. ASSUME NEW n \in Names PROVE r.shm[n] \in 0 .. Len(r.objects)
    <3>1. u.shm[n] \in 0 .. Len(u.objects)
      BY <1>1 DEF NodeMaps, MemoryOK
    <3> QED BY <1>5, <2>1, <3>1
  <2>3. \A n \in Names : NodeOK(r, n)
    BY <1>1, <2>1 DEF NodeMaps, MemoryOK, NodeOK
  <2> QED BY <1>1, <1>6, <2>1, <2>2, <2>3 DEF NodeMaps, MemoryOK
<1>8. EntriesKept(m, r, Names \ {name})
  BY <1>1, <1>4, <1>5 DEF EntriesKept, EntryCurrent
<1>9. NodeMaps(m, r, k, FALSE)
  BY <1>1, <1>4, <1>7 DEF NodeMaps, KeepsCurrent, Grows
<1> QED BY <1>1, <1>5, <1>8, <1>9 DEF r

\* The entry of a name goes, and its segment: no two names share a segment.
LEMMA ForgetOK ==
  ASSUME NEW m, MemoryOK(m), NEW name \in Names, NEW r, r = forget(m, name)
  PROVE  /\ MemoryOK(r) /\ KeepsCurrent(m, r) /\ EntriesKept(m, r, Names)
         /\ r.objects = m.objects /\ r.shm = m.shm
         /\ \A n \in Names : r.registry[n] = IF n = name THEN 0 ELSE m.registry[n]
         /\ Len(r.nodes) = Len(m.nodes)
         /\ m.registry[name] # 0 => /\ ~r.nodes[m.registry[name]].alive
                                    /\ ~r.nodes[m.registry[name]].mapped
         /\ \A j \in 1 .. Len(m.nodes) :
              /\ r.nodes[j].name = m.nodes[j].name /\ r.nodes[j].object = m.nodes[j].object
              /\ j # m.registry[name] => r.nodes[j] = m.nodes[j]
<1>0. Len(m.objects) \in Nat /\ Len(m.nodes) \in Nat
  BY DEF MemoryOK, MemoryType
<1>1. CASE m.registry[name] = 0
  BY <1>0, <1>1 DEF forget, KeepsCurrent, Grows, EntriesKept
<1>2. CASE m.registry[name] # 0
  <2> DEFINE k == m.registry[name]
             dead == [m.nodes[k] EXCEPT !.mapped = FALSE, !.alive = FALSE]
  <2>1. k \in 1 .. Len(m.nodes) /\ m.nodes[k].name = name
    BY <1>2 DEF MemoryOK, NodeOK
  <2>2. m.nodes[k] \in SegmentNode
    BY <2>1 DEF MemoryOK, MemoryType
  <2>3. /\ dead \in SegmentNode /\ dead.name = m.nodes[k].name /\ dead.object = m.nodes[k].object
        /\ ~dead.mapped /\ ~dead.alive
    BY <2>2 DEF SegmentNode
  <2>4. r = [objects |-> m.objects, shm |-> m.shm, nodes |-> [m.nodes EXCEPT ![k] = dead],
             registry |-> [m.registry EXCEPT ![name] = 0], current |-> m.current]
    <3>1. m = [objects |-> m.objects, shm |-> m.shm, nodes |-> m.nodes,
               registry |-> m.registry, current |-> m.current]
      BY DEF MemoryOK, MemoryType
    <3>2. r = [m EXCEPT !.registry = [m.registry EXCEPT ![name] = 0],
                        !.nodes = [m.nodes EXCEPT ![k] = dead]]
      BY <1>2 DEF forget
    <3> HIDE DEF dead, k
    <3> QED BY <3>1, <3>2
  <2> HIDE DEF dead
  <2>5. /\ r.nodes \in Seq(SegmentNode) /\ Len(r.nodes) = Len(m.nodes)
        /\ \A j \in 1 .. Len(m.nodes) : r.nodes[j] = IF j = k THEN dead ELSE m.nodes[j]
    BY <2>1, <2>3, <2>4, ExceptSeq DEF MemoryOK, MemoryType
  <2>6. \A n \in Names : r.registry[n] = IF n = name THEN 0 ELSE m.registry[n]
    <3>1. m.registry \in [Names -> Nat]
      BY DEF MemoryOK, MemoryType
    <3> QED BY <2>4, <3>1
  <2>7. r \in MemoryType
    BY <2>4, <2>5 DEF MemoryOK, MemoryType
  <2>8. \A n \in Names : n # name /\ m.registry[n] # 0 =>
          m.registry[n] # k /\ r.nodes[m.registry[n]] = m.nodes[m.registry[n]]
    <3> SUFFICES ASSUME NEW n \in Names, n # name, m.registry[n] # 0
                 PROVE  m.registry[n] # k /\ r.nodes[m.registry[n]] = m.nodes[m.registry[n]]
      OBVIOUS
    <3>1. m.registry[n] \in 1 .. Len(m.nodes) /\ NodeOK(m, n)
      BY DEF MemoryOK
    <3>2. m.registry[n] # k
      BY <2>1, <3>1 DEF NodeOK
    <3> QED BY <2>5, <3>1, <3>2
  <2>9. \A n \in Names : NodeOK(r, n)
    BY <2>6, <2>8 DEF NodeOK, MemoryOK
  <2>10. EntriesKept(m, r, Names)
    BY <2>4, <2>6, <2>8 DEF EntryCurrent, EntriesKept
  <2>11. \A j \in 1 .. Len(m.nodes) :
           /\ r.nodes[j].name = m.nodes[j].name /\ r.nodes[j].object = m.nodes[j].object
           /\ j # k => r.nodes[j] = m.nodes[j]
    BY <2>3, <2>5
  <2>12. MemoryOK(r)
    <3>1. r.objects = m.objects /\ r.shm = m.shm /\ r.current = m.current
      BY <2>4
    <3>2. \A j \in 1 .. Len(r.nodes) : r.nodes[j].object \in 1 .. Len(r.objects)
      BY <2>5, <2>11, <3>1 DEF MemoryOK
    <3>3. ASSUME NEW n \in Names
          PROVE  r.registry[n] \in 0 .. Len(r.nodes) /\ r.shm[n] \in 0 .. Len(r.objects)
      <4>1. m.registry[n] \in 0 .. Len(m.nodes) /\ m.shm[n] \in 0 .. Len(m.objects)
        BY DEF MemoryOK
      <4> QED BY <1>0, <2>5, <2>6, <3>1, <4>1
    <3>4. r.current \in 0 .. Len(r.nodes)
      BY <2>5, <3>1 DEF MemoryOK
    <3> QED BY <2>7, <2>9, <3>2, <3>3, <3>4 DEF MemoryOK
  <2>13. KeepsCurrent(m, r)
    BY <1>0, <2>4, <2>5, <2>11 DEF KeepsCurrent, Grows
  <2> QED BY <2>1, <2>3, <2>4, <2>5, <2>6, <2>10, <2>11, <2>12, <2>13
<1> QED BY <1>1, <1>2

\* free, in one go, takes the name, its entry and no other.
LEMMA FreeOK ==
  ASSUME NEW m, MemoryOK(m), NEW name \in Names
  PROVE  /\ MemoryOK(free(m, name)) /\ KeepsCurrent(m, free(m, name))
         /\ EntriesKept(m, free(m, name), Names)
         /\ free(m, name).objects = createOrGetMemorySegment(m, name).objects
         /\ \A n \in Names : free(m, name).shm[n] =
              IF n = name THEN 0 ELSE createOrGetMemorySegment(m, name).shm[n]
         /\ \A n \in Names : free(m, name).registry[n] =
              IF n = name THEN 0 ELSE createOrGetMemorySegment(m, name).registry[n]
         /\ ~free(m, name).nodes[createOrGetMemorySegment(m, name).registry[name]].alive
<1> DEFINE g == createOrGetMemorySegment(m, name)
           k == g.registry[name]
           e == erase(g, k)
           r == free(m, name)
<1>1. MemoryOK(g) /\ k \in 1 .. Len(g.nodes) /\ KeepsCurrent(m, g) /\ EntriesKept(m, g, Names)
  BY CreateOrGetOK
<1>2. g.nodes[k].name = name /\ k # 0
  BY <1>1 DEF MemoryOK, NodeOK
<1>3. r = forget(e, name)
  BY DEF free
<1> HIDE DEF g, r
<1>4. /\ MemoryOK(e) /\ KeepsCurrent(g, e) /\ EntriesKept(g, e, Names \ {name})
      /\ e.objects = g.objects /\ e.registry = g.registry
      /\ \A n \in Names : e.shm[n] = IF n = name THEN 0 ELSE g.shm[n]
  <2>1. /\ NodeMaps(g, e, k, FALSE) /\ EntriesKept(g, e, Names \ {name})
        /\ \A n \in Names : e.shm[n] = IF n = name THEN 0 ELSE g.shm[n]
    BY <1>1, <1>2, EraseOK
  <2> HIDE DEF e, k
  <2> QED BY <2>1 DEF NodeMaps
<1> HIDE DEF e
<1>5. /\ MemoryOK(r) /\ KeepsCurrent(e, r) /\ EntriesKept(e, r, Names)
      /\ r.objects = e.objects /\ r.shm = e.shm
      /\ \A n \in Names : r.registry[n] = IF n = name THEN 0 ELSE e.registry[n]
      /\ ~r.nodes[k].alive
  <2>1. MemoryOK(e) /\ e.registry[name] = k /\ k # 0
    BY <1>2, <1>4
  <2> HIDE DEF k
  <2> QED BY <2>1, <1>3, ForgetOK
<1>6. KeepsCurrent(m, r)
  <2>1. Grows(m, e)
    BY <1>1, <1>4, GrowsTwice DEF KeepsCurrent
  <2>2. Grows(m, r)
    BY <1>4, <1>5, <2>1, GrowsTwice DEF KeepsCurrent
  <2> QED BY <1>1, <1>4, <1>5, <2>2 DEF KeepsCurrent
<1>7. EntriesKept(m, r, Names)
  BY <1>1, <1>4, <1>5 DEF EntriesKept, EntryCurrent
<1> QED BY <1>4, <1>5, <1>6, <1>7 DEF r, g

\* Writing an object changes no name and no node.
LEMMA ContentOK ==
  ASSUME NEW m, MemoryOK(m), NEW i \in 1 .. Len(m.objects), NEW content \in Object
  PROVE  /\ MemoryOK([m EXCEPT !.objects[i] = content])
         /\ [m EXCEPT !.objects[i] = content].nodes = m.nodes
         /\ [m EXCEPT !.objects[i] = content].current = m.current
         /\ Len([m EXCEPT !.objects[i] = content].objects) = Len(m.objects)
         /\ [m EXCEPT !.objects[i] = content].objects[i] = content
         /\ [m EXCEPT !.objects[i] = content].registry = m.registry
         /\ [m EXCEPT !.objects[i] = content].shm = m.shm
<1> DEFINE r == [m EXCEPT !.objects[i] = content]
<1>1. r = [objects |-> [m.objects EXCEPT ![i] = content], shm |-> m.shm, nodes |-> m.nodes,
           registry |-> m.registry, current |-> m.current]
  <2>1. m = [objects |-> m.objects, shm |-> m.shm, nodes |-> m.nodes,
             registry |-> m.registry, current |-> m.current]
    BY DEF MemoryOK, MemoryType
  <2>2. r = [m EXCEPT !.objects = [m.objects EXCEPT ![i] = content]]
    OBVIOUS
  <2> HIDE DEF r
  <2> QED BY <2>1, <2>2
<1> HIDE DEF r
<1>2. /\ [m.objects EXCEPT ![i] = content] \in Seq(Object)
      /\ Len([m.objects EXCEPT ![i] = content]) = Len(m.objects)
  BY ExceptSeq DEF MemoryOK, MemoryType
<1>3. r \in MemoryType /\ \A n \in Names : NodeOK(r, n)
  BY <1>1, <1>2 DEF MemoryOK, MemoryType, NodeOK
<1>4. MemoryOK(r)
  BY <1>1, <1>2, <1>3 DEF MemoryOK, MemoryType
<1>5. [m.objects EXCEPT ![i] = content][i] = content
  BY DEF MemoryOK, MemoryType
<1> QED BY <1>1, <1>2, <1>4, <1>5 DEF r

\* The load of a segment makes it current.
LEMMA SetCurrentOK ==
  ASSUME NEW m, MemoryOK(m), NEW k \in 1 .. Len(m.nodes)
  PROVE  /\ MemoryOK([m EXCEPT !.current = k]) /\ [m EXCEPT !.current = k].current = k
         /\ [m EXCEPT !.current = k].objects = m.objects
         /\ [m EXCEPT !.current = k].nodes = m.nodes
         /\ [m EXCEPT !.current = k].registry = m.registry
         /\ [m EXCEPT !.current = k].shm = m.shm
<1> DEFINE r == [m EXCEPT !.current = k]
<1>1. r = [objects |-> m.objects, shm |-> m.shm, nodes |-> m.nodes,
           registry |-> m.registry, current |-> k]
  <2>1. m = [objects |-> m.objects, shm |-> m.shm, nodes |-> m.nodes,
             registry |-> m.registry, current |-> m.current]
    BY DEF MemoryOK, MemoryType
  <2>2. r = [m EXCEPT !.current = k]
    OBVIOUS
  <2> HIDE DEF r
  <2> QED BY <2>1, <2>2
<1> HIDE DEF r
<1>2. r \in MemoryType /\ \A n \in Names : NodeOK(r, n)
  BY <1>1 DEF MemoryOK, MemoryType, NodeOK
<1>3. MemoryOK(r)
  BY <1>1, <1>2 DEF MemoryOK
<1> QED BY <1>1, <1>3 DEF r

\* The process takes its registry with it, whatever names are left.
LEMMA ProcessEndsOK ==
  ASSUME NEW m \in MemoryType,
         \A n \in Names : m.shm[n] \in 0 .. Len(m.objects),
         \A k \in 1 .. Len(m.nodes) : m.nodes[k].object \in 1 .. Len(m.objects)
  PROVE  /\ MemoryOK(ProcessEnds(m))
         /\ \A n \in Names : ProcessEnds(m).registry[n] = 0
<1> DEFINE Ended(k) == [m.nodes[k] EXCEPT !.mapped = FALSE, !.alive = FALSE]
           nodes == [k \in DOMAIN m.nodes |-> Ended(k)]
           r == ProcessEnds(m)
<1>1. r = [objects |-> m.objects, shm |-> m.shm, nodes |-> nodes,
           registry |-> [n \in Names |-> 0], current |-> 0]
  <2>1. m = [objects |-> m.objects, shm |-> m.shm, nodes |-> m.nodes,
             registry |-> m.registry, current |-> m.current]
    BY DEF MemoryType
  <2>2. r = [m EXCEPT !.nodes = nodes, !.registry = [n \in Names |-> 0], !.current = 0]
    BY DEF ProcessEnds
  <2> HIDE DEF r, nodes
  <2> QED BY <2>1, <2>2
<1>2. \A k \in 1 .. Len(m.nodes) : Ended(k) \in SegmentNode /\ Ended(k).object = m.nodes[k].object
  <2> SUFFICES ASSUME NEW k \in 1 .. Len(m.nodes)
               PROVE  Ended(k) \in SegmentNode /\ Ended(k).object = m.nodes[k].object
    OBVIOUS
  <2>1. m.nodes[k] \in SegmentNode
    BY DEF MemoryType
  <2> QED BY <2>1 DEF SegmentNode
<1> HIDE DEF Ended, r
<1>3. nodes \in Seq(SegmentNode) /\ Len(nodes) = Len(m.nodes) /\ DOMAIN m.nodes = 1 .. Len(m.nodes)
  BY <1>2 DEF MemoryType
<1>4. r \in MemoryType
  BY <1>1, <1>3 DEF MemoryType
<1>5. \A k \in 1 .. Len(r.nodes) : r.nodes[k].object \in 1 .. Len(r.objects)
  BY <1>1, <1>2, <1>3
<1>6. \A n \in Names : r.registry[n] = 0 /\ r.shm[n] \in 0 .. Len(r.objects)
  BY <1>1
<1>7. r.current = 0 /\ Len(r.nodes) \in Nat
  BY <1>1, <1>3
<1>8. MemoryOK(r)
  BY <1>4, <1>5, <1>6, <1>7 DEF MemoryOK, NodeOK
<1> QED BY <1>6, <1>8 DEF r

\* malloc and realloc write the object of the current segment.
LEMMA WriteOK ==
  ASSUME NEW m, MemoryOK(m), m.current # 0, NEW d, d.path \in Paths, d.form \in Forms,
         NEW fill \in 0 .. Full
  PROVE  /\ MemoryOK(realloc(m, d, fill))
         /\ realloc(m, d, fill).current = m.current
         /\ Len(realloc(m, d, fill).objects) = Len(m.objects)
         /\ KeepsCurrent(m, realloc(m, d, fill)) /\ EntriesKept(m, realloc(m, d, fill), Names)
<1> DEFINE i == m.nodes[m.current].object
           content == Content(d, fill)
           v == [m EXCEPT !.objects[i] = content]
<1>1. m.current \in 1 .. Len(m.nodes) /\ i \in 1 .. Len(m.objects)
  BY DEF MemoryOK
<1>2. content \in Object
  BY DEF Object, Content
<1>3. /\ MemoryOK(v) /\ v.nodes = m.nodes /\ v.current = m.current
      /\ Len(v.objects) = Len(m.objects) /\ v.objects[i] = content
      /\ v.registry = m.registry /\ v.shm = m.shm
  <2> HIDE DEF content, i
  <2> QED BY <1>1, <1>2, ContentOK
<1>4. realloc(m, d, fill) = [v EXCEPT !.nodes[m.current].mapped = TRUE]
  BY DEF realloc, load, Write
<1> HIDE DEF v, i, content
<1> DEFINE x == realloc(m, d, fill)
<1> HIDE DEF x
<1>5. /\ MemoryOK(x) /\ KeepsCurrent(v, x) /\ x.objects = v.objects /\ EntriesKept(v, x, Names)
  <2>1. m.current \in 1 .. Len(v.nodes) /\ MemoryOK(v) /\ TRUE \in BOOLEAN
    BY <1>1, <1>3
  <2>2. x = WithMapped(v, m.current, TRUE)
    BY <1>4 DEF x, WithMapped
  <2> QED BY <2>1, <2>2, MapKeeps DEF NodeMaps
<1>6. KeepsCurrent(m, x) /\ EntriesKept(m, x, Names)
  BY <1>3, <1>5 DEF KeepsCurrent, Grows, EntriesKept, EntryCurrent
<1> QED BY <1>3, <1>5, <1>6 DEF x, KeepsCurrent

(***************************************************************************)
(* The server with any number of threads.                                  *)
(***************************************************************************)

(***************************************************************************)
(* The inductive invariant.  The segment that a handler has looked up has  *)
(* the name it was asked for.  A load has a name, a path and a form; from  *)
(* where it parses somebody has set the current segment, and what it has   *)
(* allocated exists.                                                       *)
(***************************************************************************)
Call == [pc : {"idle", "unlink", "forget", "unmap", "adopt", "check", "parse", "store"},
         from : Clients \cup {"main"}, name : Names \cup {"none"}, path : Paths \cup {"none"},
         form : Forms \cup {"none"}, force : BOOLEAN, node : Nat, root : Nat, stored : 0 .. Strings]
Client == [pc : {"idle", "erase", "load", "open", "mapped", "unload", "stop"},
           name : Names \cup {"none"}, path : Paths \cup {"none"}, form : Forms \cup {"none"},
           object : Nat]

Referring == {"unlink", "forget", "unmap", "adopt", "check"}
Loading == {"adopt", "check", "parse", "store"}

CallOK(m, c) ==
  /\ c \in Call /\ c.node \in 0 .. Len(m.nodes)
  /\ c.pc # "idle" => c.name \in Names
  /\ c.pc \in Referring => c.node # 0 /\ m.nodes[c.node].name = c.name
  /\ c.pc \in Loading => c.path \in Paths /\ c.form \in Forms
  /\ c.pc \in {"parse", "store"} => m.current # 0
  /\ c.pc = "store" => c.root \in 1 .. Len(m.objects)

CallsOK == call \in [Threads -> Call] /\ \A t \in Threads : CallOK(memory, call[t])

\* The clients that ask, or are about to ask, for a dataset.
Asks(k) == client[k].pc = "load" \/ (client[k].pc = "erase" /\ k \notin Users)

ClientsOK ==
  /\ client \in [Clients -> Client]
  /\ \A k \in Clients : client[k].pc # "idle" => client[k].name \in Names
  /\ \A k \in Clients : Asks(k) => client[k].path \in Paths /\ client[k].form \in Forms
  /\ prev \in [Benchmarks -> [Names -> Paths \cup {"none"}]]

ProcessOK ==
  /\ phase \in {"down", "starting", "listening", "stopping"}
  /\ nextFile \in 1 .. Len(CommandLine) + 1
  /\ sessions \in 0 .. MaxSessions /\ starts \in 0 .. MaxStarts /\ crashes \in 0 .. MaxCrashes

EntriesCurrent == \A n \in Names \ Unlinked : EntryCurrent(memory, n)

IInv == MemoryOK(memory) /\ EntriesCurrent /\ CallsOK /\ ClientsOK /\ ProcessOK

\* The invariant gives the type invariant that the runs check.
LEMMA InvariantTypes == IInv => TypeOK
<1> SUFFICES ASSUME IInv PROVE TypeOK
  OBVIOUS
<1>1. memory.objects \in Seq([path : Paths \cup {"none"}, form : Forms \cup {"none"}, fill : 0 .. Full])
  BY DEF IInv, MemoryOK, MemoryType, Object
<1>2. /\ memory.shm \in [Names -> 0 .. Len(memory.objects)]
      /\ memory.registry \in [Names -> 0 .. Len(memory.nodes)]
      /\ memory.current \in 0 .. Len(memory.nodes)
  BY DEF IInv, MemoryOK, MemoryType
<1> DEFINE Typed == [name : Names, object : 1 .. Len(memory.objects), mapped : BOOLEAN, alive : BOOLEAN]
<1>3. memory.nodes \in Seq(Typed)
  <2>1. memory.nodes \in Seq(SegmentNode)
    BY DEF IInv, MemoryOK, MemoryType
  <2>2. \A k \in 1 .. Len(memory.nodes) : memory.nodes[k] \in Typed
    <3> TAKE k \in 1 .. Len(memory.nodes)
    <3>1. memory.nodes[k] \in SegmentNode /\ memory.nodes[k].object \in 1 .. Len(memory.objects)
      BY <2>1 DEF IInv, MemoryOK
    <3> QED BY <3>1 DEF SegmentNode
  <2> HIDE DEF Typed
  <2> QED BY <2>1, <2>2
<1>4. /\ phase \in {"down", "starting", "listening", "stopping"}
      /\ nextFile \in 1 .. Len(CommandLine) + 1
      /\ sessions \in 0 .. MaxSessions /\ starts \in 0 .. MaxStarts /\ crashes \in 0 .. MaxCrashes
  BY DEF IInv, ProcessOK
<1> DEFINE Typing == [pc : {"idle", "unlink", "forget", "unmap", "adopt", "check", "parse", "store"},
                      from : Clients \cup {"main"}, name : Names \cup {"none"},
                      path : Paths \cup {"none"}, form : Forms \cup {"none"}, force : BOOLEAN,
                      node : 0 .. Len(memory.nodes), root : Nat, stored : 0 .. Strings]
<1>5. call \in [Threads -> Typing] /\ client \in [Clients -> Client]
  <2>1. \A t \in Threads : call[t] \in Typing
    BY DEF IInv, CallsOK, CallOK, Call
  <2> HIDE DEF Typing
  <2> QED BY <2>1 DEF IInv, CallsOK, ClientsOK
<1>6. prev \in [Benchmarks -> [Names -> Paths \cup {"none"}]]
  BY DEF IInv, ClientsOK
<1> QED BY <1>1, <1>2, <1>3, <1>4, <1>5, <1>6 DEF TypeOK, Client

\* The invariant gives the safety property.
LEMMA InvariantCurrent == IInv => RegistryIsCurrent
  BY DEF IInv, EntriesCurrent, MemoryOK, MemoryType, NodeOK, EntryCurrent, RegistryIsCurrent

\* A thread that does nothing is well formed.
LEMMA NoCallOK == \A m : MemoryOK(m) => CallOK(m, NoCall)
<1>1. NoCall \in Call /\ NoCall.pc = "idle" /\ NoCall.node = 0
  BY ServerAssumption DEF Call, NoCall
<1>2. \A m : MemoryOK(m) => Len(m.nodes) \in Nat
  BY DEF MemoryOK, MemoryType
<1> QED BY <1>1, <1>2 DEF CallOK, Referring, Loading

\* The server is down and nobody has asked for anything.
LEMMA InitInvariant == Init => IInv
<1> SUFFICES ASSUME Init PROVE IInv
  OBVIOUS
<1>1. MemoryOK(memory)
  BY NewMemoryOK DEF Init
<1>2. CallsOK
  BY NoCallOK, <1>1 DEF Init, CallsOK, CallOK
<1>5. EntriesCurrent
  BY DEF Init, EntriesCurrent, EntryCurrent, NewMemory
<1>3. ClientsOK
  BY DEF Init, ClientsOK, Client, AtHome, Asks
<1>4. ProcessOK
  BY ServerAssumption DEF Init, ProcessOK
<1> QED BY <1>1, <1>2, <1>3, <1>4, <1>5 DEF IInv

\* Wherever a reply or an error sends clients, they keep what they asked for.
LEMMA ContinueOK ==
  ASSUME ClientsOK, NEW ks, NEW replied \in BOOLEAN, Continue(ks, replied)
  PROVE  ClientsOK'
<1>1. \A k \in Clients :
        \/ client'[k] \in {AtHome, client[k]}
        \/ Asks(k) /\ client'[k] = [client[k] EXCEPT !.pc = "load"]
        \/ Asks(k) /\ client'[k] = [client[k] EXCEPT !.pc = "open"]
  <2> SUFFICES ASSUME NEW k \in Clients, client'[k] \notin {AtHome, client[k]}
               PROVE  \/ Asks(k) /\ client'[k] = [client[k] EXCEPT !.pc = "load"]
                      \/ Asks(k) /\ client'[k] = [client[k] EXCEPT !.pc = "open"]
    OBVIOUS
  <2>1. Goes(k, replied) # "idle" => Asks(k) /\ Goes(k, replied) \in {"load", "open"}
    BY DEF Goes, AfterReply, AfterError, Asks
  <2> QED BY <2>1 DEF Continue
<1>2. \A k \in Clients :
        /\ client'[k] \in Client
        /\ client'[k].pc # "idle" => client'[k].name \in Names
        /\ Asks(k)' => client'[k].path \in Paths /\ client'[k].form \in Forms
  <2> TAKE k \in Clients
  <2>1. client[k] \in Client /\ AtHome \in Client /\ AtHome.pc = "idle"
    BY DEF ClientsOK, Client, AtHome
  <2>2. \A pc \in {"load", "open"} : LET moved == [client[k] EXCEPT !.pc = pc] IN
          /\ moved \in Client /\ moved.name = client[k].name
          /\ moved.path = client[k].path /\ moved.form = client[k].form
    BY <2>1 DEF Client
  <2>3. Asks(k) => client[k].pc # "idle"
    BY DEF Asks
  <2> QED BY <1>1, <2>1, <2>2, <2>3 DEF ClientsOK, Asks
<1>3. DOMAIN client' = Clients /\ client' = [k \in Clients |-> client'[k]]
  BY DEF Continue
<1>4. prev' \in [Benchmarks -> [Names -> Paths \cup {"none"}]]
  <2>1. \A k \in Benchmarks :
          prev'[k] = prev[k] \/ prev'[k] = [prev[k] EXCEPT ![client[k].name] = client[k].path]
    BY DEF Continue
  <2>2. \A k \in Benchmarks : client[k].path \in Paths \cup {"none"}
    BY DEF ClientsOK, Client, Clients
  <2>3. \A k \in Benchmarks : prev'[k] \in [Names -> Paths \cup {"none"}]
    <3> SUFFICES ASSUME NEW k \in Benchmarks PROVE prev'[k] \in [Names -> Paths \cup {"none"}]
      OBVIOUS
    <3>1. prev[k] \in [Names -> Paths \cup {"none"}]
      BY DEF ClientsOK
    <3> QED BY <2>1, <2>2, <3>1
  <2>4. prev' = [k \in Benchmarks |-> prev'[k]]
    BY DEF Continue
  <2> QED BY <2>3, <2>4
<1>5. client' \in [Clients -> Client]
  BY <1>2, <1>3
<1> QED BY <1>2, <1>4, <1>5 DEF ClientsOK

\* The same memory, and the same registry.
LEMMA MemorySame ==
  ASSUME NEW m, MemoryOK(m)
  PROVE  KeepsCurrent(m, m) /\ EntriesKept(m, m, Names)
<1>1. Len(m.nodes) \in Nat /\ Len(m.objects) \in Nat
  BY DEF MemoryOK, MemoryType
<1> QED BY <1>1 DEF KeepsCurrent, Grows, EntriesKept

\* A call that nobody touches stays well formed.
LEMMA CallKept ==
  ASSUME NEW m, MemoryOK(m), NEW r, MemoryOK(r), Grows(m, r), m.current # 0 => r.current # 0,
         NEW c, CallOK(m, c)
  PROVE  CallOK(r, c)
<1>1. /\ Len(m.objects) \in Nat /\ Len(r.objects) \in Nat /\ Len(m.nodes) \in Nat /\ Len(r.nodes) \in Nat
  BY DEF MemoryOK, MemoryType
<1>2. c.node \in 0 .. Len(m.nodes) /\ c.node \in 0 .. Len(r.nodes)
  BY <1>1 DEF CallOK, Grows
<1>3. c.pc \in Referring => c.node \in 1 .. Len(m.nodes)
  BY <1>1, <1>2 DEF CallOK
<1> QED BY <1>1, <1>2, <1>3 DEF CallOK, Grows

\* Steps of nobody's handler.
LEMMA CallsKept ==
  ASSUME IInv, MemoryOK(memory'), UNCHANGED call, KeepsCurrent(memory, memory'),
         EntriesKept(memory, memory', Names)
  PROVE  CallsOK' /\ EntriesCurrent'
<1>1. CallsOK'
  BY CallKept DEF IInv, CallsOK, KeepsCurrent
<1>2. EntriesCurrent'
  BY DEF IInv, EntriesCurrent, EntriesKept, Unlinked
<1> QED BY <1>1, <1>2

\* Steps that leave the server alone.
LEMMA ServerStays ==
  ASSUME IInv, UNCHANGED <<memory, call>>
  PROVE  MemoryOK(memory') /\ CallsOK' /\ EntriesCurrent'
<1>1. CallsOK' /\ MemoryOK(memory')
  BY DEF IInv, CallsOK
<1> QED BY <1>1 DEF IInv, EntriesCurrent, Unlinked

\* A step of one handler.
LEMMA CallMoves ==
  ASSUME IInv, MemoryOK(memory'), Grows(memory, memory'), memory.current # 0 => memory'.current # 0,
         NEW t \in Threads, NEW c, CallOK(memory', c), call' = [call EXCEPT ![t] = c]
  PROVE  CallsOK'
<1>1. \A u \in Threads : CallOK(memory', call[u])
  BY CallKept DEF IInv, CallsOK
<1> QED BY <1>1 DEF IInv, CallsOK, CallOK

\* No name is unlinked by it, and no entry dropped that was.
LEMMA CallStep ==
  ASSUME IInv, MemoryOK(memory'), Grows(memory, memory'), memory.current # 0 => memory'.current # 0,
         EntriesKept(memory, memory', Names),
         NEW t \in Threads, NEW c, CallOK(memory', c), call' = [call EXCEPT ![t] = c],
         call[t].pc # "forget"
  PROVE  CallsOK' /\ EntriesCurrent'
<1>1. \A u \in Threads : call[u].pc = "forget" => call'[u] = call[u]
  BY DEF IInv, CallsOK
<1>2. Unlinked \subseteq Unlinked'
  BY <1>1 DEF Unlinked
<1>3. EntriesCurrent'
  BY <1>2 DEF IInv, EntriesCurrent, EntriesKept
<1> QED BY <1>3, CallMoves

\* The end of the process, by a failed assertion or a crash.
LEMMA DiesOK ==
  ASSUME IInv, Dies
  PROVE  /\ MemoryOK(memory') /\ EntriesCurrent' /\ CallsOK' /\ ClientsOK'
         /\ phase' = "down" /\ nextFile' = nextFile
<1>1. MemoryOK(memory') /\ \A n \in Names : memory'.registry[n] = 0
  BY ProcessEndsOK DEF IInv, MemoryOK, Dies
<1>2. CallsOK'
  BY <1>1, NoCallOK DEF Dies, CallsOK, CallOK
<1>3. ClientsOK'
  BY ContinueOK DEF IInv, Dies
<1>4. EntriesCurrent'
  BY <1>1 DEF EntriesCurrent, EntryCurrent
<1> QED BY <1>1, <1>2, <1>3, <1>4 DEF Dies

\* A failed assertion ends the process like a crash, and is remembered.
LEMMA FailsOK ==
  ASSUME IInv, NEW assertion, Fails(assertion)
  PROVE  IInv'
<1>1. Dies /\ UNCHANGED <<sessions, starts, crashes>>
  BY DEF Fails
<1>2. ProcessOK'
  BY <1>1, DiesOK DEF IInv, ProcessOK
<1> QED BY <1>1, <1>2, DiesOK DEF IInv

\* What a reply leaves to show: the memory and the calls.
LEMMA ReplyOK ==
  ASSUME IInv, NEW k, Reply(k)
  PROVE  ClientsOK' /\ UNCHANGED <<sessions, starts, crashes>>
  BY ContinueOK DEF IInv, Reply

\* What a handler that goes on leaves to show.
LEMMA GoesOnOK ==
  ASSUME IInv, NEW t \in Threads, NEW next, GoesOn(t, next)
  PROVE  /\ ClientsOK' /\ ProcessOK'
         /\ call' = [call EXCEPT ![t] = [call[t] EXCEPT !.pc = next]]
  BY DEF IInv, GoesOn, ClientsOK, Asks, ProcessOK

\* What a handler that replies leaves to show.
LEMMA RepliesOK ==
  ASSUME IInv, NEW t \in Threads, Replies(t)
  PROVE  ClientsOK' /\ ProcessOK' /\ call' = [call EXCEPT ![t] = NoCall]
  BY ReplyOK DEF IInv, Replies, ProcessOK

\* The first step of a handler looks the name up.
LEMMA LookupOK ==
  ASSUME IInv, NEW t \in Threads, call[t] = NoCall, NEW from \in Clients \cup {"main"},
         NEW r, r.name \in Names, r.path \in Paths \cup {"none"}, r.form \in Forms \cup {"none"},
         r.force \in BOOLEAN, NEW next \in {"unlink", "unmap", "adopt", "check"},
         next \in Loading => r.path \in Paths /\ r.form \in Forms, Lookup(t, from, r, next)
  PROVE  /\ MemoryOK(memory') /\ EntriesCurrent' /\ CallsOK' /\ ClientsOK'
         /\ UNCHANGED <<sessions, starts, crashes>>
<1> DEFINE got == createOrGetMemorySegment(memory, r.name)
           c   == [pc |-> next, from |-> from, name |-> r.name, path |-> r.path,
                   form |-> r.form, force |-> r.force,
                   node |-> got.registry[r.name], root |-> 0, stored |-> 0]
<1>1. /\ MemoryOK(got) /\ got.registry[r.name] \in 1 .. Len(got.nodes)
      /\ KeepsCurrent(memory, got) /\ EntriesKept(memory, got, Names)
  BY CreateOrGetOK DEF IInv
<1>2. memory' = got /\ call' = [call EXCEPT ![t] = c] /\ UNCHANGED <<client, prev, sessions, starts, crashes>>
  BY DEF Lookup
<1> HIDE DEF got
<1>3. got.nodes[got.registry[r.name]].name = r.name /\ Len(got.nodes) \in Nat
  <2>1. Len(got.nodes) \in Nat /\ NodeOK(got, r.name)
    BY <1>1 DEF MemoryOK, MemoryType
  <2> QED BY <1>1, <2>1 DEF NodeOK
<1>4. c \in Call /\ c.pc = next /\ c.name = r.name /\ c.node = got.registry[r.name]
      /\ c.path = r.path /\ c.form = r.form
  <2> DEFINE k == got.registry[r.name]
  <2>1. k \in Nat
    BY <1>1, <1>3
  <2>2. 0 \in 0 .. Strings
    BY ServerAssumption
  <2> HIDE DEF k
  <2>3. next \in {"idle", "unlink", "forget", "unmap", "adopt", "check", "parse", "store"}
    OBVIOUS
  <2>4. PICK force \in BOOLEAN : force = r.force
    OBVIOUS
  <2>5. c = [pc |-> next, from |-> from, name |-> r.name, path |-> r.path,
             form |-> r.form, force |-> force, node |-> k, root |-> 0, stored |-> 0]
    BY <2>4 DEF k
  <2> HIDE DEF c
  <2>6. c \in Call
    BY <2>1, <2>2, <2>3, <2>5 DEF Call
  <2>7. c.node = k
    BY <2>5
  <2> QED BY <2>5, <2>6, <2>7 DEF k
<1> HIDE DEF c
<1>5. CallOK(got, c)
  BY <1>1, <1>3, <1>4 DEF CallOK
<1>6. call[t].pc # "forget"
  BY DEF NoCall
<1>7. CallsOK' /\ EntriesCurrent'
  BY <1>1, <1>2, <1>5, <1>6, CallStep DEF KeepsCurrent
<1>8. ClientsOK'
  BY <1>2 DEF IInv, ClientsOK, Asks
<1> QED BY <1>1, <1>2, <1>7, <1>8

\* From here on, a name's entry is out of date.
LEMMA EraseUnlinkOK ==
  ASSUME IInv, NEW t \in Threads, EraseUnlink(t)
  PROVE  IInv'
<1> DEFINE c == [call[t] EXCEPT !.pc = "forget"]
<1>1. /\ call[t].pc = "unlink" /\ call[t] \in Call /\ call[t].name \in Names
      /\ call[t].node \in 1 .. Len(memory.nodes) /\ memory.nodes[call[t].node].name = call[t].name
  BY DEF EraseUnlink, Refers, IInv, CallsOK, CallOK, Referring
<1>2. memory' = erase(memory, call[t].node) /\ GoesOn(t, "forget")
  BY DEF EraseUnlink
<1>3. /\ NodeMaps(memory, memory', call[t].node, FALSE)
      /\ EntriesKept(memory, memory', Names \ {call[t].name})
  BY <1>1, <1>2, EraseOK DEF IInv
<1>4. /\ ClientsOK' /\ ProcessOK' /\ call' = [call EXCEPT ![t] = c]
  BY <1>2, GoesOnOK
<1>5. c \in Call /\ c.pc = "forget" /\ c.name = call[t].name /\ c.node = call[t].node
  BY <1>1 DEF Call
<1> HIDE DEF c
<1>6. CallOK(memory', c)
  BY <1>1, <1>3, <1>5 DEF CallOK, NodeMaps, Loading
<1>7. CallsOK'
  BY <1>3, <1>4, <1>6, CallMoves DEF NodeMaps, KeepsCurrent
<1>8. call'[t] = c /\ \A u \in Threads : call[u].pc = "forget" => call'[u] = call[u]
  BY <1>1, <1>4 DEF IInv, CallsOK
<1>9. Unlinked \subseteq Unlinked' /\ call[t].name \in Unlinked'
  BY <1>5, <1>8 DEF Unlinked
<1>10. EntriesCurrent'
  BY <1>3, <1>9 DEF IInv, EntriesCurrent, EntriesKept
<1> QED BY <1>3, <1>4, <1>7, <1>10 DEF IInv, NodeMaps

\* The entry goes, whoever has made it.
LEMMA EraseForgetOK ==
  ASSUME IInv, NEW t \in Threads, EraseForget(t)
  PROVE  IInv'
<1>1. call[t].pc = "forget" /\ call[t].name \in Names
  BY DEF EraseForget, IInv, CallsOK, CallOK
<1>2. memory' = forget(memory, call[t].name) /\ Replies(t)
  BY DEF EraseForget
<1>3. /\ MemoryOK(memory') /\ KeepsCurrent(memory, memory') /\ EntriesKept(memory, memory', Names)
      /\ memory'.registry[call[t].name] = 0
  BY <1>1, <1>2, ForgetOK DEF IInv
<1>4. ClientsOK' /\ ProcessOK' /\ call' = [call EXCEPT ![t] = NoCall]
  BY <1>2, RepliesOK
<1>5. CallsOK'
  BY <1>3, <1>4, NoCallOK, CallMoves DEF KeepsCurrent
<1>6. \A u \in Threads : u # t => call'[u] = call[u]
  BY <1>4 DEF IInv, CallsOK
<1>7. Unlinked \subseteq Unlinked' \cup {call[t].name}
  BY <1>6 DEF Unlinked
<1>8. EntryCurrent(memory', call[t].name)
  BY <1>3 DEF EntryCurrent
<1>9. EntriesCurrent'
  BY <1>3, <1>7, <1>8 DEF IInv, EntriesCurrent, EntriesKept
<1> QED BY <1>3, <1>4, <1>5, <1>9 DEF IInv

\* A handler that replies without having touched an entry.
LEMMA AnswerOK ==
  ASSUME IInv, NEW t \in Threads, Replies(t), call[t].pc # "forget", MemoryOK(memory'),
         KeepsCurrent(memory, memory'), EntriesKept(memory, memory', Names)
  PROVE  IInv'
<1>1. ClientsOK' /\ ProcessOK' /\ call' = [call EXCEPT ![t] = NoCall]
  BY RepliesOK
<1>2. CallsOK' /\ EntriesCurrent'
  BY <1>1, NoCallOK, CallStep DEF KeepsCurrent
<1> QED BY <1>1, <1>2 DEF IInv

\* /unload unmaps, or fails.
LEMMA UnloadOK ==
  ASSUME IInv, NEW t \in Threads, Unload(t)
  PROVE  IInv'
<1>1. /\ call[t].pc = "unmap" /\ call[t].node \in 1 .. Len(memory.nodes)
  <2>1. call[t].pc = "unmap" /\ CallOK(memory, call[t])
    BY DEF Unload, Refers, IInv, CallsOK
  <2> QED BY <2>1 DEF CallOK, Referring
<1>2. CASE Fails("unload: loaded()")
  BY <1>2, FailsOK
<1>3. CASE memory' = unload(memory, call[t].node) /\ Replies(t)
  <2>1. memory' = WithMapped(memory, call[t].node, FALSE) /\ FALSE \in BOOLEAN
    BY <1>3 DEF unload, WithMapped
  <2>2. NodeMaps(memory, memory', call[t].node, FALSE) /\ EntriesKept(memory, memory', Names)
    BY <1>1, <2>1, MapKeeps DEF IInv
  <2> QED BY <1>1, <1>3, <2>2, AnswerOK DEF NodeMaps
<1> QED BY <1>2, <1>3 DEF Unload

\* A load goes on to its next step.
LEMMA LoadGoesOn ==
  ASSUME IInv, NEW t \in Threads, NEW next \in {"check", "parse"}, GoesOn(t, next),
         call[t].pc \in {"adopt", "check"}, MemoryOK(memory'), Grows(memory, memory'),
         next = "parse" \/ memory'.current = memory.current,
         next = "parse" => memory'.current # 0, EntriesKept(memory, memory', Names)
  PROVE  IInv'
<1> DEFINE c == [call[t] EXCEPT !.pc = next]
<1>1. /\ call[t] \in Call /\ CallOK(memory, call[t])
  BY DEF IInv, CallsOK
<1>2. ClientsOK' /\ ProcessOK' /\ call' = [call EXCEPT ![t] = c]
  BY GoesOnOK
<1>3. c \in Call /\ c.pc = next /\ c.name = call[t].name /\ c.node = call[t].node
      /\ c.path = call[t].path /\ c.form = call[t].form
  BY <1>1 DEF Call
<1> HIDE DEF c
<1>4. CallOK(memory', c)
  <2>1. /\ call[t].name \in Names /\ call[t].path \in Paths /\ call[t].form \in Forms
        /\ call[t].node \in 1 .. Len(memory.nodes) /\ memory.nodes[call[t].node].name = call[t].name
    BY <1>1 DEF CallOK, Referring, Loading
  <2>2. Len(memory.nodes) \in Nat /\ Len(memory'.nodes) \in Nat
    BY DEF IInv, MemoryOK, MemoryType
  <2> QED BY <1>3, <2>1, <2>2 DEF CallOK, Grows
<1>5. CallsOK' /\ EntriesCurrent'
  BY <1>2, <1>4, CallStep
<1> QED BY <1>2, <1>5 DEF IInv

\* An object that exists is mapped.
LEMMA LoadAdoptOK ==
  ASSUME IInv, NEW t \in Threads, LoadAdopt(t)
  PROVE  IInv'
<1>1. /\ call[t].pc = "adopt" /\ call[t].node \in 1 .. Len(memory.nodes) /\ GoesOn(t, "check")
  BY DEF LoadAdopt, Refers, IInv, CallsOK, CallOK, Referring
<1>2. MemoryOK(memory') /\ KeepsCurrent(memory, memory') /\ EntriesKept(memory, memory', Names)
  <2>1. CASE memory' = load(memory, call[t].node)
    <3>1. memory' = WithMapped(memory, call[t].node, TRUE) /\ TRUE \in BOOLEAN
      BY <2>1 DEF load, WithMapped
    <3>2. NodeMaps(memory, memory', call[t].node, TRUE) /\ EntriesKept(memory, memory', Names)
      BY <1>1, <3>1, MapKeeps DEF IInv
    <3> QED BY <3>2 DEF NodeMaps
  <2>2. CASE memory' = memory
    BY <2>2, MemorySame DEF IInv
  <2> QED BY <2>1, <2>2 DEF LoadAdopt
<1> QED BY <1>1, <1>2, LoadGoesOn DEF KeepsCurrent

\* A load sets the segment that it has looked up, and frees its name before if
\* it is forced.
LEMMA LoadSelectOK ==
  ASSUME IInv, NEW t \in Threads, LoadSelect(t)
  PROVE  IInv'
<1> DEFINE k    == call[t].node
           base == IF loaded(memory, k) THEN free(memory, call[t].name) ELSE memory
<1>1. /\ call[t].pc = "check" /\ k \in 1 .. Len(memory.nodes) /\ call[t].name \in Names
      /\ GoesOn(t, "parse") /\ MemoryOK(memory)
  BY DEF LoadSelect, Refers, IInv, CallsOK, CallOK, Referring
<1>2. memory' = [base EXCEPT !.current = k]
  BY DEF LoadSelect
<1>3. MemoryOK(base) /\ Grows(memory, base) /\ EntriesKept(memory, base, Names)
  BY <1>1, FreeOK, MemorySame DEF KeepsCurrent
<1> HIDE DEF base
<1>4. k \in 1 .. Len(base.nodes)
  <2>1. Len(memory.nodes) \in Nat /\ Len(base.nodes) \in Nat
    BY <1>1, <1>3 DEF MemoryOK, MemoryType
  <2> QED BY <1>1, <1>3, <2>1 DEF Grows
<1>5. /\ MemoryOK(memory') /\ memory'.current = k /\ memory'.objects = base.objects
      /\ memory'.nodes = base.nodes /\ memory'.registry = base.registry /\ memory'.shm = base.shm
  BY <1>2, <1>3, <1>4, SetCurrentOK
<1>6. Grows(memory, memory') /\ EntriesKept(memory, memory', Names)
  BY <1>3, <1>5 DEF Grows, EntriesKept, EntryCurrent
<1>7. memory'.current # 0
  BY <1>4, <1>5
<1> QED BY <1>1, <1>5, <1>6, <1>7, LoadGoesOn

\* A load stores: its call stays well formed.
LEMMA StoresOK ==
  ASSUME IInv, NEW t \in Threads, call[t].pc \in {"parse", "store"}, MemoryOK(memory'),
         memory'.current = memory.current, Grows(memory, memory'),
         EntriesKept(memory, memory', Names),
         NEW c \in Call, c.pc = "store", c.root \in 1 .. Len(memory.objects),
         c.name = call[t].name, c.path = call[t].path, c.form = call[t].form, c.node = call[t].node,
         call' = [call EXCEPT ![t] = c],
         UNCHANGED <<phase, nextFile, client, prev, failed, sessions, starts, crashes>>
  PROVE  IInv'
<1>1. /\ call[t].name \in Names /\ call[t].path \in Paths /\ call[t].form \in Forms
      /\ call[t].node \in 0 .. Len(memory.nodes) /\ memory.current # 0
  BY DEF IInv, CallsOK, CallOK, Loading
<1>2. /\ Len(memory.nodes) \in Nat /\ Len(memory'.nodes) \in Nat
      /\ Len(memory.objects) \in Nat /\ Len(memory'.objects) \in Nat
  BY DEF IInv, MemoryOK, MemoryType
<1>3. CallOK(memory', c)
  BY <1>1, <1>2 DEF CallOK, Grows, Referring
<1>4. CallsOK' /\ EntriesCurrent'
  BY <1>3, CallStep
<1>5. ClientsOK' /\ ProcessOK'
  BY DEF IInv, ClientsOK, Asks, ProcessOK
<1> QED BY <1>4, <1>5 DEF IInv

\* The constructor writes the current segment, whosever it is.
LEMMA LoadAllocateOK ==
  ASSUME IInv, NEW t \in Threads, LoadAllocate(t)
  PROVE  IInv'
<1> DEFINE i == Current.object
           c == [call[t] EXCEPT !.pc = "store", !.root = i]
<1>1. /\ call[t].pc = "parse" /\ call[t] \in Call /\ call[t].path \in Paths
      /\ call[t].form \in Forms /\ memory.current # 0
  BY DEF LoadAllocate, IInv, CallsOK, CallOK, Loading
<1>2. SUFFICES ASSUME /\ memory' = malloc(memory, call[t])
                      /\ call' = [call EXCEPT ![t].pc = "store", ![t].root = i]
                      /\ UNCHANGED <<phase, nextFile, client, prev, failed, sessions, starts, crashes>>
               PROVE  IInv'
  BY FailsOK DEF LoadAllocate
<1>3. 1 \in 0 .. Full /\ memory' = realloc(memory, call[t], 1)
  BY <1>2, ServerAssumption DEF Full, malloc, realloc
<1>4. MemoryOK(memory') /\ KeepsCurrent(memory, memory') /\ EntriesKept(memory, memory', Names)
  BY <1>1, <1>3, WriteOK DEF IInv
<1>5. i \in 1 .. Len(memory.objects) /\ i \in Nat
  BY <1>1 DEF IInv, MemoryOK, MemoryType, Current
<1>6. call' = [call EXCEPT ![t] = c]
  BY <1>2
<1> HIDE DEF i
<1>7. /\ c \in Call /\ c.pc = "store" /\ c.root = i /\ c.name = call[t].name
      /\ c.path = call[t].path /\ c.form = call[t].form /\ c.node = call[t].node
  BY <1>1, <1>5 DEF Call
<1> HIDE DEF c
<1> QED BY <1>1, <1>2, <1>4, <1>5, <1>6, <1>7, StoresOK DEF KeepsCurrent

\* storeString writes the current segment.
LEMMA LoadStoreOK ==
  ASSUME IInv, NEW t \in Threads, LoadStore(t)
  PROVE  IInv'
<1> DEFINE c == [call[t] EXCEPT !.stored = call[t].stored + 1]
<1>1. /\ call[t].pc = "store" /\ call[t] \in Call /\ call[t].path \in Paths /\ call[t].form \in Forms
      /\ memory.current # 0 /\ call[t].stored < Strings /\ call[t].root \in 1 .. Len(memory.objects)
  BY DEF LoadStore, IInv, CallsOK, CallOK, Loading
<1>2. SUFFICES ASSUME /\ memory' = realloc(memory, call[t], call[t].stored + 2)
                      /\ call' = [call EXCEPT ![t].stored = @ + 1]
                      /\ UNCHANGED <<phase, nextFile, client, prev, failed, sessions, starts, crashes>>
               PROVE  IInv'
  BY FailsOK DEF LoadStore
<1>3. call[t].stored + 1 \in 0 .. Strings /\ call[t].stored + 2 \in 0 .. Full
  <2>1. call[t].stored \in 0 .. Strings
    BY <1>1 DEF Call
  <2>2. Strings \in Nat /\ call[t].stored < Strings
    BY <1>1, ServerAssumption
  <2> QED BY <2>1, <2>2 DEF Full
<1>4. MemoryOK(memory') /\ KeepsCurrent(memory, memory') /\ EntriesKept(memory, memory', Names)
  BY <1>1, <1>2, <1>3, WriteOK DEF IInv
<1>5. call' = [call EXCEPT ![t] = c]
  BY <1>2
<1>6. /\ c \in Call /\ c.pc = "store" /\ c.root = call[t].root /\ c.name = call[t].name
      /\ c.path = call[t].path /\ c.form = call[t].form /\ c.node = call[t].node
  BY <1>1, <1>3 DEF Call
<1> HIDE DEF c
<1> QED BY <1>1, <1>2, <1>4, <1>5, <1>6, StoresOK DEF KeepsCurrent

\* The copy of a conversion writes what it has allocated.
LEMMA LoadCopyOK ==
  ASSUME IInv, NEW t \in Threads, LoadCopy(t)
  PROVE  IInv'
<1> DEFINE i == call[t].root
           content == Content(call[t], Full)
           c == [call[t] EXCEPT !.stored = Strings]
<1>1. /\ call[t].pc = "store" /\ call[t] \in Call /\ call[t].path \in Paths /\ call[t].form \in Forms
      /\ i \in 1 .. Len(memory.objects)
  BY DEF LoadCopy, IInv, CallsOK, CallOK, Loading
<1>2. SUFFICES ASSUME /\ memory' = [memory EXCEPT !.objects[i] = content]
                      /\ call' = [call EXCEPT ![t].stored = Strings]
                      /\ UNCHANGED <<phase, nextFile, client, prev, failed, sessions, starts, crashes>>
               PROVE  IInv'
  BY FailsOK DEF LoadCopy
<1>3. content \in Object /\ Strings \in 0 .. Strings
  BY <1>1, ServerAssumption DEF Object, Content, Full
<1>4. call' = [call EXCEPT ![t] = c]
  BY <1>2
<1>5. /\ c \in Call /\ c.pc = "store" /\ c.root = i /\ c.name = call[t].name
      /\ c.path = call[t].path /\ c.form = call[t].form /\ c.node = call[t].node
  BY <1>1, <1>3 DEF Call
<1> HIDE DEF content, i, c
<1>6. /\ MemoryOK(memory') /\ memory'.current = memory.current /\ memory'.nodes = memory.nodes
      /\ Len(memory'.objects) = Len(memory.objects)
      /\ memory'.registry = memory.registry /\ memory'.shm = memory.shm
  BY <1>1, <1>2, <1>3, ContentOK DEF IInv
<1>7. Grows(memory, memory') /\ EntriesKept(memory, memory', Names)
  BY <1>6, MemorySame DEF IInv, KeepsCurrent, Grows, EntriesKept, EntryCurrent
<1> QED BY <1>1, <1>2, <1>4, <1>5, <1>6, <1>7, StoresOK

\* A step of a thread of the server.
LEMMA ThreadStep ==
  ASSUME IInv, NEW t \in Threads, ThreadNext(t)
  PROVE  IInv'
<1>1. ASSUME NEW k \in Clients, EraseRequest(t, k) \/ UnloadRequest(t, k) PROVE IInv'
  <2> DEFINE r == Asked(k, FALSE)
  <2>1. /\ r.name \in Names /\ r.path \in Paths \cup {"none"} /\ r.form \in Forms \cup {"none"}
        /\ r.force \in BOOLEAN /\ call[t] = NoCall
    BY <1>1 DEF EraseRequest, UnloadRequest, Serving, Waiting, IInv, ClientsOK, Client, Asked, Request
  <2> HIDE DEF r
  <2>2. PICK next \in {"unlink", "unmap"} : Lookup(t, k, r, next)
    BY <1>1 DEF EraseRequest, UnloadRequest, r
  <2>3. /\ MemoryOK(memory') /\ EntriesCurrent' /\ CallsOK' /\ ClientsOK'
        /\ UNCHANGED <<sessions, starts, crashes>>
    BY <2>1, <2>2, LookupOK DEF Loading
  <2> QED BY <1>1, <2>3 DEF EraseRequest, UnloadRequest, IInv, ProcessOK
<1>2. ASSUME NEW k \in Clients, Stop(t, k) PROVE IInv'
  <2>1. ClientsOK' /\ UNCHANGED <<sessions, starts, crashes>>
    BY <1>2, ReplyOK DEF Stop
  <2>2. MemoryOK(memory') /\ KeepsCurrent(memory, memory') /\ EntriesKept(memory, memory', Names)
    BY <1>2, MemorySame DEF Stop, IInv
  <2>3. CallsOK' /\ EntriesCurrent'
    BY <1>2, <2>2, CallsKept DEF Stop
  <2> QED BY <1>2, <2>1, <2>2, <2>3 DEF Stop, IInv, ProcessOK
<1>3. ASSUME NEW k \in Clients, LoadRequest(t, k) PROVE IInv'
  <2> DEFINE r == Asked(k, FALSE)
             next == IF r.form = "wisent" /\ ~r.force THEN "adopt" ELSE "check"
  <2>1. /\ r.name \in Names /\ r.path \in Paths /\ r.form \in Forms /\ r.force \in BOOLEAN
        /\ call[t] = NoCall /\ next \in {"adopt", "check"} /\ Lookup(t, k, r, next)
    BY <1>3 DEF LoadRequest, LoadSteps, Serving, Waiting, IInv, ClientsOK, Asks, Asked, Request
  <2> HIDE DEF r, next
  <2>2. /\ MemoryOK(memory') /\ EntriesCurrent' /\ CallsOK' /\ ClientsOK'
        /\ UNCHANGED <<sessions, starts, crashes>>
    BY <2>1, LookupOK
  <2> QED BY <1>3, <2>2 DEF LoadRequest, IInv, ProcessOK
<1>4. CASE UsesDestroyed(t)
  BY <1>4, FailsOK DEF UsesDestroyed
<1>5. ASSUME UNCHANGED memory, Replies(t), call[t].pc # "forget" PROVE IInv'
  BY <1>5, MemorySame, AnswerOK DEF IInv
<1>6. CASE LoadFound(t)
  BY <1>5, <1>6 DEF LoadFound, Refers
<1>7. CASE LoadThrows(t)
  <2>1. CASE Dies /\ UNCHANGED <<failed, sessions, starts, crashes>>
    BY <2>1, DiesOK DEF IInv, ProcessOK
  <2> QED BY <1>5, <1>7, <2>1 DEF LoadThrows
<1>8. CASE LoadReturn(t)
  BY <1>5, <1>8 DEF LoadReturn
<1> QED BY <1>1, <1>2, <1>3, <1>4, <1>6, <1>7, <1>8, EraseUnlinkOK, EraseForgetOK, UnloadOK,
           LoadAdoptOK, LoadSelectOK, LoadAllocateOK, LoadStoreOK, LoadCopyOK DEF ThreadNext

\* A step of a client.
LEMMA ClientStep ==
  ASSUME IInv, NEW k \in Clients, ClientNext(k)
  PROVE  IInv'
<1>1. ASSUME NEW pc \in {"load", "unload", "erase", "stop"}, NEW name \in Names,
             NEW path \in Paths \cup {"none"}, NEW form \in Forms \cup {"none"},
             \/ path \in Paths /\ form \in Forms
             \/ pc # "load" /\ k \in Users,
             Session(k, pc, name, path, form)
      PROVE  IInv'
  <2>1. [pc |-> pc, name |-> name, path |-> path, form |-> form, object |-> 0] \in Client
    BY DEF Client
  <2>2. ClientsOK'
    BY <1>1, <2>1 DEF Session, IInv, ClientsOK, Asks
  <2>3. ProcessOK'
    BY <1>1, ServerAssumption DEF Session, IInv, ProcessOK
  <2> QED BY <1>1, <2>2, <2>3, ServerStays DEF Session, IInv
<1>2. CASE Refused(k)
  <2>1. ClientsOK'
    BY <1>2, ContinueOK DEF Refused, IInv
  <2> QED BY <1>2, <2>1, ServerStays DEF Refused, IInv, ProcessOK
<1>3. CASE Opens(k)
  <2> DEFINE opened == IF k \in Scripts THEN memory ELSE OpenOrCreate(memory, client[k].name)
             object == opened.shm[client[k].name]
  <2>1. client[k] \in Client /\ client[k].name \in Names
    BY <1>3 DEF Opens, IInv, ClientsOK
  <2>2. MemoryOK(opened) /\ KeepsCurrent(memory, opened) /\ EntriesKept(memory, opened, Names)
    BY <2>1, OpenOrCreateOK, MemorySame DEF IInv
  <2>3. object \in Nat
    BY <2>1, <2>2 DEF MemoryOK, MemoryType
  <2>4. /\ memory' = opened
        /\ \/ /\ client' = [client EXCEPT ![k].pc = "mapped", ![k].object = object]
              /\ UNCHANGED prev
           \/ /\ client' = [client EXCEPT ![k] = AtHome]
              /\ prev' = [p \in Benchmarks |-> IF p = k THEN [n \in Names |-> "none"] ELSE prev[p]]
        /\ UNCHANGED <<phase, nextFile, call, failed, sessions, starts, crashes>>
    BY <1>3, Zenon DEF Opens
  <2> HIDE DEF opened, object
  <2>5. [client[k] EXCEPT !.pc = "mapped", !.object = object] \in Client
    BY <2>1, <2>3 DEF Client
  <2>6. AtHome \in Client /\ AtHome.pc = "idle"
    BY DEF AtHome, Client
  <2>7. CASE /\ client' = [client EXCEPT ![k].pc = "mapped", ![k].object = object]
             /\ UNCHANGED prev
    <3>1. client' = [client EXCEPT ![k] = [client[k] EXCEPT !.pc = "mapped", !.object = object]]
      BY <2>7
    <3>2. client' \in [Clients -> Client]
      BY <2>5, <3>1 DEF IInv, ClientsOK
    <3>3. \A j \in Clients : /\ client'[j].name = client[j].name
                             /\ j # k => client'[j] = client[j]
      BY <2>1, <3>1 DEF IInv, ClientsOK, Client
    <3>4. \A j \in Clients : Asks(j)' => Asks(j) /\ client'[j] = client[j]
      BY <2>1, <3>1, <3>3 DEF IInv, ClientsOK, Client, Asks
    <3> QED BY <2>1, <2>2, <2>4, <2>7, <3>2, <3>3, <3>4, CallsKept DEF IInv, ClientsOK, ProcessOK
  <2>8. CASE /\ client' = [client EXCEPT ![k] = AtHome]
             /\ prev' = [p \in Benchmarks |-> IF p = k THEN [n \in Names |-> "none"] ELSE prev[p]]
    <3>1. ClientsOK'
      BY <2>6, <2>8 DEF IInv, ClientsOK, Asks
    <3> QED BY <2>2, <2>4, <3>1, CallsKept DEF IInv, ProcessOK
  <2> QED BY <2>4, <2>7, <2>8
<1>4. CASE Closes(k)
  <2>1. client[k] \in Client /\ client[k].name \in Names
    BY <1>4 DEF Closes, IInv, ClientsOK
  <2>2. client' = [client EXCEPT ![k] = [client[k] EXCEPT !.pc = "unload", !.object = 0]]
    BY <1>4 DEF Closes
  <2>3. [client[k] EXCEPT !.pc = "unload", !.object = 0] \in Client
    BY <2>1 DEF Client
  <2>4. client' \in [Clients -> Client]
    BY <2>2, <2>3 DEF IInv, ClientsOK
  <2>5. \A j \in Clients : /\ client'[j].name = client[j].name
                           /\ j # k => client'[j] = client[j]
    BY <2>1, <2>2 DEF IInv, ClientsOK, Client
  <2>6. \A j \in Clients : Asks(j)' => Asks(j) /\ client'[j] = client[j]
    BY <2>1, <2>2, <2>5 DEF IInv, ClientsOK, Client, Asks
  <2>7. ClientsOK'
    BY <1>4, <2>1, <2>4, <2>5, <2>6 DEF Closes, IInv, ClientsOK
  <2> QED BY <1>4, <2>7, ServerStays DEF Closes, IInv, ProcessOK
<1>5. ASSUME \/ k \in Benchmarks /\ BenchmarkBegins(k)
             \/ k \in Scripts /\ ScriptBegins(k)
             \/ k \in Users /\ UserAsks(k)
      PROVE  \E pc \in {"load", "unload", "erase", "stop"}, name \in Names,
                path \in Paths \cup {"none"}, form \in Forms \cup {"none"} :
               /\ (path \in Paths /\ form \in Forms) \/ (pc # "load" /\ k \in Users)
               /\ Session(k, pc, name, path, form)
  <2>1. UserForms \subseteq Forms /\ "wisent" \in Forms /\ \A name \in Names : FormOf(name) \in Forms
    BY ServerAssumption DEF Forms, FormOf
  <2>2. CASE k \in Benchmarks /\ BenchmarkBegins(k)
    BY <2>1, <2>2 DEF BenchmarkBegins
  <2>3. CASE k \in Scripts /\ ScriptBegins(k)
    BY <2>1, <2>3 DEF ScriptBegins
  <2>4. CASE k \in Users /\ UserAsks(k)
    BY <2>1, <2>4 DEF UserAsks
  <2> QED BY <1>5, <2>2, <2>3, <2>4
<1> QED BY <1>1, <1>2, <1>3, <1>4, <1>5 DEF ClientNext

\* Every step keeps the invariant: the threads', the clients', the process's.
LEMMA InvariantStep == IInv /\ [Next]_vars => IInv'
<1> SUFFICES ASSUME IInv, [Next]_vars PROVE IInv'
  OBVIOUS
<1>1. CASE Start
  BY <1>1, ServerStays, ServerAssumption DEF Start, IInv, ClientsOK, Asks, ProcessOK
<1>2. CASE Listen
  BY <1>2, ServerStays DEF Listen, IInv, ClientsOK, Asks, ProcessOK
<1>3. CASE Crash
  <2>1. ProcessOK'
    BY <1>3, DiesOK, ServerAssumption DEF Crash, IInv, ProcessOK
  <2> QED BY <1>3, <2>1, DiesOK DEF Crash, IInv
<1>4. CASE Exit
  <2> DEFINE shm == [n \in Names |-> IF n \in Deleted THEN 0 ELSE memory.shm[n]]
             left == [memory EXCEPT !.shm = shm]
  <2>1. left = [objects |-> memory.objects, shm |-> shm, nodes |-> memory.nodes,
                registry |-> memory.registry, current |-> memory.current]
    <3>1. memory = [objects |-> memory.objects, shm |-> memory.shm, nodes |-> memory.nodes,
                    registry |-> memory.registry, current |-> memory.current]
      BY DEF IInv, MemoryOK, MemoryType
    <3> HIDE DEF shm
    <3> QED BY <3>1
  <2>2. shm \in [Names -> Nat] /\ \A n \in Names : shm[n] \in 0 .. Len(memory.objects)
    BY DEF IInv, MemoryOK, MemoryType
  <2>3. memory' = ProcessEnds(left)
    BY <1>4 DEF Exit
  <2> HIDE DEF shm, left
  <2>4. left \in MemoryType /\ left.objects = memory.objects /\ left.nodes = memory.nodes /\ left.shm = shm
    BY <2>1, <2>2 DEF IInv, MemoryOK, MemoryType
  <2>5. MemoryOK(memory') /\ \A n \in Names : memory'.registry[n] = 0
    BY <2>2, <2>3, <2>4, ProcessEndsOK DEF IInv, MemoryOK
  <2>6. CallsOK'
    BY <1>4, <2>5, NoCallOK DEF Exit, IInv, CallsOK
  <2>7. EntriesCurrent'
    BY <2>5 DEF EntriesCurrent, EntryCurrent
  <2> QED BY <1>4, <2>5, <2>6, <2>7 DEF Exit, IInv, ClientsOK, Asks, ProcessOK
<1>5. CASE LoadCommandLine
  <2> DEFINE r == Request(CommandLine[nextFile].name, CommandLine[nextFile].path, CommandLineForm,
                          ForceReload /\ CommandLineForm = "wisent")
  <2>1. nextFile \in 1 .. Len(CommandLine) /\ ForceReload \in BOOLEAN /\ "main" \in Threads
    BY <1>5, ServerAssumption DEF LoadCommandLine, IInv, ProcessOK, Threads
  <2>2. r.name \in Names /\ r.path \in Paths /\ r.form \in Forms /\ r.force \in BOOLEAN
    <3>1. CommandLine[nextFile] \in [name : Names, path : Paths]
      BY <2>1, ServerAssumption, ElementOfSeq
    <3> QED BY <3>1, ServerAssumption DEF Request
  <2> DEFINE next == IF r.form = "wisent" /\ ~r.force THEN "adopt" ELSE "check"
  <2>5. Lookup("main", "main", r, next) /\ call["main"] = NoCall /\ next \in {"adopt", "check"}
    BY <1>5 DEF LoadCommandLine, LoadSteps
  <2> HIDE DEF r, next
  <2>3. /\ MemoryOK(memory') /\ EntriesCurrent' /\ CallsOK' /\ ClientsOK'
        /\ UNCHANGED <<sessions, starts, crashes>>
    BY <2>1, <2>2, <2>5, LookupOK
  <2>4. ProcessOK'
    BY <1>5, <2>1, <2>3 DEF LoadCommandLine, IInv, ProcessOK
  <2> QED BY <2>3, <2>4 DEF IInv
<1>6. CASE UNCHANGED vars
  BY <1>6, ServerStays DEF vars, IInv, ClientsOK, Asks, ProcessOK
<1>7. CASE Rests
  BY <1>6, <1>7 DEF Rests
<1> QED BY <1>1, <1>2, <1>3, <1>4, <1>5, <1>6, <1>7, ThreadStep, ClientStep DEF Next

(***************************************************************************)
(* The server's state has its type: no load stores more strings than the   *)
(* dataset has, and no entry, node or name refers to what is not there.    *)
(***************************************************************************)
THEOREM ServerTypeCorrect == Spec => []TypeOK
<1>1. Spec => []IInv
  BY InitInvariant, InvariantStep, PTL DEF Spec
<1> QED BY <1>1, InvariantTypes, PTL

(***************************************************************************)
(* However the steps of any number of threads, clients and crashes come    *)
(* together, every entry of sharedMemorySegments() has the object that     *)
(* clients find under its name, but for the names that a thread has just   *)
(* unlinked: when that thread drops the entry, the name's entry is current *)
(* again, or there is none, whoever has looked the name up in between.     *)
(***************************************************************************)
THEOREM RegistryStaysCurrent == Spec => []RegistryIsCurrent
<1>1. Spec => []IInv
  BY InitInvariant, InvariantStep, PTL DEF Spec
<1> QED BY <1>1, InvariantCurrent, PTL

(***************************************************************************)
(* The server with one thread.                                             *)
(***************************************************************************)

OneWorker == \A t, u \in Workers : t = u

(***************************************************************************)
(* The strengthening of IInv.  No two names share an object, and one of    *)
(* size 0 has never been written.                                          *)
(***************************************************************************)
Tidy(m) ==
  /\ \A n, o \in Names : n # o /\ m.shm[n] = m.shm[o] => m.shm[n] = 0
  /\ \A i \in 1 .. Len(m.objects) : m.objects[i].fill = 0 => m.objects[i] = NoData

\* A load that has not: in the Wisent format, it has adopted what there was.
Asking(c) ==
  /\ c.stored = 0
  /\ c.pc = "check" /\ c.form = "wisent" /\ ~c.force =>
       (exists(memory, c.node) => memory.nodes[c.node].mapped)
  /\ c.force => [name |-> c.name, dataset |-> Dataset(c.path, c.form)] \in Replacing

\* A load that has set its segment: it can be written if it is still there, and
\* is empty unless the load replaces what it finds.
Parsing(c) ==
  /\ c.stored = 0
  /\ Current.alive => memory.registry[c.name] = memory.current /\ ~loaded(memory, memory.current)
  /\ c.form = "wisent" /\ ~c.force => Current.alive /\ memory.objects[Current.object].fill = 0
  /\ c.force => [name |-> c.name, dataset |-> Dataset(c.path, c.form)] \in Replacing

\* A load that has its block: the block has what is stored so far.
Storing(c) ==
  /\ Current.alive /\ Current.mapped /\ Current.object = c.root
  /\ memory.objects[c.root] = Content(c, c.stored + 1)

\* The segment that a handler has looked up stays the one of its name.
CallSound(c) ==
  /\ c.pc = "idle" => c = NoCall
  /\ c.pc \in Referring => memory.registry[c.name] = c.node
  /\ c.pc \in {"adopt", "check"} => Asking(c)
  /\ c.pc = "parse" => Parsing(c)
  /\ c.pc = "store" => Storing(c)

Idle(t) == call[t] = NoCall

\* main loads before the threads of the pool serve; a thread's load is its own.
LoadsOK ==
  /\ call["main"].pc # "idle" => phase = "starting"
  /\ \A t \in Workers : call[t].pc # "idle" => phase \in {"listening", "stopping"}
  /\ \A t \in Threads : CallSound(call[t])

ViewsOK == \A k \in Clients : client[k].pc = "mapped" => client[k].object \in 1 .. Len(memory.objects)

SInv == IInv /\ Tidy(memory) /\ LoadsOK /\ ViewsOK

\* What a step does to the datasets under the names, and to the clients' views.
DatasetIn(m, n) ==
  IF m.shm[n] = 0 THEN Dataset("none", "none")
  ELSE Dataset(m.objects[m.shm[n]].path, m.objects[m.shm[n]].form)
StoreStep == [Store!Next]_[n \in Names |-> DatasetOf(n)]
ViewsStep ==
  \A k \in Clients : Undisturbed(k) =>
    memory'.objects[client[k].object] = memory.objects[client[k].object]
Step == Tidy(memory)' /\ LoadsOK' /\ ViewsOK' /\ StoreStep /\ ViewsStep

(***************************************************************************)
(* The operations of SharedMemorySegment.                                  *)
(***************************************************************************)
\* What was written stays.
Keeps(m, r) ==
  Len(m.objects) <= Len(r.objects) /\ \A i \in 1 .. Len(m.objects) : r.objects[i] = m.objects[i]
SameData(m, r) == \A n \in Names : DatasetIn(r, n) = DatasetIn(m, n)

\* An object is added that is empty, under a name that had none.
LEMMA OpenOrCreateTidy ==
  ASSUME NEW m, MemoryOK(m), Tidy(m), NEW name \in Names
  PROVE  LET o == OpenOrCreate(m, name) IN Tidy(o) /\ Keeps(m, o) /\ SameData(m, o)
<1> DEFINE o == OpenOrCreate(m, name)
<1>1. CASE m.shm[name] # 0
  BY <1>1 DEF OpenOrCreate, Keeps, SameData, MemoryOK, MemoryType
<1>2. CASE m.shm[name] = 0
  <2>1. o = [objects |-> Append(m.objects, NoData),
             shm |-> [m.shm EXCEPT ![name] = Len(m.objects) + 1],
             nodes |-> m.nodes, registry |-> m.registry, current |-> m.current]
    BY <1>2 DEF OpenOrCreate, MemoryOK, MemoryType
  <2>2. /\ Len(m.objects) \in Nat /\ Len(o.objects) = Len(m.objects) + 1
        /\ \A i \in 1 .. Len(m.objects) : o.objects[i] = m.objects[i]
        /\ o.objects[Len(m.objects) + 1] = NoData
    BY <2>1 DEF MemoryOK, MemoryType
  <2>3. /\ \A n \in Names : o.shm[n] = IF n = name THEN Len(m.objects) + 1 ELSE m.shm[n]
        /\ \A n \in Names : m.shm[n] \in 0 .. Len(m.objects)
    BY <2>1 DEF MemoryOK, MemoryType
  <2> HIDE DEF o
  <2>4. Tidy(o)
    <3>1. ASSUME NEW n \in Names, NEW p \in Names, n # p, o.shm[n] = o.shm[p]
          PROVE  o.shm[n] = 0
      <4>1. m.shm[n] = m.shm[p] => m.shm[n] = 0
        BY <3>1 DEF Tidy
      <4>2. m.shm[n] \in 0 .. Len(m.objects) /\ m.shm[p] \in 0 .. Len(m.objects)
        BY <2>3
      <4> QED BY <2>2, <2>3, <3>1, <4>1, <4>2
    <3>2. ASSUME NEW i \in 1 .. Len(m.objects) + 1, o.objects[i].fill = 0
          PROVE  o.objects[i] = NoData
      <4>1. CASE i = Len(m.objects) + 1
        BY <2>2, <4>1
      <4>2. CASE i # Len(m.objects) + 1
        <5>1. i \in 1 .. Len(m.objects)
          BY <2>2, <4>2
        <5>2. m.objects[i].fill = 0 => m.objects[i] = NoData
          BY <5>1 DEF Tidy
        <5> QED BY <2>2, <3>2, <5>1, <5>2
      <4> QED BY <4>1, <4>2
    <3> QED BY <2>2, <3>1, <3>2 DEF Tidy
  <2>5. SameData(m, o)
    <3>1. NoData.path = "none" /\ NoData.form = "none"
      BY DEF NoData
    <3>2. DatasetIn(o, name) = DatasetIn(m, name)
      <4>1. o.shm[name] = Len(m.objects) + 1 /\ o.shm[name] # 0
        BY <2>2, <2>3
      <4>2. o.objects[o.shm[name]] = NoData
        BY <2>2, <4>1
      <4> HIDE DEF NoData
      <4> QED BY <1>2, <3>1, <4>1, <4>2 DEF DatasetIn
    <3>3. \A n \in Names \ {name} : o.shm[n] = m.shm[n] /\ (m.shm[n] # 0 => o.objects[m.shm[n]] = m.objects[m.shm[n]])
      <4> TAKE n \in Names \ {name}
      <4>1. o.shm[n] = m.shm[n] /\ m.shm[n] \in 0 .. Len(m.objects)
        BY <2>3
      <4>2. m.shm[n] # 0 => m.shm[n] \in 1 .. Len(m.objects)
        BY <2>2, <4>1
      <4> QED BY <2>2, <4>1, <4>2
    <3> QED BY <3>2, <3>3 DEF SameData, DatasetIn
  <2>6. Keeps(m, o)
    BY <2>2 DEF Keeps
  <2> QED BY <2>4, <2>5, <2>6 DEF o
<1> QED BY <1>1, <1>2

\* Neither does the new entry disturb anything.
LEMMA CreateOrGetTidy ==
  ASSUME NEW m, MemoryOK(m), Tidy(m), NEW name \in Names
  PROVE  LET g == createOrGetMemorySegment(m, name) IN Tidy(g) /\ Keeps(m, g) /\ SameData(m, g)
<1> DEFINE g == createOrGetMemorySegment(m, name)
           o == OpenOrCreate(m, name)
<1>1. CASE m.registry[name] # 0
  BY <1>1 DEF createOrGetMemorySegment, Keeps, SameData, MemoryOK, MemoryType
<1>2. CASE m.registry[name] = 0
  <2>1. Tidy(o) /\ Keeps(m, o) /\ SameData(m, o) /\ MemoryOK(o)
    BY OpenOrCreateTidy, OpenOrCreateOK
  <2>2. g.objects = o.objects /\ g.shm = o.shm
    <3> HIDE DEF o
    <3>1. \A node : [o EXCEPT !.nodes = Append(@, node), !.registry[name] = Len(m.nodes) + 1].objects = o.objects
                   /\ [o EXCEPT !.nodes = Append(@, node), !.registry[name] = Len(m.nodes) + 1].shm = o.shm
      BY <2>1 DEF MemoryOK, MemoryType
    <3> QED BY <1>2, <3>1 DEF createOrGetMemorySegment, o
  <2> HIDE DEF g, o
  <2> QED BY <2>1, <2>2 DEF g, Tidy, Keeps, SameData, DatasetIn
<1> QED BY <1>1, <1>2

\* Names and objects that are the same hold the same datasets.
LEMMA SameObjects ==
  ASSUME NEW m, MemoryOK(m), Tidy(m), NEW r, r.objects = m.objects, r.shm = m.shm
  PROVE  Tidy(r) /\ Keeps(m, r) /\ SameData(m, r)
  BY DEF Tidy, Keeps, SameData, DatasetIn, MemoryOK, MemoryType

\* What was kept twice is kept.
LEMMA KeepsTwice ==
  ASSUME NEW l, MemoryOK(l), NEW m, MemoryOK(m), NEW r, MemoryOK(r), Keeps(l, m), Keeps(m, r)
  PROVE  Keeps(l, r)
<1>1. Len(l.objects) \in Nat /\ Len(m.objects) \in Nat /\ Len(r.objects) \in Nat
  BY DEF MemoryOK, MemoryType
<1> QED BY <1>1 DEF Keeps

\* The name that is freed is empty, and no other.
LEMMA FreeTidy ==
  ASSUME NEW m, MemoryOK(m), Tidy(m), NEW name \in Names
  PROVE  LET r == free(m, name) IN
         /\ Tidy(r) /\ Keeps(m, r)
         /\ \A n \in Names : DatasetIn(r, n) = IF n = name THEN Dataset("none", "none") ELSE DatasetIn(m, n)
<1> DEFINE g == createOrGetMemorySegment(m, name)
           r == free(m, name)
<1>1. Tidy(g) /\ Keeps(m, g) /\ SameData(m, g)
  BY CreateOrGetTidy
<1>2. /\ r.objects = g.objects
      /\ \A n \in Names : r.shm[n] = IF n = name THEN 0 ELSE g.shm[n]
  BY FreeOK
<1> HIDE DEF g, r
<1>3. Tidy(r) /\ Keeps(m, r)
  BY <1>1, <1>2 DEF Tidy, Keeps
<1>4. \A n \in Names : DatasetIn(r, n) = IF n = name THEN Dataset("none", "none") ELSE DatasetIn(m, n)
  BY <1>1, <1>2 DEF SameData, DatasetIn
<1> QED BY <1>3, <1>4 DEF r

(***************************************************************************)
(* One step.                                                               *)
(***************************************************************************)
\* Where nothing that was written changes, views stay as they are.
LEMMA KeptViews ==
  ASSUME SInv, IInv', Keeps(memory, memory'),
         \A k \in Clients : client'[k].pc = "mapped" => client'[k] = client[k]
  PROVE  ViewsOK' /\ ViewsStep
<1>1. Len(memory.objects) \in Nat /\ Len(memory'.objects) \in Nat
  BY DEF SInv, IInv, MemoryOK, MemoryType
<1>2. ViewsOK'
  <2>1. \A k \in Clients : client'[k].pc = "mapped" => client'[k].object \in 1 .. Len(memory.objects)
    BY DEF SInv, ViewsOK
  <2> QED BY <1>1, <2>1 DEF ViewsOK, Keeps
<1>3. ViewsStep
  BY DEF ViewsStep, Undisturbed, SInv, ViewsOK, Keeps
<1> QED BY <1>2, <1>3

\* Where the names keep their datasets too, the store stutters.
LEMMA KeptStep ==
  ASSUME SInv, IInv', Keeps(memory, memory'), SameData(memory, memory'),
         \A k \in Clients : client'[k].pc = "mapped" => client'[k] = client[k]
  PROVE  ViewsOK' /\ StoreStep /\ ViewsStep
  BY KeptViews DEF StoreStep, SameData, DatasetIn, DatasetOf

\* A reply or an error opens no view.
LEMMA ContinueViews ==
  ASSUME ClientsOK, NEW ks, NEW replied \in BOOLEAN, Continue(ks, replied)
  PROVE  \A k \in Clients : client'[k].pc = "mapped" => client'[k] = client[k]
<1> TAKE k \in Clients
<1>1. client[k] \in Client /\ AtHome.pc = "idle"
  BY DEF ClientsOK, AtHome
<1>2. \/ client'[k] \in {AtHome, client[k]}
      \/ client'[k] = [client[k] EXCEPT !.pc = "load"] \/ client'[k] = [client[k] EXCEPT !.pc = "open"]
  <2>1. Goes(k, replied) \in {"idle", "load", "open"}
    BY DEF Goes, AfterReply, AfterError
  <2> QED BY <2>1 DEF Continue
<1> QED BY <1>1, <1>2 DEF Client

\* A thread without a handler has nothing to break.
LEMMA NoCallSound ==
  ASSUME NEW t \in Threads, call'[t] = NoCall
  PROVE  CallSound(call[t])'
  BY DEF CallSound, NoCall, Referring

\* While nobody loads, and afterwards nobody either.
LEMMA IdleLoads ==
  ASSUME \A t \in Threads : Idle(t), UNCHANGED call
  PROVE  LoadsOK'
<1>1. \A t \in Threads : call'[t].pc = "idle" /\ call'[t] = NoCall
  BY DEF Idle, NoCall
<1>2. Workers \subseteq Threads /\ "main" \in Threads
  BY DEF Threads
<1> QED BY <1>1, <1>2, NoCallSound DEF LoadsOK

\* While one handler runs and no other.
LEMMA OneCall ==
  ASSUME NEW t \in Threads, call' = [u \in Threads |-> call'[u]], \A u \in Threads \ {t} : call'[u] = NoCall,
         t = "main" => phase' = "starting", t \in Workers => phase' \in {"listening", "stopping"},
         CallSound(call[t])'
  PROVE  LoadsOK'
<1>1. "main" \in Threads /\ Workers \subseteq Threads /\ NoCall.pc = "idle"
  BY DEF Threads, NoCall
<1>2. \A u \in Threads : CallSound(call[u])'
  BY NoCallSound
<1> QED BY <1>1, <1>2 DEF LoadsOK

\* The process ends: what clients have open stays as it is.
LEMMA DiesStep ==
  ASSUME SInv, IInv', Dies
  PROVE  Step
<1>1. memory'.objects = memory.objects /\ memory'.shm = memory.shm
  <2>1. \A f, g : /\ [memory EXCEPT !.nodes = f, !.registry = g, !.current = 0].objects = memory.objects
                  /\ [memory EXCEPT !.nodes = f, !.registry = g, !.current = 0].shm = memory.shm
    BY DEF SInv, IInv, MemoryOK, MemoryType
  <2> QED BY <2>1 DEF Dies, ProcessEnds
<1>2. Tidy(memory') /\ Keeps(memory, memory') /\ SameData(memory, memory')
  BY <1>1, SameObjects DEF SInv, IInv
<1>3. \A k \in Clients : client'[k].pc = "mapped" => client'[k] = client[k]
  BY ContinueViews, FALSE \in BOOLEAN DEF Dies, SInv, IInv
<1>4. LoadsOK'
  <2>1. \A t \in Threads : call'[t].pc = "idle" /\ call'[t] = NoCall
    BY DEF Dies, NoCall
  <2>2. Workers \subseteq Threads /\ "main" \in Threads
    BY DEF Threads
  <2> QED BY <2>1, <2>2, NoCallSound DEF LoadsOK
<1> QED BY <1>2, <1>3, <1>4, KeptStep DEF Step

\* A failed assertion is the end of the process.
LEMMA FailsStep ==
  ASSUME SInv, IInv', NEW assertion, Fails(assertion)
  PROVE  Step
  BY DiesStep DEF Fails

\* With one worker nobody loads while a request is taken.
LEMMA ServingIdle ==
  ASSUME SInv, OneWorker, NEW t \in Workers, phase = "listening", Idle(t)
  PROVE  \A u \in Threads : Idle(u)
<1>1. call["main"].pc = "idle" => Idle("main")
  BY DEF SInv, LoadsOK, CallSound, Idle, Threads
<1> QED BY <1>1 DEF SInv, LoadsOK, CallSound, Idle, OneWorker, Threads

\* Nor is anybody else loading while one thread does.
LEMMA OthersIdle ==
  ASSUME SInv, OneWorker, NEW t \in Threads, call[t].pc # "idle"
  PROVE  \A u \in Threads \ {t} : Idle(u)
<1>1. CASE t = "main"
  BY <1>1 DEF SInv, LoadsOK, CallSound, Idle, Threads
<1>2. CASE t \in Workers
  <2>1. phase # "starting"
    BY <1>2 DEF SInv, LoadsOK
  <2>2. Idle("main")
    BY <2>1 DEF SInv, LoadsOK, CallSound, Idle, Threads
  <2> QED BY <1>2, <2>2 DEF OneWorker, Threads
<1> QED BY <1>1, <1>2 DEF Threads

\* The dataset of a name that is erased.
LEMMA ErasesName ==
  ASSUME NEW name \in Names,
         \A n \in Names : DatasetIn(memory', n) =
           IF n = name THEN Dataset("none", "none") ELSE DatasetIn(memory, n)
  PROVE  StoreStep
<1>1. {name} \in SUBSET Names /\ Store!Erase({name})
  BY DEF Store!Erase, DatasetIn, DatasetOf
<1> QED BY <1>1 DEF StoreStep, Store!Next

\* A step of the handler that runs, which changes no dataset and no view.
LEMMA HandlerStep ==
  ASSUME SInv, IInv', Tidy(memory'), Keeps(memory, memory'), SameData(memory, memory'), LoadsOK',
         \A k \in Clients : client'[k].pc = "mapped" => client'[k] = client[k]
  PROVE  Step
  BY KeptStep DEF Step

\* The phase in which the handler of a thread runs.
LEMMA HandlerPhase ==
  ASSUME SInv, NEW t \in Threads, call[t].pc # "idle"
  PROVE  /\ t = "main" => phase = "starting"
         /\ t \in Workers => phase \in {"listening", "stopping"}
         /\ CallSound(call[t]) /\ call[t] \in Call /\ CallOK(memory, call[t])
         /\ call[t].pc \in Referring =>
              /\ call[t].node \in 1 .. Len(memory.nodes) /\ memory.nodes[call[t].node].alive
              /\ memory.nodes[call[t].node].name = call[t].name /\ call[t].name \in Names
<1>1. CallSound(call[t]) /\ CallOK(memory, call[t])
  BY DEF SInv, IInv, CallsOK, LoadsOK
<1>2. ASSUME call[t].pc \in Referring
      PROVE  /\ call[t].node \in 1 .. Len(memory.nodes) /\ memory.nodes[call[t].node].alive
             /\ memory.nodes[call[t].node].name = call[t].name /\ call[t].name \in Names
  <2>1. call[t].node \in 1 .. Len(memory.nodes) /\ call[t].name \in Names
    BY <1>1, <1>2 DEF CallOK, Referring
  <2>2. memory.registry[call[t].name] = call[t].node
    BY <1>1, <1>2 DEF CallSound
  <2> QED BY <2>1, <2>2 DEF SInv, IInv, MemoryOK, NodeOK
<1> QED BY <1>1, <1>2 DEF SInv, LoadsOK, CallOK

\* A handler that goes on, alone.
LEMMA GoesOnAlone ==
  ASSUME SInv, OneWorker, NEW t \in Threads, call[t].pc # "idle", NEW next, GoesOn(t, next),
         CallSound(call[t])'
  PROVE  LoadsOK' /\ UNCHANGED client
<1>1. \A u \in Threads \ {t} : call'[u] = NoCall
  BY OthersIdle DEF GoesOn, Idle, SInv, IInv, CallsOK
<1>2. call' = [u \in Threads |-> call'[u]]
  BY DEF GoesOn, SInv, IInv, CallsOK
<1> QED BY <1>1, <1>2, HandlerPhase, OneCall DEF GoesOn

\* A handler that replies leaves none.
LEMMA RepliesAlone ==
  ASSUME SInv, OneWorker, NEW t \in Threads, call[t].pc # "idle", Replies(t)
  PROVE  /\ LoadsOK' /\ \A u \in Threads : call'[u] = NoCall
         /\ \A k \in Clients : client'[k].pc = "mapped" => client'[k] = client[k]
<1>1. \A u \in Threads : call'[u] = NoCall
  BY OthersIdle DEF Replies, Idle, SInv, IInv, CallsOK
<1>2. LoadsOK'
  <2>1. NoCall.pc = "idle" /\ "main" \in Threads /\ Workers \subseteq Threads
    BY DEF NoCall, Threads
  <2> QED BY <1>1, <2>1, NoCallSound DEF LoadsOK
<1> QED BY <1>1, <1>2, ContinueViews, TRUE \in BOOLEAN DEF Replies, Reply, SInv, IInv

\* The first step of a handler.
LEMMA LookupStep ==
  ASSUME SInv, IInv', \A u \in Threads : Idle(u), NEW t \in Threads,
         t = "main" => phase = "starting", t \in Workers => phase = "listening", UNCHANGED phase,
         NEW from, NEW r, r.name \in Names, NEW next \in {"unlink", "unmap", "adopt", "check"},
         next = "check" => r.form # "wisent" \/ r.force,
         r.force => [name |-> r.name, dataset |-> Dataset(r.path, r.form)] \in Replacing,
         Lookup(t, from, r, next)
  PROVE  Step
<1> DEFINE got == createOrGetMemorySegment(memory, r.name)
           c   == [pc |-> next, from |-> from, name |-> r.name, path |-> r.path,
                   form |-> r.form, force |-> r.force,
                   node |-> got.registry[r.name], root |-> 0, stored |-> 0]
<1>1. Tidy(got) /\ Keeps(memory, got) /\ SameData(memory, got)
  BY CreateOrGetTidy DEF SInv, IInv
<1>2. memory' = got /\ UNCHANGED client /\ call' = [call EXCEPT ![t] = c]
  BY DEF Lookup
<1>3. /\ c.pc = next /\ c.name = r.name /\ c.path = r.path /\ c.form = r.form /\ c.force = r.force
      /\ c.node = got.registry[r.name] /\ c.stored = 0
  OBVIOUS
<1> HIDE DEF got, c
<1>4. call'[t] = c /\ \A u \in Threads \ {t} : call'[u] = NoCall
  BY <1>2 DEF Idle, SInv, IInv, CallsOK
<1>5. CallSound(call[t])'
  BY <1>2, <1>3, <1>4 DEF CallSound, Asking, Referring
<1>6. LoadsOK'
  <2>1. call' = [u \in Threads |-> call'[u]]
    BY <1>2 DEF SInv, IInv, CallsOK
  <2> QED BY <1>4, <1>5, <2>1, OneCall
<1> QED BY <1>1, <1>2, <1>6, HandlerStep

\* The name that is unlinked has no dataset any more.
LEMMA UnlinkStep ==
  ASSUME SInv, IInv', OneWorker, NEW t \in Threads, EraseUnlink(t)
  PROVE  Step
<1> DEFINE name == call[t].name
<1>1. /\ call[t].pc = "unlink" /\ call[t] \in Call /\ call[t].node \in 1 .. Len(memory.nodes)
      /\ memory.nodes[call[t].node].name = name /\ name \in Names
      /\ memory.registry[name] = call[t].node
  BY HandlerPhase DEF EraseUnlink, Refers, Referring, CallSound
<1>2. memory' = erase(memory, call[t].node) /\ GoesOn(t, "forget")
  BY DEF EraseUnlink
<1>3. /\ memory'.objects = memory.objects /\ memory'.registry = memory.registry
      /\ \A n \in Names : memory'.shm[n] = IF n = name THEN 0 ELSE memory.shm[n]
  BY <1>1, <1>2, EraseOK DEF SInv, IInv, NodeMaps
<1>4. /\ call'[t].pc = "forget" /\ call'[t].name = name /\ call'[t].node = call[t].node
  BY <1>1, <1>2 DEF GoesOn, SInv, IInv, CallsOK, Call
<1>5. CallSound(call[t])'
  BY <1>1, <1>3, <1>4 DEF CallSound
<1> HIDE DEF name
<1>6. LoadsOK' /\ UNCHANGED client
  BY <1>1, <1>2, <1>5, GoesOnAlone
<1>7. Tidy(memory') /\ Keeps(memory, memory')
  BY <1>3 DEF SInv, IInv, MemoryOK, MemoryType, Tidy, Keeps
<1>8. StoreStep
  <2>1. \A n \in Names : DatasetIn(memory', n) =
          IF n = name THEN Dataset("none", "none") ELSE DatasetIn(memory, n)
    BY <1>3 DEF DatasetIn
  <2> QED BY <1>1, <2>1, ErasesName
<1> QED BY <1>6, <1>7, <1>8, KeptViews DEF Step

\* The entry that goes has neither dataset nor view.
LEMMA ForgetStep ==
  ASSUME SInv, IInv', OneWorker, NEW t \in Threads, EraseForget(t)
  PROVE  Step
<1>1. call[t].pc = "forget" /\ call[t].name \in Names
  BY HandlerPhase DEF EraseForget, Referring
<1>2. memory'.objects = memory.objects /\ memory'.shm = memory.shm
  BY <1>1, ForgetOK DEF EraseForget, SInv, IInv
<1>3. Tidy(memory') /\ Keeps(memory, memory') /\ SameData(memory, memory')
  BY <1>2, SameObjects DEF SInv, IInv
<1> QED BY <1>1, <1>3, RepliesAlone, HandlerStep DEF EraseForget

\* Nor does the server's mapping concern a dataset or a view.
LEMMA UnloadStep ==
  ASSUME SInv, IInv', OneWorker, NEW t \in Threads, Unload(t)
  PROVE  Step
<1>1. call[t].pc = "unmap"
  BY DEF Unload, Refers
<1>2. CASE Fails("unload: loaded()")
  BY <1>2, FailsStep
<1>3. CASE memory' = unload(memory, call[t].node) /\ Replies(t)
  <2>1. call[t].node \in 1 .. Len(memory.nodes)
    BY <1>1, HandlerPhase DEF Referring
  <2>2. memory' = WithMapped(memory, call[t].node, FALSE) /\ FALSE \in BOOLEAN
    BY <1>3 DEF unload, WithMapped
  <2>3. memory'.objects = memory.objects /\ memory'.shm = memory.shm
    BY <2>1, <2>2, MapKeeps DEF SInv, IInv, NodeMaps
  <2>4. Tidy(memory') /\ Keeps(memory, memory') /\ SameData(memory, memory')
    BY <2>3, SameObjects DEF SInv, IInv
  <2> QED BY <1>1, <1>3, <2>4, RepliesAlone, HandlerStep
<1> QED BY <1>2, <1>3 DEF Unload

\* What exists is mapped afterwards.
LEMMA AdoptStep ==
  ASSUME SInv, IInv', OneWorker, NEW t \in Threads, LoadAdopt(t)
  PROVE  Step
<1> DEFINE k == call[t].node
<1>1. /\ call[t].pc = "adopt" /\ call[t] \in Call /\ k \in 1 .. Len(memory.nodes)
      /\ CallSound(call[t]) /\ GoesOn(t, "check")
  BY HandlerPhase DEF LoadAdopt, Refers, Referring
<1>2. /\ memory'.objects = memory.objects /\ memory'.shm = memory.shm
      /\ memory'.registry = memory.registry /\ memory'.nodes[k].object = memory.nodes[k].object
      /\ exists(memory, k) => memory'.nodes[k].mapped
  <2>1. CASE exists(memory, k)
    <3>1. memory' = WithMapped(memory, k, TRUE) /\ TRUE \in BOOLEAN /\ MemoryOK(memory)
      BY <2>1 DEF LoadAdopt, load, WithMapped, SInv, IInv
    <3>2. NodeMaps(memory, memory', k, TRUE) /\ memory'.shm = memory.shm
      BY <1>1, <3>1, MapKeeps
    <3> QED BY <1>1, <3>2 DEF NodeMaps
  <2>2. CASE ~exists(memory, k)
    BY <2>2 DEF LoadAdopt
  <2> QED BY <2>1, <2>2
<1>3. /\ call'[t].pc = "check" /\ call'[t].name = call[t].name /\ call'[t].node = k
      /\ call'[t].path = call[t].path /\ call'[t].form = call[t].form
      /\ call'[t].force = call[t].force /\ call'[t].stored = call[t].stored
  BY <1>1 DEF GoesOn, SInv, IInv, CallsOK, Call
<1> HIDE DEF k
<1>4. CallSound(call[t])'
  BY <1>1, <1>2, <1>3 DEF CallSound, Asking, exists, Referring, k
<1>5. LoadsOK' /\ UNCHANGED client
  BY <1>1, <1>4, GoesOnAlone
<1>6. Tidy(memory') /\ Keeps(memory, memory') /\ SameData(memory, memory')
  BY <1>2, SameObjects DEF SInv, IInv
<1> QED BY <1>5, <1>6, HandlerStep

\* A load sets the current segment, and has freed it before if it is forced.
LEMMA SelectStep ==
  ASSUME SInv, IInv', OneWorker, NEW t \in Threads, LoadSelect(t)
  PROVE  Step
<1> DEFINE c == call[t]
           k == c.node
           f == free(memory, c.name)
<1>1. /\ c.pc = "check" /\ c \in Call /\ k \in 1 .. Len(memory.nodes) /\ memory.nodes[k].alive
      /\ c.name \in Names /\ memory.registry[c.name] = k /\ Asking(c)
      /\ MemoryOK(memory) /\ Tidy(memory) /\ GoesOn(t, "parse")
      /\ loaded(memory, k) => c.force
  BY HandlerPhase DEF LoadSelect, Refers, Referring, CallSound, SInv, IInv
<1>2. memory' = [IF loaded(memory, k) THEN f ELSE memory EXCEPT !.current = k]
  BY DEF LoadSelect
<1>3. /\ call'[t].pc = "parse" /\ call'[t].name = c.name /\ call'[t].stored = 0
      /\ call'[t].path = c.path /\ call'[t].form = c.form /\ call'[t].force = c.force
  BY <1>1 DEF GoesOn, SInv, IInv, CallsOK, Call, Asking
<1> HIDE DEF c, k, f
<1>4. ASSUME Parsing(call[t])' PROVE LoadsOK' /\ UNCHANGED client
  <2>1. CallSound(call[t])'
    BY <1>3, <1>4 DEF CallSound, Referring
  <2> QED BY <1>1, <2>1, GoesOnAlone DEF c
<1>5. CASE ~loaded(memory, k)
  <2>1. /\ memory'.objects = memory.objects /\ memory'.shm = memory.shm /\ memory'.nodes = memory.nodes
        /\ memory'.registry = memory.registry /\ memory'.current = k
    BY <1>1, <1>2, <1>5, SetCurrentOK
  <2>2. Tidy(memory') /\ Keeps(memory, memory') /\ SameData(memory, memory')
    BY <1>1, <2>1, SameObjects
  <2>3. c.form = "wisent" /\ ~c.force => memory.objects[memory.nodes[k].object].fill = 0
    <3>1. memory.objects \in Seq(Object) /\ memory.nodes[k].object \in 1 .. Len(memory.objects)
      BY <1>1 DEF MemoryOK, MemoryType
    <3>2. memory.objects[memory.nodes[k].object] \in Object
      BY <3>1
    <3>3. memory.objects[memory.nodes[k].object].fill \in Nat
      BY <3>2, ServerAssumption DEF Object, Full
    <3> QED BY <1>1, <1>5, <3>3 DEF Asking, loaded, exists, k
  <2>4. Parsing(call[t])'
    BY <1>1, <1>3, <1>5, <2>1, <2>3 DEF Parsing, Asking, Current, loaded, exists
  <2> QED BY <1>4, <2>2, <2>4, HandlerStep
<1>6. CASE loaded(memory, k)
  <2>1. c.force
    BY <1>1, <1>6
  <2>2. createOrGetMemorySegment(memory, c.name) = memory
    BY <1>1 DEF createOrGetMemorySegment
  <2>3. /\ MemoryOK(f) /\ Tidy(f) /\ Keeps(memory, f) /\ ~f.nodes[k].alive /\ Grows(memory, f)
        /\ \A n \in Names : DatasetIn(f, n) =
             IF n = c.name THEN Dataset("none", "none") ELSE DatasetIn(memory, n)
    BY <1>1, <2>2, FreeOK, FreeTidy DEF f, KeepsCurrent
  <2>4. k \in 1 .. Len(f.nodes)
    <3>1. Len(memory.nodes) \in Nat /\ Len(f.nodes) \in Nat
      BY <1>1, <2>3 DEF MemoryOK, MemoryType
    <3> QED BY <1>1, <2>3, <3>1 DEF Grows
  <2>5. /\ memory'.objects = f.objects /\ memory'.shm = f.shm /\ memory'.nodes = f.nodes
        /\ memory'.current = k
    BY <1>2, <1>6, <2>3, <2>4, SetCurrentOK
  <2>6. Tidy(memory') /\ Keeps(memory, memory')
    BY <1>1, <2>3, <2>5 DEF Tidy, Keeps
  <2>7. StoreStep
    <3>1. \A n \in Names : DatasetIn(memory', n) =
            IF n = c.name THEN Dataset("none", "none") ELSE DatasetIn(memory, n)
      BY <2>3, <2>5 DEF DatasetIn
    <3> QED BY <1>1, <3>1, ErasesName
  <2>8. Parsing(call[t])'
    BY <1>1, <1>3, <2>1, <2>3, <2>5 DEF Parsing, Asking, Current
  <2>9. LoadsOK' /\ UNCHANGED client
    BY <1>4, <2>8
  <2> QED BY <2>6, <2>7, <2>9, KeptViews DEF Step
<1> QED BY <1>5, <1>6

\* What malloc and realloc leave: the object of the current segment is written,
\* and the segment mapped.
LEMMA WriteTidy ==
  ASSUME NEW m, MemoryOK(m), Tidy(m), m.current # 0, NEW d, d.path \in Paths, d.form \in Forms,
         NEW fill \in 1 .. Full
  PROVE  LET r == realloc(m, d, fill)
             i == m.nodes[m.current].object
         IN /\ r.objects = [m.objects EXCEPT ![i] = Content(d, fill)]
            /\ r.shm = m.shm /\ r.registry = m.registry /\ r.current = m.current
            /\ r.nodes[m.current].alive = m.nodes[m.current].alive
            /\ r.nodes[m.current].object = i /\ r.nodes[m.current].mapped
            /\ i \in 1 .. Len(m.objects) /\ Len(m.objects) \in Nat
            /\ Tidy(r)
<1> DEFINE i == m.nodes[m.current].object
           content == Content(d, fill)
           v == [m EXCEPT !.objects[i] = content]
           r == realloc(m, d, fill)
<1>1. m.current \in 1 .. Len(m.nodes) /\ i \in 1 .. Len(m.objects) /\ Len(m.objects) \in Nat
  BY DEF MemoryOK, MemoryType
<1>2. content \in Object /\ content.fill = fill
  BY ServerAssumption DEF Object, Content, Full
<1>3. r = WithMapped(v, m.current, TRUE)
  BY DEF realloc, load, Write, WithMapped
<1> HIDE DEF i, content, r
<1>4. /\ MemoryOK(v) /\ v.nodes = m.nodes /\ v.current = m.current
      /\ v.objects = [m.objects EXCEPT ![i] = content] /\ v.shm = m.shm /\ v.registry = m.registry
  <2>1. MemoryOK(v) /\ v.nodes = m.nodes /\ v.current = m.current
    BY <1>1, <1>2, ContentOK
  <2>2. /\ v.objects = [m.objects EXCEPT ![i] = content] /\ v.shm = m.shm /\ v.registry = m.registry
    BY DEF MemoryOK, MemoryType
  <2> QED BY <2>1, <2>2
<1> HIDE DEF v
<1>5. /\ r.objects = v.objects /\ r.shm = v.shm /\ r.registry = v.registry /\ r.current = v.current
      /\ r.nodes[m.current].object = v.nodes[m.current].object
  <2>1. MemoryOK(v) /\ m.current \in 1 .. Len(v.nodes) /\ TRUE \in BOOLEAN
    BY <1>1, <1>4
  <2>2. PICK b \in BOOLEAN : r = WithMapped(v, m.current, b)
    BY <1>3
  <2> QED BY <2>1, <2>2, MapOK
<1>6. r.nodes[m.current].mapped /\ r.nodes[m.current].alive = v.nodes[m.current].alive
  <2>1. MemoryOK(v) /\ m.current \in 1 .. Len(v.nodes)
    BY <1>1, <1>4
  <2>2. PICK b \in BOOLEAN : b = TRUE
    OBVIOUS
  <2>3. r = WithMapped(v, m.current, b)
    BY <1>3, <2>2
  <2>4. r.nodes[m.current].mapped = b /\ r.nodes[m.current].alive = v.nodes[m.current].alive
    BY <2>1, <2>3, MapNode
  <2> QED BY <2>2, <2>4, Zenon
<1>7. Tidy(r)
  <2>1. \A n, o \in Names : n # o /\ r.shm[n] = r.shm[o] => r.shm[n] = 0
    BY <1>4, <1>5 DEF Tidy
  <2>2. \A j \in 1 .. Len(m.objects) : r.objects[j] = IF j = i THEN content ELSE m.objects[j]
    BY <1>1, <1>4, <1>5 DEF MemoryOK, MemoryType
  <2>3. Len(r.objects) = Len(m.objects)
    BY <1>1, <1>4, <1>5 DEF MemoryOK, MemoryType
  <2>4. content.fill # 0
    BY <1>2
  <2> QED BY <2>1, <2>2, <2>3, <2>4 DEF Tidy
<1> QED BY <1>1, <1>4, <1>5, <1>6, <1>7 DEF r, i, content

\* A write is no business of the registry.
LEMMA WriteRegistry ==
  ASSUME NEW m, MemoryOK(m), NEW d, NEW fill
  PROVE  realloc(m, d, fill).registry = m.registry
  BY DEF realloc, load, Write, MemoryOK, MemoryType

\* What a loading thread's write leaves of the other threads and of the views.
LEMMA WriterStep ==
  ASSUME SInv, IInv', OneWorker, NEW t \in Threads, call[t].pc \in {"parse", "store"},
         UNCHANGED <<phase, client>>, \A u \in Threads \ {t} : call'[u] = call[u],
         call'[t].pc = "store", Storing(call[t])', Tidy(memory)',
         NEW i \in 1 .. Len(memory.objects),
         Len(memory'.objects) = Len(memory.objects),
         \A j \in 1 .. Len(memory.objects) : j # i => memory'.objects[j] = memory.objects[j],
         \A k \in Clients : Undisturbed(k) => client[k].object # i
  PROVE  Tidy(memory)' /\ LoadsOK' /\ ViewsOK' /\ ViewsStep
<1>1. call[t].pc # "idle" /\ call'[t].pc # "idle" /\ call'[t].pc # "parse"
  OBVIOUS
<1>2. \A u \in Threads \ {t} : call'[u] = NoCall
  BY <1>1, OthersIdle DEF Idle
<1>3. LoadsOK'
  <2>1. \A u \in Threads : call'[u].pc # "idle" => u = t
    BY <1>2 DEF NoCall
  <2>2. NoCall.pc = "idle" /\ "main" \in Threads /\ Workers \subseteq Threads
    BY DEF NoCall, Threads
  <2>4. /\ call'["main"].pc # "idle" => phase' = "starting"
        /\ \A u \in Workers : call'[u].pc # "idle" => phase' \in {"listening", "stopping"}
    BY <1>1, <2>1, <2>2 DEF SInv, LoadsOK
  <2>5. CallSound(call[t])'
    BY DEF CallSound, Referring
  <2>6. \A u \in Threads : CallSound(call[u])'
    BY <1>2, <2>5, NoCallSound
  <2> QED BY <2>4, <2>6 DEF LoadsOK
<1>4. ViewsOK'
  BY DEF SInv, ViewsOK
<1>5. ViewsStep
  BY DEF ViewsStep, SInv, ViewsOK, Undisturbed
<1> QED BY <1>3, <1>4, <1>5

\* The block goes where nothing was, or the load replaces what was there.
LEMMA AllocateStep ==
  ASSUME SInv, IInv', OneWorker, NEW t \in Threads, LoadAllocate(t)
  PROVE  Step
<1> DEFINE i == Current.object
           c == call[t]
<1>1. ASSUME NEW assertion, Fails(assertion) PROVE Step
  BY <1>1, FailsStep
<1>2. SUFFICES ASSUME Current.alive, memory' = malloc(memory, c),
                      call' = [call EXCEPT ![t].pc = "store", ![t].root = i],
                      UNCHANGED <<phase, nextFile, client, prev, failed, sessions, starts, crashes>>
               PROVE  Step
  BY <1>1 DEF LoadAllocate
<1>3. /\ c.pc = "parse" /\ c \in Call /\ c.name \in Names /\ c.path \in Paths /\ c.form \in Forms
      /\ memory.current # 0 /\ Parsing(c)
  BY DEF LoadAllocate, SInv, IInv, CallsOK, CallOK, Loading, LoadsOK, CallSound
<1>4. MemoryOK(memory) /\ Tidy(memory)
  BY DEF SInv, IInv
<1>5. /\ memory'.objects = [memory.objects EXCEPT ![i] = Content(c, 1)] /\ memory'.shm = memory.shm
      /\ memory'.current = memory.current
      /\ Current'.alive /\ Current'.object = i /\ Current'.mapped
      /\ i \in 1 .. Len(memory.objects) /\ Len(memory.objects) \in Nat /\ Tidy(memory)'
  <2>1. memory' = realloc(memory, c, 1) /\ 1 \in 1 .. Full
    BY <1>2, ServerAssumption DEF malloc, realloc, Full
  <2> HIDE DEF c
  <2> QED BY <1>2, <1>3, <1>4, <2>1, WriteTidy DEF Current
<1>6. /\ Len(memory'.objects) = Len(memory.objects) /\ memory'.objects[i] = Content(c, 1)
      /\ \A j \in 1 .. Len(memory.objects) : j # i => memory'.objects[j] = memory.objects[j]
  BY <1>4, <1>5 DEF MemoryOK, MemoryType
<1>7. /\ call'[t] = [c EXCEPT !.pc = "store", !.root = i]
      /\ \A u \in Threads \ {t} : call'[u] = call[u]
  BY <1>2 DEF SInv, IInv, CallsOK
<1>8. /\ call'[t].pc = "store" /\ call'[t].root = i /\ call'[t].stored = 0
      /\ call'[t].path = c.path /\ call'[t].form = c.form
  BY <1>3, <1>7 DEF Call, Parsing
<1> HIDE DEF i, c
<1>9. Storing(call[t])'
  BY <1>5, <1>6, <1>8 DEF Storing, Content
<1>10. ~(c.form = "wisent" /\ ~c.force) \/ memory.objects[i].fill = 0
  BY <1>3 DEF Parsing, i
<1>11. \A k \in Clients : Undisturbed(k) => client[k].object # i
  <2> SUFFICES ASSUME NEW k \in Clients, Undisturbed(k), client[k].object = i PROVE FALSE
    OBVIOUS
  <2>1. ~Truncates(t)
    BY DEF Undisturbed, i
  <2>2. memory.objects[i].fill = 0
    BY <1>3, <1>10, <2>1 DEF Truncates, c
  <2> QED BY <2>2, ServerAssumption DEF Undisturbed, Complete, Full
<1>12. StoreStep
  <2>1. memory.shm[c.name] = i
    <3>1. c.name \notin Unlinked
      BY <1>3, OthersIdle DEF Unlinked, Idle, NoCall, c
    <3>2. EntryCurrent(memory, c.name)
      BY <1>3, <3>1 DEF SInv, IInv, EntriesCurrent
    <3> QED BY <1>2, <1>3, <3>2 DEF Parsing, EntryCurrent, Current, i
  <2>2. \A n \in Names \ {c.name} : memory.shm[n] # i
    BY <1>3, <1>4, <1>5, <2>1 DEF Tidy
  <2>3. \A n \in Names : n = c.name => DatasetOf(n)' = Dataset(c.path, c.form)
    BY <1>5, <1>6, <2>1 DEF DatasetOf, Content
  <2>4. \A n \in Names \ {c.name} : DatasetOf(n)' = DatasetOf(n)
    <3> TAKE n \in Names \ {c.name}
    <3>1. memory.shm[n] = 0 \/ memory.shm[n] \in 1 .. Len(memory.objects)
      BY <1>4 DEF MemoryOK, MemoryType
    <3> QED BY <1>5, <1>6, <2>2, <3>1 DEF DatasetOf
  <2>5. Dataset(c.path, c.form) \in Datasets
    BY <1>3 DEF Datasets
  <2>6. \/ DatasetOf(c.name) = Dataset("none", "none")
        \/ [name |-> c.name, dataset |-> Dataset(c.path, c.form)] \in Replacing
    <3>1. CASE c.force
      BY <1>3, <3>1 DEF Parsing
    <3>2. CASE c.form # "wisent"
      BY <1>3, <2>5, <3>2 DEF Replacing, Dataset
    <3>3. CASE c.form = "wisent" /\ ~c.force
      <4>1. memory.objects[i] = NoData
        BY <1>4, <1>5, <1>10, <3>3 DEF Tidy
      <4> QED BY <2>1, <4>1, <1>5 DEF DatasetOf, NoData
    <3> QED BY <3>1, <3>2, <3>3
  <2>7. Store!Load(c.name, Dataset(c.path, c.form))
    BY <1>3, <2>3, <2>4, <2>6 DEF Store!Load
  <2> QED BY <1>3, <2>5, <2>7 DEF StoreStep, Store!Next
<1> QED BY <1>2, <1>3, <1>5, <1>6, <1>7, <1>8, <1>9, <1>11, <1>12, WriterStep DEF Step, c

\* A write into the block of a load leaves the name its dataset.
LEMMA BlockStep ==
  ASSUME SInv, IInv', OneWorker, NEW t \in Threads, call[t].pc = "store", call[t].stored < Strings,
         UNCHANGED <<phase, client>>, \A u \in Threads \ {t} : call'[u] = call[u],
         call'[t].pc = "store", Storing(call[t])', Tidy(memory)', memory'.shm = memory.shm,
         call'[t].path = call[t].path, call'[t].form = call[t].form, call'[t].root = call[t].root,
         memory'.objects = [memory.objects EXCEPT ![call[t].root] = Content(call[t], call'[t].stored + 1)]
  PROVE  Step
<1> DEFINE i == call[t].root
<1>1. MemoryOK(memory) /\ i \in 1 .. Len(memory.objects) /\ Storing(call[t]) /\ call[t] \in Call
  BY DEF SInv, IInv, CallsOK, CallOK, LoadsOK, CallSound
<1>2. /\ Len(memory'.objects) = Len(memory.objects)
      /\ memory'.objects[i] = Content(call[t], call'[t].stored + 1)
      /\ \A j \in 1 .. Len(memory.objects) : j # i => memory'.objects[j] = memory.objects[j]
  BY <1>1 DEF MemoryOK, MemoryType
<1>3. memory.objects[i] = Content(call[t], call[t].stored + 1)
  BY <1>1 DEF Storing
<1> HIDE DEF i
<1>4. StoreStep
  <2>1. \A n \in Names : DatasetOf(n)' = DatasetOf(n)
    <3> TAKE n \in Names
    <3>1. memory.shm[n] = 0 \/ memory.shm[n] \in 1 .. Len(memory.objects)
      BY <1>1 DEF MemoryOK, MemoryType
    <3> QED BY <1>2, <1>3, <3>1 DEF DatasetOf, Content
  <2> QED BY <2>1 DEF StoreStep
<1>5. \A k \in Clients : Undisturbed(k) => client[k].object # i
  <2>1. memory.objects[i].fill = call[t].stored + 1 /\ call[t].stored + 1 # Full
    BY <1>1, <1>3, ServerAssumption DEF Content, Full, Call
  <2> QED BY <2>1 DEF Undisturbed, Complete
<1> QED BY <1>1, <1>2, <1>4, <1>5, WriterStep DEF Step

\* storeString writes one string more.
LEMMA StoreStringStep ==
  ASSUME SInv, IInv', OneWorker, NEW t \in Threads, LoadStore(t)
  PROVE  Step
<1>1. ASSUME NEW assertion, Fails(assertion) PROVE Step
  BY <1>1, FailsStep
<1>2. SUFFICES ASSUME memory' = realloc(memory, call[t], call[t].stored + 2),
                      call' = [call EXCEPT ![t].stored = @ + 1],
                      UNCHANGED <<phase, nextFile, client, prev, failed, sessions, starts, crashes>>
               PROVE  Step
  BY <1>1 DEF LoadStore
<1>3. /\ call[t].pc = "store" /\ call[t].stored < Strings /\ call[t] \in Call
      /\ call[t].path \in Paths /\ call[t].form \in Forms
      /\ memory.current # 0 /\ Storing(call[t]) /\ MemoryOK(memory) /\ Tidy(memory)
  BY DEF LoadStore, SInv, IInv, CallsOK, CallOK, Loading, LoadsOK, CallSound
<1>4. call[t].stored + 2 \in 1 .. Full
  BY <1>3, ServerAssumption DEF Full, Call
<1>5. /\ memory'.objects = [memory.objects EXCEPT ![Current.object] = Content(call[t], call[t].stored + 2)]
      /\ memory'.shm = memory.shm /\ memory'.current = memory.current
      /\ Current'.alive = Current.alive /\ Current'.object = Current.object /\ Current'.mapped
      /\ Current.object \in 1 .. Len(memory.objects) /\ Tidy(memory)'
  BY <1>2, <1>3, <1>4, WriteTidy DEF Current
<1>6. /\ call'[t] = [call[t] EXCEPT !.stored = call[t].stored + 1]
      /\ \A u \in Threads \ {t} : call'[u] = call[u]
  BY <1>2 DEF SInv, IInv, CallsOK
<1>7. /\ call'[t].pc = "store" /\ call'[t].root = call[t].root /\ call'[t].stored = call[t].stored + 1
      /\ call'[t].path = call[t].path /\ call'[t].form = call[t].form
  BY <1>3, <1>6 DEF Call
<1>8. call'[t].stored + 1 = call[t].stored + 2 /\ Current.object = call[t].root /\ Current.alive
  BY <1>3, <1>7 DEF Call, Storing
<1>9. Storing(call[t])'
  BY <1>3, <1>5, <1>7, <1>8 DEF Storing, Content, MemoryOK, MemoryType
<1> QED BY <1>2, <1>3, <1>5, <1>6, <1>7, <1>8, <1>9, BlockStep

\* A conversion is copied into its block.
LEMMA CopyStep ==
  ASSUME SInv, IInv', OneWorker, NEW t \in Threads, LoadCopy(t)
  PROVE  Step
<1> DEFINE i == call[t].root
<1>1. SUFFICES ASSUME memory' = [memory EXCEPT !.objects[i] = Content(call[t], Full)],
                      call' = [call EXCEPT ![t].stored = Strings],
                      UNCHANGED <<phase, nextFile, client, prev, failed, sessions, starts, crashes>>
               PROVE  Step
  BY FailsStep DEF LoadCopy
<1>2. /\ call[t].pc = "store" /\ call[t].stored < Strings /\ call[t] \in Call
      /\ Storing(call[t]) /\ MemoryOK(memory) /\ Tidy(memory) /\ i \in 1 .. Len(memory.objects)
  BY DEF LoadCopy, SInv, IInv, CallsOK, CallOK, LoadsOK, CallSound
<1>3. /\ memory'.objects = [memory.objects EXCEPT ![i] = Content(call[t], Full)]
      /\ memory'.shm = memory.shm /\ memory'.nodes = memory.nodes /\ memory'.current = memory.current
  BY <1>1, <1>2 DEF MemoryOK, MemoryType
<1>4. /\ call'[t] = [call[t] EXCEPT !.stored = Strings]
      /\ \A u \in Threads \ {t} : call'[u] = call[u]
  BY <1>1 DEF SInv, IInv, CallsOK
<1>5. /\ call'[t].pc = "store" /\ call'[t].root = call[t].root /\ call'[t].stored = Strings
      /\ call'[t].path = call[t].path /\ call'[t].form = call[t].form
  BY <1>2, <1>4 DEF Call
<1>6. Strings + 1 = Full /\ Content(call[t], Full).fill # 0
  BY ServerAssumption DEF Full, Content
<1>7. Tidy(memory)'
  <2>1. /\ Len(memory'.objects) = Len(memory.objects)
        /\ \A j \in 1 .. Len(memory.objects) :
             memory'.objects[j] = IF j = i THEN Content(call[t], Full) ELSE memory.objects[j]
    BY <1>2, <1>3 DEF MemoryOK, MemoryType
  <2> QED BY <1>2, <1>3, <1>6, <2>1 DEF Tidy
<1>8. Storing(call[t])'
  BY <1>2, <1>3, <1>5, <1>6 DEF Storing, Content, Current, MemoryOK, MemoryType
<1> QED BY <1>1, <1>2, <1>3, <1>4, <1>5, <1>6, <1>7, <1>8, BlockStep

\* The segments of loads under way are not touched by an object that is added.
LEMMA LoadsKept ==
  ASSUME SInv, Keeps(memory, memory'), memory'.nodes = memory.nodes,
         memory'.registry = memory.registry, memory'.current = memory.current,
         UNCHANGED <<call, phase>>
  PROVE  LoadsOK'
<1>1. ASSUME NEW t \in Threads, call[t].pc \in {"parse", "store"}
      PROVE  Current.object \in 1 .. Len(memory.objects)
  BY <1>1 DEF SInv, IInv, CallsOK, CallOK, MemoryOK, Current
<1>2. ASSUME NEW t \in Threads, call[t].pc = "parse" PROVE Parsing(call[t])'
  <2>1. Parsing(call[t])
    BY <1>2 DEF SInv, LoadsOK, CallSound
  <2> QED BY <1>1, <1>2, <2>1 DEF Parsing, Current, loaded, exists, Keeps
<1>3. ASSUME NEW t \in Threads, call[t].pc = "store" PROVE Storing(call[t])'
  <2>1. Storing(call[t]) /\ call[t].root \in 1 .. Len(memory.objects)
    BY <1>3 DEF SInv, IInv, CallsOK, CallOK, LoadsOK, CallSound
  <2> QED BY <2>1 DEF Storing, Current, Keeps
<1>4. ASSUME NEW t \in Threads, call[t].pc \in {"adopt", "check"} PROVE Asking(call[t])'
  <2>1. Asking(call[t])
    BY <1>4 DEF SInv, LoadsOK, CallSound
  <2>2. memory.nodes[call[t].node].object \in 1 .. Len(memory.objects)
    BY <1>4, HandlerPhase DEF Referring, SInv, IInv, MemoryOK
  <2> QED BY <2>1, <2>2 DEF Asking, exists, Keeps
<1>5. \A t \in Threads : CallSound(call[t])'
  BY <1>2, <1>3, <1>4 DEF SInv, LoadsOK, CallSound
<1> QED BY <1>5 DEF SInv, LoadsOK

\* A step that leaves the memory alone.
LEMMA MemoryStays ==
  ASSUME SInv, IInv', UNCHANGED memory, LoadsOK',
         \A k \in Clients : client'[k].pc = "mapped" => client'[k] = client[k]
  PROVE  Step
<1>1. Tidy(memory') /\ Keeps(memory, memory') /\ SameData(memory, memory')
  BY SameObjects DEF SInv, IInv
<1> QED BY <1>1, KeptStep DEF Step

\* A thread of the server.
LEMMA SerialThreadStep ==
  ASSUME SInv, IInv', OneWorker, NEW t \in Threads, ThreadNext(t)
  PROVE  Step
<1>0. MemoryOK(memory) /\ Tidy(memory) /\ ClientsOK
  BY DEF SInv, IInv
<1>1. ASSUME NEW k, Reply(k)
      PROVE  \A j \in Clients : client'[j].pc = "mapped" => client'[j] = client[j]
  BY <1>0, <1>1, ContinueViews, TRUE \in BOOLEAN DEF Reply
<1>2. ASSUME NEW k \in Clients, NEW request, request # "idle", Serving(t, k, request)
      PROVE  /\ t \in Workers /\ phase = "listening" /\ client[k].name \in Names
             /\ \A u \in Threads : Idle(u)
  BY <1>0, <1>2, ServingIdle DEF Serving, Waiting, Idle, ClientsOK
<1>3. ASSUME NEW k \in Clients, EraseRequest(t, k) \/ UnloadRequest(t, k) PROVE Step
  <2> DEFINE r == Asked(k, FALSE)
  <2>1. /\ t # "main" /\ phase = "listening" /\ UNCHANGED phase /\ \A u \in Threads : Idle(u)
        /\ r.name \in Names /\ ~r.force
    BY <1>2, <1>3, ServerAssumption DEF EraseRequest, UnloadRequest, Asked, Request
  <2> HIDE DEF r
  <2>2. PICK next \in {"unlink", "unmap"} : Lookup(t, k, r, next)
    BY <1>3 DEF EraseRequest, UnloadRequest, r
  <2> QED BY <2>1, <2>2, LookupStep
<1>5. ASSUME NEW k \in Clients, Stop(t, k) PROVE Step
  BY <1>1, <1>2, <1>5, IdleLoads, MemoryStays DEF Stop
<1>6. ASSUME NEW k \in Clients, LoadRequest(t, k) PROVE Step
  <2> DEFINE r == Asked(k, FALSE)
             next == IF r.form = "wisent" /\ ~r.force THEN "adopt" ELSE "check"
  <2>1. r.name \in Names /\ ~r.force /\ Lookup(t, k, r, next)
    BY <1>2, <1>6 DEF LoadRequest, LoadSteps, Asked, Request
  <2>2. next \in {"adopt", "check"} /\ (next = "check" => r.form # "wisent" \/ r.force)
    OBVIOUS
  <2> HIDE DEF r, next
  <2>3. t # "main" /\ phase = "listening" /\ UNCHANGED phase /\ \A u \in Threads : Idle(u)
    BY <1>2, <1>6, ServerAssumption DEF LoadRequest
  <2> QED BY <2>1, <2>2, <2>3, LookupStep
<1>7. ASSUME call[t].pc # "idle", Replies(t), UNCHANGED memory PROVE Step
  BY <1>7, RepliesAlone, MemoryStays
<1>8. CASE LoadThrows(t)
  BY <1>7, <1>8, DiesStep DEF LoadThrows
<1>9. CASE LoadReturn(t)
  BY <1>7, <1>9 DEF LoadReturn
<1>10. CASE LoadFound(t)
  BY <1>7, <1>10 DEF LoadFound, Refers
<1>11. CASE UsesDestroyed(t)
  BY <1>11, FailsStep DEF UsesDestroyed
<1> QED BY <1>3, <1>5, <1>6, <1>8, <1>9, <1>10, <1>11, UnlinkStep, ForgetStep, UnloadStep, AdoptStep,
           SelectStep, AllocateStep, StoreStringStep, CopyStep DEF ThreadNext

\* A client.
LEMMA SerialClientStep ==
  ASSUME SInv, IInv', NEW k \in Clients, ClientNext(k)
  PROVE  Step
<1>0. MemoryOK(memory) /\ Tidy(memory) /\ ClientsOK
  BY DEF SInv, IInv
<1>1. ASSUME UNCHANGED <<memory, phase, call>>,
             \A j \in Clients : client'[j].pc = "mapped" => client'[j] = client[j]
      PROVE  Step
  <2>1. Keeps(memory, memory')
    BY <1>0, <1>1 DEF Keeps, MemoryOK, MemoryType
  <2> QED BY <1>1, <2>1, LoadsKept, MemoryStays
<1>2. ASSUME NEW pc \in {"load", "unload", "erase", "stop"}, NEW name, NEW path, NEW form,
             Session(k, pc, name, path, form)
      PROVE  Step
  <2>1. \A j \in Clients : client'[j].pc = "mapped" => client'[j] = client[j]
    BY <1>0, <1>2 DEF Session, ClientsOK
  <2> QED BY <1>1, <1>2, <2>1 DEF Session
<1>3. CASE Refused(k)
  BY <1>0, <1>1, <1>3, ContinueViews, FALSE \in BOOLEAN DEF Refused
<1>4. CASE Closes(k)
  <2>1. \A j \in Clients : client'[j].pc = "mapped" => client'[j] = client[j]
    <3>1. client'[k].pc = "unload" /\ \A j \in Clients \ {k} : client'[j] = client[j]
      BY <1>0, <1>4 DEF Closes, ClientsOK, Client
    <3> QED BY <3>1
  <2> QED BY <1>1, <1>4, <2>1 DEF Closes
<1>5. CASE Opens(k)
  <2> DEFINE opened == IF k \in Scripts THEN memory ELSE OpenOrCreate(memory, client[k].name)
             object == opened.shm[client[k].name]
  <2>1. client[k] \in Client /\ client[k].name \in Names
    BY <1>0, <1>5 DEF Opens, ClientsOK
  <2>2. /\ MemoryOK(opened) /\ Tidy(opened) /\ Keeps(memory, opened) /\ SameData(memory, opened)
        /\ opened.nodes = memory.nodes /\ opened.registry = memory.registry
        /\ opened.current = memory.current
    BY <1>0, <2>1, OpenOrCreateOK, OpenOrCreateTidy, SameObjects DEF KeepsCurrent
  <2>3. /\ memory' = opened
        /\ \/ object # 0 /\ client' = [client EXCEPT ![k].pc = "mapped", ![k].object = object]
           \/ client' = [client EXCEPT ![k] = AtHome]
        /\ UNCHANGED <<phase, call>>
    BY <1>5, Zenon DEF Opens
  <2>4. object \in 0 .. Len(opened.objects) /\ Len(opened.objects) \in Nat
    BY <2>1, <2>2 DEF MemoryOK, MemoryType
  <2> HIDE DEF opened, object
  <2>5. LoadsOK'
    BY <2>2, <2>3, LoadsKept
  <2>6. ViewsOK'
    <3>1. Len(memory.objects) \in Nat /\ Len(memory.objects) <= Len(memory'.objects)
      BY <1>0, <2>2, <2>3 DEF MemoryOK, MemoryType, Keeps
    <3>2. \A j \in Clients \ {k} : client'[j].pc = "mapped" => client'[j].object \in 1 .. Len(memory.objects)
      BY <1>0, <2>3 DEF SInv, ViewsOK, ClientsOK
    <3>3. client'[k].pc = "mapped" => client'[k].object = object /\ object # 0
      BY <1>0, <2>1, <2>3 DEF ClientsOK, Client, AtHome
    <3> QED BY <2>3, <2>4, <3>1, <3>2, <3>3 DEF ViewsOK
  <2>7. StoreStep /\ ViewsStep
    <3>1. StoreStep
      BY <2>2, <2>3 DEF StoreStep, SameData, DatasetIn, DatasetOf
    <3>2. ViewsStep
      BY <2>2, <2>3 DEF ViewsStep, Undisturbed, SInv, ViewsOK, Keeps
    <3> QED BY <3>1, <3>2
  <2> QED BY <2>2, <2>3, <2>5, <2>6, <2>7 DEF Step
<1> QED BY <1>2, <1>3, <1>4, <1>5 DEF ClientNext, BenchmarkBegins, ScriptBegins, UserAsks

\* The end of the process by itself takes the names of the command line along.
LEMMA ExitStep ==
  ASSUME SInv, IInv', Exit
  PROVE  Step
<1> DEFINE left == [n \in Names |-> IF n \in Deleted THEN 0 ELSE memory.shm[n]]
<1>1. memory'.objects = memory.objects /\ memory'.shm = left
  <2>1. memory \in MemoryType
    BY DEF SInv, IInv, MemoryOK
  <2> HIDE DEF left
  <2>2. \A f, g : /\ [[memory EXCEPT !.shm = left] EXCEPT !.nodes = f, !.registry = g, !.current = 0].objects = memory.objects
                  /\ [[memory EXCEPT !.shm = left] EXCEPT !.nodes = f, !.registry = g, !.current = 0].shm = left
    BY <2>1 DEF MemoryType
  <2>3. memory' = ProcessEnds([memory EXCEPT !.shm = left])
    BY DEF Exit, left
  <2> QED BY <2>2, <2>3 DEF ProcessEnds
<1>2. \A n \in Names : memory'.shm[n] = IF n \in Deleted THEN 0 ELSE memory.shm[n]
  BY <1>1
<1>3. Tidy(memory') /\ Keeps(memory, memory')
  BY <1>1, <1>2 DEF SInv, IInv, MemoryOK, MemoryType, Tidy, Keeps
<1>4. StoreStep
  <2>1. \A n \in Names : DatasetOf(n)' = IF n \in Deleted \cap Names THEN Dataset("none", "none") ELSE DatasetOf(n)
    BY <1>1, <1>2 DEF DatasetOf
  <2>2. Deleted \cap Names \in SUBSET Names /\ Store!Erase(Deleted \cap Names)
    BY <2>1 DEF Store!Erase
  <2> QED BY <2>2 DEF StoreStep, Store!Next
<1>5. LoadsOK'
  BY IdleLoads DEF Exit, Idle
<1> QED BY <1>3, <1>4, <1>5, KeptViews DEF Exit, Step

\* Every step, of a server with one worker.
LEMMA SerialStep ==
  ASSUME SInv, OneWorker, [Next]_vars
  PROVE  SInv' /\ Step
<1>0. IInv'
  BY InvariantStep DEF SInv
<1> SUFFICES Step
  BY <1>0 DEF SInv, Step
<1>1. ASSUME UNCHANGED <<memory, client>>, \A t \in Threads : Idle(t), UNCHANGED call PROVE Step
  BY <1>0, <1>1, IdleLoads, MemoryStays
<1>2. ASSUME phase = "down" PROVE \A t \in Threads : Idle(t)
  BY <1>2 DEF SInv, LoadsOK, CallSound, Idle, Threads
<1>3. ASSUME phase = "starting", Idle("main") PROVE \A t \in Threads : Idle(t)
  BY <1>3 DEF SInv, LoadsOK, CallSound, Idle, Threads
<1>4. CASE Start
  BY <1>1, <1>2, <1>4 DEF Start
<1>5. CASE Listen
  BY <1>1, <1>3, <1>5 DEF Listen, Idle
<1>6. CASE Crash
  BY <1>0, <1>6, DiesStep DEF Crash
<1>7. CASE Exit
  BY <1>0, <1>7, ExitStep
<1>8. CASE LoadCommandLine
  <2> DEFINE r == Request(CommandLine[nextFile].name, CommandLine[nextFile].path, CommandLineForm,
                          ForceReload /\ CommandLineForm = "wisent")
  <2>1. nextFile \in 1 .. Len(CommandLine) /\ ForceReload \in BOOLEAN /\ "main" \in Threads
    BY <1>8, ServerAssumption DEF LoadCommandLine, SInv, IInv, ProcessOK, Threads
  <2>2. CommandLine[nextFile] \in [name : Names, path : Paths]
    BY <2>1, ServerAssumption, ElementOfSeq
  <2>3. /\ r.name = CommandLine[nextFile].name /\ r.path = CommandLine[nextFile].path
        /\ r.form = CommandLineForm /\ r.force = (ForceReload /\ CommandLineForm = "wisent")
    BY DEF Request
  <2> DEFINE next == IF r.form = "wisent" /\ ~r.force THEN "adopt" ELSE "check"
  <2>4. /\ Lookup("main", "main", r, next) /\ phase = "starting" /\ UNCHANGED phase
        /\ \A t \in Threads : Idle(t)
    BY <1>3, <1>8 DEF LoadCommandLine, LoadSteps, Idle
  <2>7. next \in {"adopt", "check"} /\ (next = "check" => r.form # "wisent" \/ r.force)
    OBVIOUS
  <2> HIDE DEF r, next
  <2>5. r.name \in Names /\ r.force \in BOOLEAN
    BY <2>1, <2>2, <2>3
  <2>6. r.force => [name |-> r.name, dataset |-> Dataset(r.path, r.form)] \in Replacing
    <3>1. nextFile \in DOMAIN CommandLine
      BY <2>1, ServerAssumption
    <3> QED BY <2>3, <3>1 DEF Replacing
  <2> QED BY <1>0, <2>1, <2>4, <2>5, <2>6, <2>7, ServerAssumption, LookupStep
<1>9. CASE UNCHANGED vars
  <2>1. Keeps(memory, memory') /\ LoadsOK'
    <3>1. Keeps(memory, memory')
      BY <1>9 DEF vars, SInv, IInv, MemoryOK, MemoryType, Keeps
    <3> QED BY <1>9, <3>1, LoadsKept DEF vars
  <2> QED BY <1>0, <1>9, <2>1, MemoryStays DEF vars
<1>10. CASE Rests
  BY <1>9, <1>10 DEF Rests
<1> QED BY <1>0, <1>4, <1>5, <1>6, <1>7, <1>8, <1>9, <1>10, SerialThreadStep, SerialClientStep DEF Next

\* At first there is no object, no load and no view.
LEMMA SerialInit == Init => SInv
<1> SUFFICES ASSUME Init PROVE SInv
  OBVIOUS
<1>1. IInv
  BY InitInvariant
<1>2. Tidy(memory)
  BY DEF Init, Tidy, NewMemory
<1>3. LoadsOK
  BY DEF Init, LoadsOK, CallSound, NoCall, Referring, Threads
<1>4. ViewsOK
  BY DEF Init, ViewsOK, AtHome
<1> QED BY <1>1, <1>2, <1>3, <1>4 DEF SInv

\* No name has a dataset at first.
LEMMA SerialStoreInit == Init => Store!Init
  BY DEF Init, NewMemory, Store!Init, DatasetOf

(***************************************************************************)
(* With one worker, a dataset that a client has mapped whole does not      *)
(* change under it, whatever is erased and loaded meanwhile and however    *)
(* often the server crashes.                                               *)
(***************************************************************************)
THEOREM SerialViewsStay ==
  ASSUME OneWorker
  PROVE  Spec => ViewsStay
<1>1. SInv /\ [Next]_vars => SInv' /\ ViewsStep
  BY SerialStep DEF Step
<1>2. ViewsStep => \A k \in Clients : Undisturbed(k) =>
                     memory'.objects[client[k].object] = memory.objects[client[k].object]
  BY DEF ViewsStep
<1> QED BY <1>1, <1>2, SerialInit, PTL DEF Spec, ViewsStay

(***************************************************************************)
(* With one worker, the server implements the DatasetStore of its clients: *)
(* a load puts a dataset under a name that has none, or is one of those    *)
(* that replace; nothing else changes what is under a name but its erasure.*)
(***************************************************************************)
THEOREM SerialServerIsStore ==
  ASSUME OneWorker
  PROVE  Spec => ServerIsStore
<1>1. SInv /\ [Next]_vars => SInv' /\ StoreStep
  BY SerialStep DEF Step
<1> QED BY <1>1, SerialInit, SerialStoreInit, PTL DEF Spec, ServerIsStore, Store!Spec, StoreStep

(***************************************************************************)
(* What a load's assertions, and the reference it holds, need besides: the *)
(* segments of a starting server are those of the files it has loaded, so  *)
(* that a forced load, which only the command line asks for, frees none.   *)
(***************************************************************************)
NamesDiffer ==
  \A i, j \in DOMAIN CommandLine : CommandLine[i].name = CommandLine[j].name => i = j

Fresh ==
  /\ phase = "down" => \A n \in Names : memory.registry[n] = 0
  /\ phase = "starting" => \A n \in Names : memory.registry[n] # 0 =>
       \E i \in 1 .. nextFile - 1 : CommandLine[i].name = n

\* No load is under way whose segment was freed, or will be.
Live(c) ==
  /\ c.pc = "adopt" => ~c.force
  /\ c.pc = "check" /\ c.force => ~memory.nodes[c.node].mapped
  /\ c.pc = "parse" => Current.alive
LoadsLive == \A t \in Threads : Live(call[t])
Sound == failed \subseteq {"unload: loaded()"}
FInv == SInv /\ Fresh /\ LoadsLive /\ Sound

\* No load runs into one of its assertions, or a segment that is gone.
LEMMA LoadsSucceed ==
  ASSUME FInv, NEW t \in Threads, ThreadNext(t)
  PROVE  Sound' /\ ~UsesDestroyed(t)
<1>1. ASSUME NEW k, Reply(k) PROVE Sound'
  BY <1>1 DEF Reply, FInv, Sound
<1>2. ASSUME UNCHANGED failed PROVE Sound'
  BY <1>2 DEF FInv, Sound
<1>3. ~UsesDestroyed(t)
  BY HandlerPhase DEF UsesDestroyed, Node, Referring, FInv
<1> SUFFICES Sound'
  BY <1>3
<1>4. CASE LoadAllocate(t)
  <2>1. Current.alive /\ ~loaded(memory, memory.current)
    BY <1>4 DEF LoadAllocate, FInv, LoadsLive, Live, SInv, LoadsOK, CallSound, Parsing
  <2> QED BY <1>2, <1>4, <2>1 DEF LoadAllocate
<1>5. ASSUME call[t].pc = "store"
      PROVE  /\ Current.alive /\ Current.mapped /\ Current.object = call[t].root
             /\ loaded(memory, memory.current) /\ memory.current \in DOMAIN memory.nodes
  <2>1. Storing(call[t]) /\ call[t] \in Call /\ memory.current # 0
    BY <1>5 DEF FInv, SInv, IInv, CallsOK, CallOK, LoadsOK, CallSound
  <2>2. memory.objects[Current.object].fill > 0
    BY <2>1 DEF Storing, Content, Call
  <2>3. memory.current \in DOMAIN memory.nodes
    BY <2>1 DEF FInv, SInv, IInv, MemoryOK, MemoryType
  <2> QED BY <2>1, <2>2, <2>3 DEF Storing, loaded, exists, Current
<1>6. CASE LoadStore(t)
  BY <1>2, <1>5, <1>6 DEF LoadStore
<1>7. CASE LoadCopy(t)
  <2>1. \E k \in DOMAIN memory.nodes : memory.nodes[k].object = call[t].root /\ memory.nodes[k].mapped
    BY <1>5, <1>7 DEF LoadCopy, Current
  <2> QED BY <1>2, <1>7, <2>1 DEF LoadCopy
<1>8. CASE LoadThrows(t)
  BY <1>1, <1>2, <1>8 DEF LoadThrows, Replies
<1>9. ASSUME NEW k \in Clients, EraseRequest(t, k) \/ UnloadRequest(t, k) \/ LoadRequest(t, k) PROVE Sound'
  BY <1>2, <1>9 DEF EraseRequest, UnloadRequest, LoadRequest, LoadSteps, Lookup
<1>10. CASE Unload(t)
  BY <1>1, <1>10 DEF Unload, Fails, Replies, FInv, Sound
<1>11. CASE EraseUnlink(t) \/ LoadAdopt(t) \/ LoadSelect(t)
  BY <1>2, <1>11 DEF EraseUnlink, LoadAdopt, LoadSelect, GoesOn
<1>12. CASE EraseForget(t) \/ LoadFound(t) \/ LoadReturn(t)
  BY <1>1, <1>12 DEF EraseForget, LoadFound, LoadReturn, Replies
<1>13. ASSUME NEW k \in Clients, Stop(t, k) PROVE Sound'
  BY <1>1, <1>13 DEF Stop
<1> QED BY <1>3, <1>4, <1>6, <1>7, <1>8, <1>9, <1>10, <1>11, <1>12, <1>13 DEF ThreadNext

\* A thread without a handler has nothing to lose.
LEMMA NoCallLive ==
  ASSUME NEW t \in Threads, call'[t].pc \in {"idle", "unlink", "forget", "unmap", "store"}
  PROVE  Live(call[t])'
  BY DEF Live

\* While one handler runs and no other.
LEMMA OneLive ==
  ASSUME SInv, OneWorker, NEW t \in Threads, call[t].pc # "idle",
         \A u \in Threads \ {t} : call'[u] = call[u], Live(call[t])'
  PROVE  LoadsLive'
<1>1. \A u \in Threads \ {t} : call'[u].pc = "idle"
  BY OthersIdle DEF Idle, NoCall
<1> QED BY <1>1, NoCallLive DEF LoadsLive

\* A load that is not forced, or has no entry yet, is live when it has looked
\* its name up, and no other name gets an entry by it.
LEMMA LookupLive ==
  ASSUME SInv, \A u \in Threads : Idle(u), NEW t \in Threads, NEW from, NEW r, r.name \in Names,
         NEW next, next # "parse", r.force => memory.registry[r.name] = 0 /\ next = "check",
         Lookup(t, from, r, next)
  PROVE  /\ LoadsLive'
         /\ \A n \in Names \ {r.name} : memory'.registry[n] = memory.registry[n]
<1> DEFINE got == createOrGetMemorySegment(memory, r.name)
           c   == [pc |-> next, from |-> from, name |-> r.name, path |-> r.path,
                   form |-> r.form, force |-> r.force,
                   node |-> got.registry[r.name], root |-> 0, stored |-> 0]
<1>1. /\ \A n \in Names \ {r.name} : got.registry[n] = memory.registry[n]
      /\ r.force => ~got.nodes[got.registry[r.name]].mapped
  BY CreateOrGetEntry DEF SInv, IInv
<1>2. memory' = got /\ call' = [call EXCEPT ![t] = c]
  BY DEF Lookup
<1>3. c.pc = next /\ c.force = r.force /\ c.node = got.registry[r.name]
  OBVIOUS
<1> HIDE DEF got, c
<1>4. call'[t] = c /\ \A u \in Threads \ {t} : call'[u].pc = "idle"
  BY <1>2 DEF Idle, NoCall, SInv, IInv, CallsOK
<1>5. Live(call[t])'
  BY <1>1, <1>2, <1>3, <1>4 DEF Live
<1> QED BY <1>1, <1>2, <1>4, <1>5, NoCallLive DEF LoadsLive

\* A server that starts loads the files of its command line in their order.
LEMMA CommandLineStep ==
  ASSUME NamesDiffer, FInv, LoadCommandLine
  PROVE  Fresh' /\ LoadsLive' /\ Sound'
<1> DEFINE r == Request(CommandLine[nextFile].name, CommandLine[nextFile].path, CommandLineForm,
                        ForceReload /\ CommandLineForm = "wisent")
           next == IF r.form = "wisent" /\ ~r.force THEN "adopt" ELSE "check"
<1>1. /\ nextFile \in 1 .. Len(CommandLine) /\ "main" \in Threads /\ DOMAIN CommandLine = 1 .. Len(CommandLine)
      /\ phase = "starting" /\ phase' = "starting" /\ nextFile' = nextFile + 1
  BY ServerAssumption DEF LoadCommandLine, FInv, SInv, IInv, ProcessOK, Threads
<1>2. CommandLine[nextFile] \in [name : Names, path : Paths]
  BY <1>1, ServerAssumption, ElementOfSeq
<1>3. /\ r.name = CommandLine[nextFile].name /\ r.name \in Names /\ Lookup("main", "main", r, next)
      /\ next # "parse" /\ (r.force => next = "check")
  BY <1>2 DEF LoadCommandLine, LoadSteps, Request
<1> HIDE DEF r, next
<1>4. memory.registry[r.name] = 0
  BY <1>1, <1>3 DEF FInv, Fresh, NamesDiffer
<1>5. \A u \in Threads : Idle(u)
  BY <1>1 DEF LoadCommandLine, FInv, SInv, LoadsOK, CallSound, Idle, Threads
<1>6. /\ LoadsLive'
      /\ \A n \in Names \ {r.name} : memory'.registry[n] = memory.registry[n]
  BY <1>1, <1>3, <1>4, <1>5, LookupLive DEF FInv
<1>7. Fresh'
  <2> SUFFICES ASSUME NEW n \in Names, memory'.registry[n] # 0
               PROVE  \E i \in 1 .. nextFile' - 1 : CommandLine[i].name = n
    BY <1>1 DEF Fresh
  <2>1. CASE n = r.name
    BY <1>1, <1>3, <2>1
  <2>2. CASE n # r.name
    <3>1. PICK i \in 1 .. nextFile - 1 : CommandLine[i].name = n
      BY <1>1, <1>6, <2>2 DEF FInv, Fresh
    <3> QED BY <1>1, <3>1
  <2> QED BY <2>1, <2>2
<1>8. Sound'
  BY <1>3 DEF Lookup, FInv, Sound
<1> QED BY <1>6, <1>7, <1>8

\* What the other steps of a load leave of it.
LEMMA AdoptLive ==
  ASSUME FInv, OneWorker, NEW t \in Threads, LoadAdopt(t)
  PROVE  LoadsLive' /\ memory'.registry = memory.registry
<1>1. call[t].pc = "adopt" /\ ~call[t].force /\ call[t] \in Call /\ call[t].node \in 1 .. Len(memory.nodes)
  BY HandlerPhase DEF LoadAdopt, Refers, Referring, FInv, LoadsLive, Live
<1>2. /\ call'[t].pc = "check" /\ call'[t].force = call[t].force
      /\ \A u \in Threads \ {t} : call'[u] = call[u]
  BY <1>1 DEF LoadAdopt, GoesOn, FInv, SInv, IInv, CallsOK, Call
<1>3. Live(call[t])'
  BY <1>1, <1>2 DEF Live
<1>4. memory'.registry = memory.registry
  <2>1. CASE memory' = load(memory, call[t].node)
    <3>1. memory' = WithMapped(memory, call[t].node, TRUE) /\ TRUE \in BOOLEAN
      BY <2>1 DEF load, WithMapped
    <3>2. NodeMaps(memory, memory', call[t].node, TRUE)
      BY <1>1, <3>1, MapKeeps DEF FInv, SInv, IInv
    <3> QED BY <3>2 DEF NodeMaps
  <2> QED BY <2>1 DEF LoadAdopt
<1> QED BY <1>1, <1>2, <1>3, <1>4, OneLive DEF FInv

\* A load that goes on after its look makes its own segment the current one.
LEMMA SelectLive ==
  ASSUME FInv, OneWorker, NEW t \in Threads, LoadSelect(t)
  PROVE  LoadsLive' /\ memory'.registry = memory.registry
<1> DEFINE k == call[t].node
<1>1. /\ call[t].pc = "check" /\ call[t] \in Call /\ k \in 1 .. Len(memory.nodes) /\ memory.nodes[k].alive
      /\ ~loaded(memory, k)
  BY HandlerPhase DEF LoadSelect, Refers, Referring, loaded, FInv, LoadsLive, Live
<1>2. memory' = [memory EXCEPT !.current = k]
  BY <1>1 DEF LoadSelect
<1>3. /\ call'[t].pc = "parse" /\ \A u \in Threads \ {t} : call'[u] = call[u]
  BY <1>1 DEF LoadSelect, GoesOn, FInv, SInv, IInv, CallsOK, Call
<1> HIDE DEF k
<1>4. memory'.nodes = memory.nodes /\ memory'.registry = memory.registry /\ memory'.current = k
  BY <1>1, <1>2, SetCurrentOK DEF FInv, SInv, IInv
<1>5. Live(call[t])'
  BY <1>1, <1>3, <1>4 DEF Live, Current
<1> QED BY <1>1, <1>3, <1>4, <1>5, OneLive DEF FInv

\* A step with which a handler comes to where it can lose nothing more.
LEMMA ThreadLive ==
  ASSUME FInv, OneWorker, NEW t \in Threads, call[t].pc # "idle",
         UNCHANGED <<phase, nextFile>>, call' = [call EXCEPT ![t] = call'[t]],
         call'[t].pc \in {"idle", "unlink", "forget", "unmap", "store"},
         \A n \in Names : memory'.registry[n] \in {0, memory.registry[n]}
  PROVE  Fresh' /\ LoadsLive'
<1>1. Fresh'
  BY DEF FInv, Fresh
<1>2. \A u \in Threads \ {t} : call'[u] = call[u]
  BY DEF FInv, SInv, IInv, CallsOK
<1> QED BY <1>1, <1>2, NoCallLive, OneLive DEF FInv

\* A handler's reply leaves no load under way.
LEMMA RepliesLive ==
  ASSUME FInv, OneWorker, NEW t \in Threads, call[t].pc # "idle", Replies(t),
         \A n \in Names : memory'.registry[n] \in {0, memory.registry[n]}
  PROVE  Fresh' /\ LoadsLive'
<1>1. call'[t] = NoCall /\ NoCall.pc = "idle" /\ call' = [call EXCEPT ![t] = call'[t]]
  BY DEF Replies, NoCall, FInv, SInv, IInv, CallsOK
<1> QED BY <1>1, ThreadLive DEF Replies

\* An allocation, a string, a conversion.
LEMMA StoresLive ==
  ASSUME FInv, OneWorker, NEW t \in Threads, LoadAllocate(t) \/ LoadStore(t) \/ LoadCopy(t),
         ~ \E assertion : Fails(assertion)
  PROVE  Fresh' /\ LoadsLive'
<1>1. call[t] \in Call /\ call[t].pc \in {"parse", "store"} /\ MemoryOK(memory)
  BY DEF LoadAllocate, LoadStore, LoadCopy, FInv, SInv, IInv, CallsOK
<1>2. /\ UNCHANGED <<phase, nextFile>> /\ call' = [call EXCEPT ![t] = call'[t]] /\ call'[t].pc = "store"
      /\ memory'.registry = memory.registry
  <2>1. CASE LoadAllocate(t)
    <3>1. /\ memory' = malloc(memory, call[t])
          /\ call' = [call EXCEPT ![t].pc = "store", ![t].root = Current.object]
          /\ UNCHANGED <<phase, nextFile>>
      BY <2>1 DEF LoadAllocate
    <3>2. memory'.registry = memory.registry
      BY <1>1, <3>1, WriteRegistry DEF malloc, realloc
    <3> QED BY <1>1, <3>1, <3>2 DEF FInv, SInv, IInv, CallsOK, Call
  <2>2. CASE LoadStore(t)
    <3>1. /\ memory' = realloc(memory, call[t], call[t].stored + 2)
          /\ call' = [call EXCEPT ![t].stored = @ + 1]
          /\ UNCHANGED <<phase, nextFile>> /\ call[t].pc = "store"
      BY <2>2 DEF LoadStore
    <3>2. memory'.registry = memory.registry
      BY <1>1, <3>1, WriteRegistry
    <3> QED BY <1>1, <3>1, <3>2 DEF FInv, SInv, IInv, CallsOK, Call
  <2>3. CASE LoadCopy(t)
    <3>1. /\ memory' = [memory EXCEPT !.objects[call[t].root] = Content(call[t], Full)]
          /\ call' = [call EXCEPT ![t].stored = Strings]
          /\ UNCHANGED <<phase, nextFile>> /\ call[t].pc = "store"
      BY <2>3 DEF LoadCopy
    <3>2. memory'.registry = memory.registry
      BY <1>1, <3>1 DEF MemoryOK, MemoryType
    <3> QED BY <1>1, <3>1, <3>2 DEF FInv, SInv, IInv, CallsOK, Call
  <2> QED BY <2>1, <2>2, <2>3
<1> QED BY <1>1, <1>2, ThreadLive

\* The end of the process leaves no entry and no load.
LEMMA DiesLive ==
  ASSUME FInv, Dies
  PROVE  Fresh' /\ LoadsLive'
<1>1. \A n \in Names : memory'.registry[n] = 0
  BY ProcessEndsOK DEF Dies, FInv, SInv, IInv, MemoryOK
<1>2. \A u \in Threads : call'[u].pc = "idle"
  BY DEF Dies, NoCall
<1> QED BY <1>1, <1>2, NoCallLive DEF Dies, Fresh, LoadsLive

\* A step of a thread leaves each load a live segment of its own, and no assertion
\* fails but that of unload.
LEMMA ThreadFresh ==
  ASSUME FInv, OneWorker, NEW t \in Threads, ThreadNext(t)
  PROVE  Fresh' /\ LoadsLive' /\ Sound'
<1>0. Sound' /\ ~UsesDestroyed(t) /\ MemoryOK(memory)
  BY LoadsSucceed DEF FInv, SInv, IInv
<1> SUFFICES Fresh' /\ LoadsLive'
  BY <1>0
<1>1. ASSUME NEW assertion, Fails(assertion) PROVE Fresh' /\ LoadsLive'
  BY <1>1, DiesLive DEF Fails
<1>2. ASSUME NEW k \in Clients, NEW request, Serving(t, k, request)
      PROVE  /\ phase = "listening" /\ t \in Workers
             /\ \A u \in Threads : Idle(u)
             /\ request # "idle" => client[k].name \in Names
  BY <1>2, ServingIdle DEF FInv, SInv, IInv, ClientsOK, Serving, Waiting, Idle
<1>3. ASSUME phase = "listening", UNCHANGED phase \/ phase' = "stopping" PROVE Fresh'
  BY <1>3 DEF Fresh
<1>4. ASSUME NEW k \in Clients, NEW next, Serving(t, k, "erase") \/ Serving(t, k, "unload") \/ Serving(t, k, "load"),
             next # "parse", Lookup(t, k, Asked(k, FALSE), next), UNCHANGED phase
      PROVE  Fresh' /\ LoadsLive'
  <2> DEFINE r == Asked(k, FALSE)
  <2>1. r.name \in Names /\ ~r.force /\ \A u \in Threads : Idle(u)
    BY <1>2, <1>4 DEF Asked, Request
  <2> HIDE DEF r
  <2>2. LoadsLive'
    BY <1>4, <2>1, LookupLive DEF FInv, r
  <2> QED BY <1>2, <1>3, <1>4, <2>2
<1>5. ASSUME NEW k \in Clients, EraseRequest(t, k) \/ UnloadRequest(t, k) \/ LoadRequest(t, k)
      PROVE  Fresh' /\ LoadsLive'
  BY <1>4, <1>5 DEF EraseRequest, UnloadRequest, LoadRequest, LoadSteps
<1>6. ASSUME NEW k \in Clients, Stop(t, k) PROVE Fresh' /\ LoadsLive'
  <2>1. \A u \in Threads : call'[u].pc = "idle"
    BY <1>2, <1>6 DEF Stop, Idle, NoCall
  <2> QED BY <1>2, <1>3, <1>6, <2>1, NoCallLive DEF Stop, LoadsLive
<1>7. CASE EraseUnlink(t)
  <2>1. /\ call[t].pc = "unlink" /\ call[t] \in Call /\ call[t].node \in 1 .. Len(memory.nodes)
        /\ memory.nodes[call[t].node].name = call[t].name /\ call[t].name \in Names
    BY <1>7, HandlerPhase DEF EraseUnlink, Refers, Referring, FInv
  <2>2. memory'.registry = memory.registry
    BY <1>0, <1>7, <2>1, EraseOK DEF EraseUnlink, NodeMaps
  <2>3. call'[t].pc = "forget" /\ call' = [call EXCEPT ![t] = call'[t]] /\ UNCHANGED <<phase, nextFile>>
    BY <1>7, <2>1 DEF EraseUnlink, GoesOn, FInv, SInv, IInv, CallsOK, Call
  <2> QED BY <2>1, <2>2, <2>3, ThreadLive
<1>8. CASE EraseForget(t)
  <2>1. call[t].pc = "forget" /\ call[t].name \in Names
    BY <1>8, HandlerPhase DEF EraseForget, Referring, FInv
  <2>2. \A n \in Names : memory'.registry[n] \in {0, memory.registry[n]}
    BY <1>0, <1>8, <2>1, ForgetOK DEF EraseForget
  <2> QED BY <1>8, <2>1, <2>2, RepliesLive DEF EraseForget
<1>9. CASE Unload(t)
  <2>1. call[t].pc = "unmap" /\ call[t].node \in 1 .. Len(memory.nodes)
    BY <1>9, HandlerPhase DEF Unload, Refers, Referring, FInv
  <2>2. CASE memory' = unload(memory, call[t].node) /\ Replies(t)
    <3>1. memory' = WithMapped(memory, call[t].node, FALSE) /\ FALSE \in BOOLEAN
      BY <2>2 DEF unload, WithMapped
    <3>2. memory'.registry = memory.registry
      BY <1>0, <2>1, <3>1, MapKeeps DEF NodeMaps
    <3> QED BY <2>1, <2>2, <3>2, RepliesLive
  <2> QED BY <1>1, <1>9, <2>2 DEF Unload
<1>10. ASSUME UNCHANGED <<phase, nextFile>>, memory'.registry = memory.registry PROVE Fresh'
  BY <1>10 DEF FInv, Fresh
<1>11. CASE LoadAdopt(t)
  BY <1>10, <1>11, AdoptLive DEF LoadAdopt, GoesOn
<1>12. CASE LoadSelect(t)
  BY <1>10, <1>12, SelectLive DEF LoadSelect, GoesOn
<1>13. CASE LoadFound(t) \/ LoadReturn(t)
  <2>1. call[t].pc # "idle" /\ Replies(t) /\ UNCHANGED memory
    BY <1>13 DEF LoadFound, LoadReturn, Refers
  <2> QED BY <2>1, RepliesLive
<1>14. CASE LoadThrows(t)
  <2>1. call[t].pc # "idle" /\ (Dies \/ (Replies(t) /\ UNCHANGED memory))
    BY <1>14 DEF LoadThrows
  <2> QED BY <2>1, DiesLive, RepliesLive
<1>15. CASE LoadAllocate(t) \/ LoadStore(t) \/ LoadCopy(t)
  BY <1>1, <1>15, StoresLive
<1> QED BY <1>0, <1>5, <1>6, <1>7, <1>8, <1>9, <1>11, <1>12, <1>13, <1>14, <1>15 DEF ThreadNext

\* Every step of the system does.
LEMMA FreshStep ==
  ASSUME NamesDiffer, OneWorker, FInv, SInv', Next
  PROVE  Fresh' /\ LoadsLive' /\ Sound'
<1>1. CASE Start
  BY <1>1 DEF Start, FInv, Fresh, LoadsLive, Live, Sound, Current
<1>2. CASE Listen
  BY <1>2 DEF Listen, FInv, Fresh, LoadsLive, Live, Sound, Current
<1>3. CASE Crash
  BY <1>3, DiesLive DEF Crash, FInv, Sound
<1>4. CASE Exit
  <2>1. \A n \in Names : memory'.registry[n] = 0
    BY <1>4 DEF Exit, ProcessEnds, FInv, SInv, IInv, MemoryOK, MemoryType
  <2>2. \A u \in Threads : call'[u].pc = "idle"
    BY <1>4 DEF Exit, NoCall
  <2> QED BY <1>4, <2>1, <2>2, NoCallLive DEF Exit, Fresh, LoadsLive, FInv, Sound
<1>5. CASE Rests
  BY <1>5 DEF Rests, vars, FInv, Fresh, LoadsLive, Live, Sound, Current
<1>6. ASSUME NEW k \in Clients, ClientNext(k) PROVE Fresh' /\ LoadsLive' /\ Sound'
  <2>1. UNCHANGED <<phase, nextFile, call, failed>>
    BY <1>6, Zenon DEF ClientNext, BenchmarkBegins, ScriptBegins, UserAsks, Session, Refused, Opens, Closes
  <2>2. memory'.registry = memory.registry /\ memory'.nodes = memory.nodes /\ memory'.current = memory.current
    <3>1. CASE Opens(k)
      <4>1. MemoryOK(memory) /\ client[k].name \in Names
        BY <3>1 DEF Opens, FInv, SInv, IInv, ClientsOK
      <4>2. memory' = OpenOrCreate(memory, client[k].name) \/ memory' = memory
        BY <3>1, Zenon DEF Opens
      <4> QED BY <4>1, <4>2, OpenOrCreateOK DEF KeepsCurrent
    <3>2. Opens(k) \/ UNCHANGED memory
      BY <1>6, Zenon DEF ClientNext, BenchmarkBegins, ScriptBegins, UserAsks, Session, Refused, Closes
    <3> QED BY <3>1, <3>2
  <2> QED BY <2>1, <2>2 DEF FInv, Fresh, LoadsLive, Live, Sound, Current
<1> QED BY <1>1, <1>2, <1>3, <1>4, <1>5, <1>6, CommandLineStep, ThreadFresh DEF Next

(***************************************************************************)
(* With one worker, and names on the command line that differ, no load     *)
(* uses a segment after free has destroyed it, and none runs into an       *)
(* assertion of malloc or realloc: the server can only fail in /unload.    *)
(***************************************************************************)
THEOREM SerialLoadsSound ==
  ASSUME OneWorker, NamesDiffer
  PROVE  Spec => [](NoDangling /\ ReallocFindsPointer)
<1>1. Init => FInv
  BY SerialInit, ServerAssumption DEF Init, FInv, Fresh, LoadsLive, Live, Sound, NewMemory, NoCall
<1>2. FInv /\ [Next]_vars => FInv'
  <2> SUFFICES ASSUME FInv, [Next]_vars PROVE FInv'
    OBVIOUS
  <2>1. SInv'
    BY SerialStep DEF FInv
  <2>2. CASE UNCHANGED vars
    BY <2>1, <2>2 DEF vars, FInv, Fresh, LoadsLive, Live, Sound, Current
  <2>3. CASE Next
    BY <2>1, <2>3, FreshStep DEF FInv
  <2> QED BY <2>2, <2>3
<1>3. FInv => NoDangling /\ ReallocFindsPointer
  BY DEF FInv, Sound, NoDangling, ReallocFindsPointer
<1> QED BY <1>1, <1>2, <1>3, PTL DEF Spec
=============================================================================
