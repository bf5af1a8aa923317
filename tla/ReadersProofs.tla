---------------------------- MODULE ReadersProofs -----------------------------
(***************************************************************************)
(* What the readers of a finished block find in it (Finished, which asks   *)
(* for CleanRoot), and what the two ways to convert a CSV column, to the   *)
(* Wisent format and to JSON, have in common.  Theorems for every document *)
(* and every CSV file; the iterators' need the least length of a run to be *)
(* no tag of a number.                                                     *)
(***************************************************************************)
EXTENDS DocumentProofs, Readers, JsonConversion

(***************************************************************************)
(* The Swift reader.                                                       *)
(***************************************************************************)
\* Every expression of a finished block is a slice of runs.
LEMMA FinishedEncoded ==
  ASSUME BlockInv, TreeOK, NEW e \in Finished
  PROVE  e \in Expressions /\ ~w.wild /\ \E run : Encoded(w.types, StartSlot(e), EndSlot(e), run)
<1>1. e \in Expressions /\ stage = "done"
  BY DEF Finished
<1>2. ~w.wild
  BY <1>1 DEF BlockInv, FillOK
<1> QED BY <1>1, <1>2, SlotsEncoded

\* ComplexExpression.arguments on a slice with no run but the first.
LEMMA FirstRunReads ==
  ASSUME NEW s, NEW e, NEW run, Encoded(w.types, s, e, run),
         \A i \in s .. e - 1 : RunOf(w.types, s, e)[i] = i /\ HasRLEBit(w.types[i]) => i = s
  PROVE  SwiftTags(s, e) = ReadTypes(w.types, s, e)
<1> DEFINE H == RunOf(w.types, s, e)
<1>1. s \in Nat /\ e \in Nat /\ s <= e
  BY DEF Encoded
<1>2. ASSUME NEW i \in s .. e - 1
      PROVE  ClearRLEBit(w.types[IF i < FirstRunEnd(s) THEN s ELSE i]) = ClearRLEBit(w.types[H[i]])
  <2>1. /\ H[i] \in s .. i /\ RunLength(w.types, H[i]) \in Nat /\ i < H[i] + RunLength(w.types, H[i])
        /\ H[H[i]] = H[i]
    BY <1>1, Covered, RunOfHeader
  <2>2. CASE i < FirstRunEnd(s)
    <3>1. s \in s .. e - 1 /\ HasRLEBit(w.types[s]) /\ FirstRunEnd(s) = s + RunLength(w.types, s)
      BY <1>1, <2>2 DEF FirstRunEnd, RunLength
    <3>2. H[s] = s
      BY <1>1, <3>1, RunOfAt DEF HeaderAt
    <3>3. RunLength(w.types, s) \in Nat
      BY <3>1, <3>2, Covered
    <3>4. i \in s .. (s + RunLength(w.types, s)) - 1 /\ i < e
      BY <1>1, <2>2, <3>1, <3>3
    <3>5. RunOf(w.types, s, e)[s] = s
      BY <3>2
    <3>6. \A j \in s .. (s + RunLength(w.types, s)) - 1 : j < e => RunOf(w.types, s, e)[j] = s
      <4> HIDE DEF H
      <4> QED BY <1>1, <3>1, <3>3, <3>5, RunCovers, ZenonT(40)
    <3>7. H[i] = s
      BY <3>4, <3>6
    <3> QED BY <2>2, <3>7
  <2>3. CASE ~(i < FirstRunEnd(s)) /\ HasRLEBit(w.types[H[i]])
    <3> DEFINE h == H[i]
    <3>1. h \in s .. e - 1 /\ RunOf(w.types, s, e)[h] = h /\ HasRLEBit(w.types[h])
      BY <1>1, <2>1, <2>3
    <3>2. h = s
      <4> HIDE DEF h
      <4> QED BY <3>1
    <3>3. FirstRunEnd(s) = s + RunLength(w.types, s)
      BY <2>3, <3>2 DEF FirstRunEnd, RunLength
    <3> QED BY <2>1, <2>3, <3>2, <3>3
  <2>4. CASE ~(i < FirstRunEnd(s)) /\ ~HasRLEBit(w.types[H[i]])
    <3>1. RunLength(w.types, H[i]) = 1
      BY <2>4 DEF RunLength
    <3>2. H[i] = i
      <4> HIDE DEF H
      <4> QED BY <1>1, <2>1, <3>1
    <3> QED BY <2>4, <3>2
  <2> QED BY <2>2, <2>3, <2>4
<1> QED BY <1>2 DEF SwiftTags, ReadTypes

\* Finished expressions are those of memory with CleanRoot.
LEMMA FinishedClean == Finished # {} => CleanRoot
BY DEF Finished

(***************************************************************************)
(* Where an expression of a finished block has no run but at its first     *)
(* argument, Source.swift, which looks for one nowhere else, reads the     *)
(* types of the arguments as the other readers do.                         *)
(***************************************************************************)
THEOREM SwiftReads == Spec => []SwiftReadsFirstRun
<1>1. (CleanRoot => BlockInv /\ TreeOK) => SwiftReadsFirstRun
  <2> SUFFICES ASSUME BlockInv, TreeOK, NEW e \in Finished, RunStarts(e) \subseteq {StartSlot(e)}
               PROVE  SwiftTags(StartSlot(e), EndSlot(e)) = ReadTypes(w.types, StartSlot(e), EndSlot(e))
    BY FinishedClean DEF SwiftReadsFirstRun
  <2>1. PICK run : Encoded(w.types, StartSlot(e), EndSlot(e), run)
    BY FinishedEncoded
  <2>2. \A i \in StartSlot(e) .. EndSlot(e) - 1 :
           RunOf(w.types, StartSlot(e), EndSlot(e))[i] = i /\ HasRLEBit(w.types[i]) => i = StartSlot(e)
    BY DEF RunStarts, Slots
  <2> QED BY <2>1, <2>2, FirstRunReads
<1> QED BY <1>1, TreeAlways, PTL

(***************************************************************************)
(* The iterator of the C++ reader: validIndexEnd, without the recursion.   *)
(***************************************************************************)
EndAt(T, s, V, i) ==
  LET before == IF i = s THEN s ELSE V[i - 1]
  IN IF i < before \/ ClearRLEBit(w.types[i]) # T THEN before ELSE i + RunLength(w.types, i)

IsEnds(T, s, e, V) == V = [i \in s .. e - 1 |-> EndAt(T, s, V, i)]

\* The equation of validIndexEnd has a solution.
LEMMA EndsExist ==
  ASSUME NEW T, NEW s \in Nat, NEW n \in Nat
  PROVE  \E V : IsEnds(T, s, s + n, V)
<1> DEFINE bad == {m \in Nat : ~\E V : IsEnds(T, s, s + m, V)}
<1>1. SUFFICES ASSUME bad # {} PROVE FALSE
  OBVIOUS
<1>2. PICK m \in bad : \A y \in bad : m <= y
  <2>1. bad \in SUBSET Nat
    OBVIOUS
  <2> HIDE DEF bad
  <2> QED BY <1>1, <2>1, LeastSlot
<1>3. CASE m = 0
  <2> DEFINE V == [i \in {} |-> 0]
  <2>1. s .. (s + m) - 1 = {}
    BY <1>3, Slice
  <2>2. V = [i \in {} |-> EndAt(T, s, V, i)]
    <3> HIDE DEF EndAt
    <3> QED OBVIOUS
  <2>3. IsEnds(T, s, s + m, V)
    BY <2>1, <2>2 DEF IsEnds
  <2> QED BY <1>2, <2>3
<1>4. CASE m # 0
  <2> DEFINE k == m - 1
  <2>1. k \in Nat /\ m = k + 1 /\ ~(m <= k)
    BY <1>4
  <2>2. PICK V : IsEnds(T, s, s + k, V)
    BY <1>2, <2>1
  <2> HIDE DEF k, bad
  <2> DEFINE D == s .. (s + k) - 1
             G == [i \in D \cup {s + k} |-> IF i = s + k THEN EndAt(T, s, V, i) ELSE V[i]]
  <2>3. /\ s .. (s + m) - 1 = D \cup {s + k} /\ s + k \notin D
        /\ \A i \in D : i # s => i - 1 \in D
        /\ s + k # s => (s + k) - 1 \in D
    BY <2>1, Slice
  <2>4. V = [i \in D |-> EndAt(T, s, V, i)]
    BY <2>2 DEF IsEnds
  <2>5. \A i \in D : G[i] = V[i]
    BY <2>3
  <2>6. \A i \in D \cup {s + k} : i # s => G[i - 1] = V[i - 1]
    BY <2>3, <2>5
  <2> HIDE DEF D
  <2>7. \A i \in D \cup {s + k} : EndAt(T, s, G, i) = EndAt(T, s, V, i)
    <3> HIDE DEF G
    <3> QED BY <2>6 DEF EndAt
  <2>8. \A i \in D \cup {s + k} : G[i] = EndAt(T, s, V, i)
    <3>1. \A i \in D : V[i] = EndAt(T, s, V, i)
      BY <2>4
    <3> QED BY <2>5, <3>1
  <2>9. G = [i \in D \cup {s + k} |-> G[i]]
    OBVIOUS
  <2> HIDE DEF G
  <2>10. G = [i \in D \cup {s + k} |-> EndAt(T, s, G, i)]
    BY <2>7, <2>8, <2>9
  <2>11. IsEnds(T, s, s + m, G)
    BY <2>3, <2>10 DEF IsEnds
  <2> QED BY <1>2, <2>11 DEF bad
<1> QED BY <1>3, <1>4

\* validIndexEnd satisfies it.
LEMMA ValidEnds ==
  ASSUME NEW T, NEW s \in Nat, NEW e \in Nat, s <= e
  PROVE  \A i \in s .. e - 1 : ValidIndexEnd(T, s, e)[i] = EndAt(T, s, ValidIndexEnd(T, s, e), i)
<1> DEFINE n == e - s
<1>1. n \in Nat /\ s + n = e
  OBVIOUS
<1> HIDE DEF n
<1>2. \E V : IsEnds(T, s, e, V)
  BY <1>1, EndsExist
<1>3. ValidIndexEnd(T, s, e) = CHOOSE V : IsEnds(T, s, e, V)
  BY DEF ValidIndexEnd, IsEnds, EndAt
<1>4. IsEnds(T, s, e, ValidIndexEnd(T, s, e))
  BY <1>2, <1>3
<1> DEFINE V == ValidIndexEnd(T, s, e)
<1>5. V = [i \in s .. e - 1 |-> EndAt(T, s, V, i)]
  BY <1>4 DEF IsEnds
<1> HIDE DEF V
<1> QED BY <1>5 DEF V
\* An iterator that is not on an argument of its type does not believe to be.
LEMMA IteratorOnRuns ==
  ASSUME RLE_MINIMUM_SIZE > ARGUMENT_TYPE_DOUBLE, NEW s, NEW e, NEW run, Encoded(w.types, s, e, run),
         NEW T \in {ARGUMENT_TYPE_LONG, ARGUMENT_TYPE_DOUBLE},
         \A i \in s .. e - 1 : RunOf(w.types, s, e)[i] = i /\ HasRLEBit(w.types[i]) => w.types[i + 1] # SetRLEBit(T)
  PROVE  \A i \in s .. e - 1 :
           LET V == ValidIndexEnd(T, s, e)
               h == RunOf(w.types, s, e)[i]
           IN IF ClearRLEBit(w.types[h]) = T THEN V[i] = h + RunLength(w.types, h) ELSE V[i] \in s .. i
<1> DEFINE H == RunOf(w.types, s, e)
           V == ValidIndexEnd(T, s, e)
           OfType(i) == ClearRLEBit(w.types[H[i]]) = T
           EndsAt(i) == H[i] + RunLength(w.types, H[i])
           Right(i) == IF OfType(i) THEN V[i] = EndsAt(i) ELSE V[i] \in s .. i
           bad == {i \in s .. e - 1 : ~Right(i)}
<1>1. s \in Nat /\ e \in Nat /\ s <= e
  BY DEF Encoded
<1>2. \A i \in s .. e - 1 : V[i] = EndAt(T, s, V, i)
  BY <1>1, ValidEnds
<1>3. ASSUME NEW i \in s .. e - 1
      PROVE  /\ H[i] \in s .. i /\ RunLength(w.types, H[i]) \in Nat /\ i < EndsAt(i) /\ EndsAt(i) <= e
             /\ H[H[i]] = H[i] /\ H[i] = HeaderAt(w.types, s, H, i)
  BY <1>1, Covered, RunOfHeader, RunOfAt
<1>4. ASSUME NEW i \in s .. e - 1
      PROVE  \E r : HeaderOK(w.types, e, r, H[i]) /\ r \in Nat
  BY <1>1 DEF Encoded
<1>5. ASSUME NEW i \in s .. e - 1, H[i] # i, ~OfType(i) PROVE ClearRLEBit(w.types[i]) # T
  <2> DEFINE h == H[i]
  <2>1. /\ h \in s .. i /\ RunLength(w.types, h) \in Nat /\ i < h + RunLength(w.types, h) /\ H[h] = h
        /\ h # i /\ ClearRLEBit(w.types[h]) # T /\ h \in s .. e - 1
    BY <1>1, <1>3, <1>5
  <2>2. PICK r : HeaderOK(w.types, e, r, h) /\ r \in Nat
    BY <1>4
  <2>3. w.types[h + 1] # SetRLEBit(T) \/ ~HasRLEBit(w.types[h])
    <3> HIDE DEF h
    <3> QED BY <2>1
  <2> HIDE DEF h, H
  <2>4. HasRLEBit(w.types[h]) /\ RunLength(w.types, h) = w.types[h + 1]
    <3>1. ~HasRLEBit(w.types[h]) => RunLength(w.types, h) = 1
      BY DEF RunLength
    <3>2. HasRLEBit(w.types[h])
      BY <1>1, <2>1, <3>1
    <3> QED BY <3>2 DEF RunLength
  <2>5. w.types[h + 1] \in RLE_MINIMUM_SIZE .. (e - r) - h /\ BodyOK(w.types, h) /\ ClearRLEBit(w.types[h]) \in Plain
    BY <2>2, <2>4 DEF HeaderOK
  <2>6. CASE i = h + 1
    <3>1. w.types[i] \in Nat /\ w.types[i] > ARGUMENT_TYPE_DOUBLE /\ w.types[i] # SetRLEBit(T)
      BY <1>1, <2>1, <2>2, <2>3, <2>4, <2>5, <2>6, RunLengthAssumption DEF ARGUMENT_TYPE_DOUBLE
    <3>2. \A x \in Nat : x > 2 /\ x # SetRLEBit(T) => ClearRLEBit(x) # T
      BY DEF SetRLEBit, ClearRLEBit, HasRLEBit, ARGUMENT_TYPE_LONG, ARGUMENT_TYPE_DOUBLE, RLE_BIT
    <3> QED BY <3>1, <3>2 DEF ARGUMENT_TYPE_DOUBLE
  <2>7. CASE i # h + 1
    <3>1. i \in h + 2 .. (h + w.types[h + 1]) - 1
      BY <1>1, <2>1, <2>2, <2>4, <2>5, <2>7, RunLengthAssumption
    <3>2. w.types[i] = ClearRLEBit(w.types[h])
      BY <2>4, <2>5, <3>1 DEF BodyOK
    <3>3. ClearRLEBit(w.types[i]) = w.types[i]
      BY <2>5, <3>2, Bits
    <3> QED BY <2>1, <3>2, <3>3
  <2> QED BY <2>6, <2>7
<1> HIDE DEF H, V
<1>6. ASSUME bad # {} PROVE FALSE
  <2>1. bad \in SUBSET Nat
    BY <1>1
  <2> HIDE DEF bad
  <2>2. PICK i \in bad : \A y \in bad : i <= y
    BY <1>6, <2>1, LeastSlot
  <2>3. i \in s .. e - 1 /\ ~Right(i) /\ \A y \in s .. e - 1 : ~Right(y) => i <= y
    BY <2>2 DEF bad
  <2> DEFINE before == IF i = s THEN s ELSE V[i - 1]
  <2>4. V[i] = IF i < before \/ ClearRLEBit(w.types[i]) # T THEN before ELSE i + RunLength(w.types, i)
    BY <1>2, <2>3 DEF EndAt
  <2>5. i # s => i - 1 \in s .. e - 1 /\ Right(i - 1)
    <3> HIDE DEF Right
    <3>1. i # s => i - 1 \in s .. e - 1 /\ ~(i <= i - 1)
      BY <1>1, <2>3
    <3> QED BY <2>3, <3>1
  <2>6. CASE H[i] = i
    <3>1. before \in s .. i
      <4>1. CASE i = s
        BY <1>1, <4>1
      <4>2. CASE i # s
        <5>1. HeaderAt(w.types, s, H, i) = IF i < EndsAt(i - 1) THEN H[i - 1] ELSE i
          BY <4>2 DEF HeaderAt
        <5>2. H[i - 1] \in s .. i - 1 /\ EndsAt(i - 1) \in Nat /\ i - 1 < EndsAt(i - 1)
          BY <1>1, <1>3, <2>5, <4>2
        <5>3. ~(i < EndsAt(i - 1))
          BY <1>1, <1>3, <2>3, <2>6, <5>1, <5>2
        <5>4. before = V[i - 1] /\ (V[i - 1] = EndsAt(i - 1) \/ V[i - 1] \in s .. i - 1)
          BY <2>5, <4>2
        <5> HIDE DEF EndsAt, before
        <5> QED BY <1>1, <2>3, <5>2, <5>3, <5>4
      <4> QED BY <4>1, <4>2
    <3> HIDE DEF before
    <3>2. ~(i < before)
      BY <1>1, <2>3, <3>1
    <3> QED BY <2>3, <2>4, <2>6, <3>1, <3>2
  <2>7. CASE H[i] # i
    <3>1. i # s /\ H[i - 1] = H[i]
      BY <1>3, <2>3, <2>7 DEF HeaderAt
    <3>2. Right(i - 1) /\ before = V[i - 1]
      BY <2>5, <3>1
    <3>3. CASE OfType(i)
      <4>1. before = EndsAt(i)
        BY <3>1, <3>2, <3>3
      <4>2. i < before
        BY <1>3, <2>3, <4>1
      <4> QED BY <2>3, <2>4, <3>3, <4>1, <4>2
    <3>4. CASE ~OfType(i)
      <4>1. before \in s .. i - 1
        BY <3>1, <3>2, <3>4
      <4>2. V[i] = before
        <5> HIDE DEF before
        <5> QED BY <1>5, <2>3, <2>4, <2>7, <3>4
      <4>3. V[i] \in s .. i
        BY <1>1, <2>3, <4>1, <4>2
      <4> QED BY <2>3, <3>4, <4>3
    <3> QED BY <3>3, <3>4
  <2> QED BY <2>6, <2>7
<1> QED BY <1>6 DEF H, V

\* The iterator is valid on the slots of its type, unless it takes the length of
\* a run for a tag.
LEMMA SlotsTyped ==
  ASSUME RLE_MINIMUM_SIZE > ARGUMENT_TYPE_DOUBLE, BlockInv, TreeOK,
         NEW e \in Finished, NEW T \in {ARGUMENT_TYPE_LONG, ARGUMENT_TYPE_DOUBLE}, Unmistaken(e, T)
  PROVE  ValidSlots(T, StartSlot(e), EndSlot(e)) = Typed(e, T)
<1> DEFINE s == StartSlot(e)
           f == EndSlot(e)
           V == ValidIndexEnd(T, s, f)
           H == RunOf(w.types, s, f)
<1>1. PICK run : Encoded(w.types, s, f, run)
  BY FinishedEncoded
<1>2. \A i \in s .. f - 1 : H[i] = i /\ HasRLEBit(w.types[i]) => w.types[i + 1] # SetRLEBit(T)
  BY DEF Unmistaken, RunStarts, Slots
<1>3. Slots(e) = s .. f - 1
  BY DEF Slots
<1>4. ASSUME NEW i \in s .. f - 1 PROVE i < V[i] <=> ReadTypes(w.types, s, f)[i] = T
  <2> HIDE DEF s, f
  <2>1. ReadTypes(w.types, s, f)[i] = ClearRLEBit(w.types[H[i]])
    BY DEF ReadTypes
  <2>2. IF ClearRLEBit(w.types[H[i]]) = T THEN V[i] = H[i] + RunLength(w.types, H[i]) ELSE V[i] \in s .. i
    BY <1>1, <1>2, IteratorOnRuns
  <2>3. i < H[i] + RunLength(w.types, H[i]) /\ s \in Nat
    BY <1>1, Covered DEF Encoded
  <2> HIDE DEF V, H
  <2> QED BY <2>1, <2>2, <2>3
<1>5. Typed(e, T) = {i \in s .. f - 1 : ReadTypes(w.types, s, f)[i] = T}
  BY <1>3 DEF Typed
<1>6. ValidSlots(T, s, f) = {i \in s .. f - 1 : i < V[i]}
  BY DEF ValidSlots
<1> HIDE DEF s, f, V
<1> QED BY <1>4, <1>5, <1>6 DEF s, f

(***************************************************************************)
(* ArgumentIteratorImpl of a numeric type stops at the arguments of an     *)
(* expression of a finished block that have this type, and at no others,   *)
(* unless the length of one of its runs equals the tag (Unmistaken).       *)
(***************************************************************************)
THEOREM IteratorFinds ==
  ASSUME RLE_MINIMUM_SIZE > ARGUMENT_TYPE_DOUBLE
  PROVE  Spec => []IteratorFindsType
<1>1. (CleanRoot => BlockInv /\ TreeOK) => IteratorFindsType
  BY SlotsTyped, FinishedClean DEF IteratorFindsType
<1> QED BY <1>1, TreeAlways, PTL

(***************************************************************************)
(* The columns of the tree.                                                *)
(***************************************************************************)
CellType(column, k) ==
  LET T == TypeOfCsvColumn(column)
  IN IF T = "string" THEN "String"
     ELSE IF column[k] = "empty" THEN "Symbol"
     ELSE IF T = "int64_t" THEN "Long" ELSE "Double"

IsColumn(node) == node.head.text = "column"
ColumnOf(f, node) == f[node.head.at[1]].table[node.head.at[2]]

\* The kids of a column are the first cells of the file's column.
ColumnNode(f, node) ==
  /\ node.head.at[1] \in DOMAIN f /\ node.head.at[2] \in DOMAIN f[node.head.at[1]].table
  /\ TypeOfCsvColumn(ColumnOf(f, node)) # "exception"
  /\ Len(node.kids) <= Len(ColumnOf(f, node))
  /\ \A k \in 1 .. Len(node.kids) : node.kids[k].type = CellType(ColumnOf(f, node), k)

\* Only the column that is being read lacks cells, and has a place on the path.
Columned(f, N, P, p, col, row) ==
  /\ \A n \in DOMAIN N : IsColumn(N[n]) =>
       /\ ColumnNode(f, N[n])
       /\ Len(N[n].kids) = Len(ColumnOf(f, N[n])) \/ (row > 0 /\ n = Last(P))
  /\ \A k \in DOMAIN P : IsColumn(N[P[k]]) => row > 0 /\ k = Len(P)
  /\ row > 0 => /\ N[Last(P)].head = [text |-> "column", at |-> <<p, col, 0>>]
                /\ Len(N[Last(P)].kids) = row - 1

Shaped(N, P) ==
  /\ Sequence(N, Len(N)) /\ Sequence(P, Len(P)) /\ Len(P) > 0
  /\ \A k \in DOMAIN P : P[k] \in DOMAIN N
  /\ \A n \in DOMAIN N : /\ N[n] = [head |-> N[n].head, kids |-> N[n].kids]
                         /\ Sequence(N[n].kids, Len(N[n].kids))

\* Between the tables a step changes no column.
LEMMA OthersKeep ==
  ASSUME NEW f, NEW N, NEW P, NEW p, NEW col, Shaped(N, P), Columned(f, N, P, p, col, 0),
         NEW N2, NEW P2, NEW p2, NEW col2, DOMAIN N \subseteq DOMAIN N2,
         \A n \in DOMAIN N : n # Last(P) => N2[n] = N[n], N2[Last(P)].head = N[Last(P)].head,
         \A n \in DOMAIN N2 \ DOMAIN N : ~IsColumn(N2[n]),
         \A k \in DOMAIN P2 : (\E j \in DOMAIN P : P2[k] = P[j]) \/ P2[k] \in DOMAIN N2 \ DOMAIN N
  PROVE  Columned(f, N2, P2, p2, col2, 0)
<1>1. Last(P) = P[Len(P)] /\ Len(P) \in DOMAIN P
  <2>1. Last(P) = P[Len(P)]
    BY SequenceLast DEF Shaped
  <2>2. DOMAIN P = 1 .. Len(P) /\ Len(P) \in Nat
    BY DEF Shaped, Sequence
  <2> QED BY <2>1, <2>2 DEF Shaped
<1>2. \A k \in DOMAIN P : ~IsColumn(N[P[k]])
  BY DEF Columned
<1>3. ~IsColumn(N2[Last(P)])
  BY <1>1, <1>2 DEF IsColumn
<1>4. ASSUME NEW n \in DOMAIN N2, IsColumn(N2[n])
      PROVE  n \in DOMAIN N /\ N2[n] = N[n]
  BY <1>3, <1>4
<1>5. \A k \in DOMAIN P2 : ~IsColumn(N2[P2[k]])
  <2> SUFFICES ASSUME NEW k \in DOMAIN P2, IsColumn(N2[P2[k]]) PROVE FALSE
    OBVIOUS
  <2>1. PICK j \in DOMAIN P : P2[k] = P[j]
    OBVIOUS
  <2>2. P[j] \in DOMAIN N2
    BY DEF Shaped
  <2>3. N2[P[j]] = N[P[j]]
    BY <1>4, <2>1, <2>2
  <2> QED BY <1>2, <2>1, <2>3
<1>6. \A n \in DOMAIN N : IsColumn(N[n]) => ColumnNode(f, N[n]) /\ Len(N[n].kids) = Len(ColumnOf(f, N[n]))
  BY DEF Columned
<1> QED BY <1>4, <1>5, <1>6 DEF Columned

\* The start of a column puts it on the path, without a cell.
LEMMA ColumnOpens ==
  ASSUME NEW f, NEW N, NEW P, NEW p \in DOMAIN f, NEW col \in DOMAIN f[p].table, Shaped(N, P), Columned(f, N, P, p, col, 0),
         TypeOfCsvColumn(f[p].table[col]) # "exception", Len(f[p].table[col]) \in Nat,
         NEW N2, NEW P2, NEW m, m \notin DOMAIN N, DOMAIN N2 = DOMAIN N \cup {m},
         \A n \in DOMAIN N : n # Last(P) => N2[n] = N[n], N2[Last(P)].head = N[Last(P)].head,
         N2[m] = [head |-> [text |-> "column", at |-> <<p, col, 0>>], kids |-> <<>>],
         DOMAIN P2 = DOMAIN P \cup {Len(P) + 1}, \A k \in DOMAIN P : P2[k] = P[k], P2[Len(P) + 1] = m,
         Len(P2) = Len(P) + 1, Last(P2) = m
  PROVE  Columned(f, N2, P2, p, col, 1)
<1>1. Last(P) = P[Len(P)] /\ Len(P) \in DOMAIN P
  <2>1. Last(P) = P[Len(P)]
    BY SequenceLast DEF Shaped
  <2>2. DOMAIN P = 1 .. Len(P) /\ Len(P) \in Nat
    BY DEF Shaped, Sequence
  <2> QED BY <2>1, <2>2 DEF Shaped
<1>2. \A k \in DOMAIN P : ~IsColumn(N[P[k]]) /\ P[k] \in DOMAIN N
  BY DEF Columned, Shaped
<1>3. ~IsColumn(N2[Last(P)])
  BY <1>1, <1>2 DEF IsColumn
<1>4. ASSUME NEW n \in DOMAIN N, IsColumn(N2[n])
      PROVE  N2[n] = N[n]
  BY <1>3, <1>4
<1>5. \A k \in DOMAIN P : ~IsColumn(N2[P2[k]])
  <2> SUFFICES ASSUME NEW k \in DOMAIN P, IsColumn(N2[P2[k]]) PROVE FALSE
    OBVIOUS
  <2>1. P2[k] = P[k] /\ P[k] \in DOMAIN N
    BY <1>2
  <2> QED BY <1>2, <1>4, <2>1
<1>6. \A n \in DOMAIN N : IsColumn(N[n]) => ColumnNode(f, N[n]) /\ Len(N[n].kids) = Len(ColumnOf(f, N[n]))
  BY DEF Columned
<1>7. ColumnNode(f, N2[m])
  <2>1. Len(N2[m].kids) = 0 /\ N2[m].head.at[1] = p /\ N2[m].head.at[2] = col
    OBVIOUS
  <2>2. ColumnOf(f, N2[m]) = f[p].table[col] /\ 1 .. 0 = {}
    BY <2>1 DEF ColumnOf
  <2> QED BY <2>1, <2>2 DEF ColumnNode
<1>8. N2[Last(P2)].head = [text |-> "column", at |-> <<p, col, 0>>] /\ Len(N2[Last(P2)].kids) = 1 - 1
  OBVIOUS
<1>9. \A n \in DOMAIN N2 : IsColumn(N2[n]) =>
        /\ ColumnNode(f, N2[n])
        /\ Len(N2[n].kids) = Len(ColumnOf(f, N2[n])) \/ (1 > 0 /\ n = Last(P2))
  BY <1>4, <1>6, <1>7
<1>10. \A k \in DOMAIN P2 : IsColumn(N2[P2[k]]) => 1 > 0 /\ k = Len(P2)
  BY <1>5
<1> QED BY <1>8, <1>9, <1>10 DEF Columned

\* A cell that is stored is one more of the column that is read.
LEMMA CellKeeps ==
  ASSUME NEW f, NEW N, NEW P, NEW p, NEW col, NEW row \in Nat, row > 0, Shaped(N, P), Columned(f, N, P, p, col, row),
         row <= Len(f[p].table[col]), Len(f[p].table[col]) \in Nat,
         NEW kid, kid.type = CellType(f[p].table[col], row), NEW N2,
         N2 = [N EXCEPT ![Last(P)].kids = Append(@, kid)]
  PROVE  Columned(f, N2, P, p, col, row + 1)
<1> DEFINE l == Last(P)
           node == N[l]
           column == f[p].table[col]
<1>1. l = P[Len(P)] /\ Len(P) \in DOMAIN P /\ l \in DOMAIN N
  <2>1. Last(P) = P[Len(P)]
    BY SequenceLast DEF Shaped
  <2>2. DOMAIN P = 1 .. Len(P) /\ Len(P) \in Nat
    BY DEF Shaped, Sequence
  <2> QED BY <2>1, <2>2 DEF Shaped
<1>2. node.head = [text |-> "column", at |-> <<p, col, 0>>] /\ Len(node.kids) = row - 1
  BY DEF Columned
<1>3. IsColumn(node) /\ ColumnOf(f, node) = column
  BY <1>2 DEF IsColumn, ColumnOf
<1>4. ColumnNode(f, node)
  BY <1>1, <1>3 DEF Columned
<1>5. node = [head |-> node.head, kids |-> node.kids] /\ Sequence(node.kids, row - 1)
  BY <1>1, <1>2 DEF Shaped
<1>6. DOMAIN N2 = DOMAIN N /\ (\A n \in DOMAIN N : n # l => N2[n] = N[n])
      /\ N2[l] = [head |-> node.head, kids |-> Append(node.kids, kid)]
  <2>1. N2[l] = [N[l] EXCEPT !.kids = Append(@, kid)]
    BY <1>1
  <2>2. [N[l] EXCEPT !.kids = Append(@, kid)] = [head |-> N[l].head, kids |-> Append(N[l].kids, kid)]
    <3> DEFINE x == N[l]
    <3>1. x = [head |-> x.head, kids |-> x.kids]
      BY <1>5
    <3> DEFINE h == x.head
               s == x.kids
               a == Append(s, kid)
    <3>2. x = [head |-> h, kids |-> s]
      BY <3>1
    <3> HIDE DEF x, h, s, a
    <3>3. [x EXCEPT !.kids = a] = [head |-> h, kids |-> a]
      BY <3>2
    <3> QED BY <3>3 DEF x, h, s, a
  <2>3. DOMAIN N2 = DOMAIN N /\ \A n \in DOMAIN N : n # l => N2[n] = N[n]
    <3> HIDE DEF l
    <3> QED BY DEF l
  <2> QED BY <2>1, <2>2, <2>3
<1> DEFINE K == Append(node.kids, kid)
<1>7. Len(K) = row /\ K[row] = kid /\ \A k \in 1 .. row - 1 : K[k] = node.kids[k]
  <2> DEFINE s == node.kids
             S == {s[k] : k \in 1 .. row - 1} \cup {kid}
  <2>1. s \in Seq({s[k] : k \in 1 .. row - 1}) /\ Len(s) = row - 1
    <3> HIDE DEF s
    <3> QED BY <1>5, SequenceLast DEF s
  <2>2. s \in Seq(S) /\ kid \in S
    <3> DEFINE Q == {s[k] : k \in 1 .. row - 1}
    <3> HIDE DEF s, Q
    <3> QED BY <2>1 DEF Q
  <2> HIDE DEF s, S
  <2> QED BY <2>1, <2>2 DEF s
<1>8. ColumnNode(f, N2[l])
  <2>1. N2[l].head = node.head /\ N2[l].kids = K
    BY <1>6
  <2>2. ColumnOf(f, N2[l]) = column
    BY <1>3, <2>1 DEF ColumnOf
  <2>3. \A k \in 1 .. row - 1 : node.kids[k].type = CellType(column, k)
    BY <1>2, <1>3, <1>4 DEF ColumnNode
  <2> HIDE DEF K, column, l, node
  <2>4. \A k \in 1 .. row : K[k].type = CellType(column, k)
    <3> TAKE k \in 1 .. row
    <3>1. k \in 1 .. row - 1 \/ k = row
      OBVIOUS
    <3> QED BY <1>7, <2>3, <3>1 DEF column
  <2> QED BY <1>3, <1>4, <1>7, <2>1, <2>2, <2>4 DEF ColumnNode, column
<1>9. \A n \in DOMAIN N2 : IsColumn(N2[n]) =>
        /\ ColumnNode(f, N2[n])
        /\ Len(N2[n].kids) = Len(ColumnOf(f, N2[n])) \/ (row + 1 > 0 /\ n = Last(P))
  <2> SUFFICES ASSUME NEW n \in DOMAIN N2, IsColumn(N2[n])
               PROVE  ColumnNode(f, N2[n]) /\ (Len(N2[n].kids) = Len(ColumnOf(f, N2[n])) \/ n = Last(P))
    OBVIOUS
  <2>1. CASE n = l
    BY <1>8, <2>1
  <2>2. CASE n # l
    <3>1. N2[n] = N[n] /\ n \in DOMAIN N
      BY <1>6, <2>2
    <3>2. ColumnNode(f, N[n]) /\ Len(N[n].kids) = Len(ColumnOf(f, N[n]))
      BY <2>2, <3>1 DEF Columned
    <3> QED BY <3>1, <3>2
  <2> QED BY <2>1, <2>2
<1>10. \A k \in DOMAIN P : IsColumn(N2[P[k]]) => row + 1 > 0 /\ k = Len(P)
  <2>1. \A n \in DOMAIN N : IsColumn(N2[n]) => IsColumn(N[n])
    BY <1>6 DEF IsColumn
  <2> QED BY <2>1 DEF Columned, Shaped
<1>11. N2[l].head = [text |-> "column", at |-> <<p, col, 0>>] /\ Len(N2[l].kids) = (row + 1) - 1
  BY <1>2, <1>6, <1>7
<1> QED BY <1>9, <1>10, <1>11 DEF Columned

\* The end of a column leaves the path; it has all of its cells.
LEMMA ColumnShuts ==
  ASSUME NEW f, NEW N, NEW P, NEW p, NEW col, NEW row \in Nat, row > 0, Shaped(N, P), Columned(f, N, P, p, col, row),
         row = Len(f[p].table[col]) + 1, Len(f[p].table[col]) \in Nat, NEW p2, NEW col2
  PROVE  Columned(f, N, Front(P), p2, col2, 0)
<1>1. Last(P) = P[Len(P)] /\ Len(P) \in Nat /\ Len(P) > 0 /\ P \in Seq({P[k] : k \in 1 .. Len(P)})
  <2>1. Sequence(P, Len(P)) /\ Len(P) > 0
    BY DEF Shaped
  <2> QED BY <2>1, SequenceLast DEF Sequence
<1>2. N[Last(P)].head = [text |-> "column", at |-> <<p, col, 0>>] /\ Len(N[Last(P)].kids) = row - 1
  BY DEF Columned
<1>3. ColumnOf(f, N[Last(P)]) = f[p].table[col]
  BY <1>2 DEF ColumnOf
<1>4. Len(N[Last(P)].kids) = Len(ColumnOf(f, N[Last(P)]))
  BY <1>2, <1>3
<1>5. \A n \in DOMAIN N : IsColumn(N[n]) => ColumnNode(f, N[n]) /\ Len(N[n].kids) = Len(ColumnOf(f, N[n]))
  BY <1>4 DEF Columned
<1>6. \A k \in DOMAIN Front(P) : k \in DOMAIN P /\ k # Len(P) /\ Front(P)[k] = P[k]
  BY <1>1 DEF Front
<1>7. \A k \in DOMAIN Front(P) : ~IsColumn(N[Front(P)[k]])
  BY <1>6 DEF Columned
<1> QED BY <1>5, <1>7 DEF Columned

\* The tree that is read of a writer has the shape of one.
LEMMA ShapeOf ==
  ASSUME NEW v, WriterOK(v), StackUp(v), EncodedIn(v)
  PROVE  Shaped(NodesOf(v), PathOf(v))
<1>1. /\ Sequence(NodesOf(v), v.nextExpr + 1) /\ Sequence(PathOf(v), v.layer + 1)
      /\ \A e \in Ids(v) : e + 2 \in 1 .. v.nextExpr + 1 /\ NodesOf(v)[e + 2] = NodeOf(v, e)
  BY NodePlaces
<1>2. v.nextExpr \in Nat /\ v.layer \in Nat
  BY DEF WriterOK, Writer
<1>3. /\ Len(NodesOf(v)) = v.nextExpr + 1 /\ DOMAIN NodesOf(v) = 1 .. v.nextExpr + 1
      /\ Len(PathOf(v)) = v.layer + 1 /\ DOMAIN PathOf(v) = 1 .. v.layer + 1
  BY <1>1, <1>2 DEF Sequence, NodesOf, PathOf
<1>4. ASSUME NEW k \in DOMAIN PathOf(v) PROVE PathOf(v)[k] \in DOMAIN NodesOf(v)
  <2>1. CASE k = 1
    BY <1>2, <1>3, <2>1 DEF PathOf
  <2>2. CASE k # 1
    <3>1. k \in 2 .. v.layer + 1
      BY <1>2, <1>3, <2>2
    <3>2. v.exprStack[k] \in Nat /\ v.exprStack[k] < v.nextExpr
      <4>1. v.exprStack[k] < v.nextExpr
        BY <3>1 DEF StackUp
      <4>2. v.exprStack \in Seq(Nat) /\ Len(v.exprStack) = v.layer + 1
        BY ArgIterOK
      <4> QED BY <1>2, <3>1, <4>1, <4>2
    <3>3. PathOf(v)[k] = v.exprStack[k] + 2
      BY <1>3, <2>2 DEF PathOf
    <3> QED BY <1>2, <1>3, <3>2, <3>3
  <2> QED BY <2>1, <2>2
<1>5. ASSUME NEW n \in DOMAIN NodesOf(v)
      PROVE  LET node == NodesOf(v)[n] IN
             node = [head |-> node.head, kids |-> node.kids] /\ Sequence(node.kids, Len(node.kids))
  <2> DEFINE e == n - 2
  <2>1. e \in Ids(v) /\ NodesOf(v)[n] = NodeOf(v, e)
    BY <1>2, <1>3 DEF Ids, NodesOf
  <2> HIDE DEF e
  <2>2. NodesOf(v)[n] = [head |-> HeadAt(v, e), kids |-> KidsOf(v, e)]
    BY <2>1 DEF NodeOf
  <2>3. EndOf(v, e) - StartOf(v, e) \in Nat
    BY <2>1 DEF EncodedIn, Encoded
  <2>4. Sequence(KidsOf(v, e), EndOf(v, e) - StartOf(v, e))
    BY <2>3 DEF Sequence, KidsOf
  <2>5. Len(KidsOf(v, e)) = EndOf(v, e) - StartOf(v, e)
    BY <2>4, SequenceLast
  <2> DEFINE h == HeadAt(v, e)
             ks == KidsOf(v, e)
  <2>6. NodesOf(v)[n] = [head |-> h, kids |-> ks] /\ Sequence(ks, Len(ks))
    BY <2>2, <2>4, <2>5
  <2> HIDE DEF h, ks
  <2> QED BY <2>6
<1> QED BY <1>1, <1>2, <1>3, <1>4, <1>5 DEF Shaped

\* So has the tree of the block, as long as nothing is written outside it.
LEMMA TreeShape == ASSUME BlockInv, TreeOK, ~w.wild PROVE Shaped(ReadNodes, Path)
<1>1. WriterOK(w) /\ Legible(w)
  BY DEF BlockInv, IInv, TreeOK, LegibleOK
<1>2. StackUp(w)
  <2>1. CASE Built
    BY <2>1, ApartNow DEF Apart
  <2>2. CASE ~Built
    <3>1. w.layer = 0
      BY <2>2 DEF BlockInv, FillOK, NoBlock
    <3> QED BY <3>1 DEF StackUp
  <2> QED BY <2>1, <2>2
<1> QED BY <1>1, <1>2, ShapeOf, TreeNow DEF Legible

\* The node that a kid is added to, and a node that is opened.
KidAdded(N, P, kid) == [N EXCEPT ![Last(P)].kids = Append(@, kid)]

\* An argument more changes one node, and not its head.
LEMMA AddedKid ==
  ASSUME NEW N, NEW P, Shaped(N, P), NEW kid, NEW M, M = KidAdded(N, P, kid)
  PROVE  /\ Last(P) \in DOMAIN N /\ DOMAIN M = DOMAIN N /\ Sequence(M, Len(N))
         /\ (\A n \in DOMAIN N : n # Last(P) => M[n] = N[n]) /\ M[Last(P)].head = N[Last(P)].head
<1> DEFINE l == Last(P)
<1>1. l \in DOMAIN N
  <2>1. Last(P) = P[Len(P)]
    BY SequenceLast DEF Shaped
  <2>2. DOMAIN P = 1 .. Len(P) /\ Len(P) \in Nat
    BY DEF Shaped, Sequence
  <2> QED BY <2>1, <2>2 DEF Shaped
<1>2. M = [N EXCEPT ![l] = [N[l] EXCEPT !.kids = Append(@, kid)]]
  BY DEF KidAdded
<1>3. Sequence(N, Len(N)) /\ N[l] = [head |-> N[l].head, kids |-> N[l].kids]
  BY <1>1 DEF Shaped
<1> HIDE DEF l
<1>4. DOMAIN M = DOMAIN N /\ \A n \in DOMAIN N : n # l => M[n] = N[n]
  BY <1>2
<1>5. M = [n \in DOMAIN N |-> M[n]]
  BY <1>2
<1>6. Sequence(M, Len(N))
  BY <1>3, <1>4, <1>5 DEF Sequence
<1>7. M[l].head = N[l].head
  <2>1. M[l] = [N[l] EXCEPT !.kids = Append(@, kid)]
    BY <1>1, <1>2
  <2> DEFINE x == N[l]
             h == x.head
             s == x.kids
             a == Append(s, kid)
  <2>2. x = [head |-> h, kids |-> s]
    BY <1>3
  <2> HIDE DEF x, h, s, a
  <2>3. [x EXCEPT !.kids = a].head = h
    BY <2>2
  <2> QED BY <2>1, <2>3 DEF x, h, s, a
<1> QED BY <1>1, <1>4, <1>6, <1>7 DEF l

\* A sequence with an element added, slot by slot.
LEMMA AppendIs ==
  ASSUME NEW s, NEW n, Sequence(s, n), NEW x
  PROVE  LET r == Append(s, x) IN
         /\ DOMAIN r = DOMAIN s \cup {n + 1} /\ n + 1 \notin DOMAIN s /\ DOMAIN s = 1 .. n
         /\ (\A k \in DOMAIN s : r[k] = s[k]) /\ r[n + 1] = x /\ Len(r) = n + 1 /\ Last(r) = x
<1> DEFINE S == {s[k] : k \in 1 .. n} \cup {x}
<1>1. s \in Seq({s[k] : k \in 1 .. n}) /\ Len(s) = n /\ n \in Nat
  BY SequenceLast DEF Sequence
<1>2. s \in Seq(S) /\ x \in S
  <2> DEFINE Q == {s[k] : k \in 1 .. n}
  <2> HIDE DEF Q
  <2> QED BY <1>1 DEF Q
<1> HIDE DEF S
<1> QED BY <1>1, <1>2 DEF Last

(***************************************************************************)
(* What a step of the tree does to its columns.                            *)
(***************************************************************************)
ColumnsOK == ~w.wild => Columned(file, ReadNodes, Path, pos, csv.col, csv.row)

\* A member, or an expression that is not a column, while no column is read.
LEMMA OpenKeeps ==
  ASSUME NEW f, NEW N, NEW P, NEW p, NEW col, Shaped(N, P), Columned(f, N, P, p, col, 0),
         NEW kid, NEW head, head.text # "column", NEW p2, NEW col2,
         NEW M, M = KidAdded(N, P, kid)
  PROVE  Columned(f, Append(M, [head |-> head, kids |-> <<>>]), Append(P, Len(N) + 1), p2, col2, 0)
<1> DEFINE node == [head |-> head, kids |-> <<>>]
           N2 == Append(M, node)
           P2 == Append(P, Len(N) + 1)
<1>1. /\ Last(P) \in DOMAIN N /\ DOMAIN M = DOMAIN N /\ Sequence(M, Len(N))
      /\ (\A n \in DOMAIN N : n # Last(P) => M[n] = N[n]) /\ M[Last(P)].head = N[Last(P)].head
  BY AddedKid
<1>2. /\ DOMAIN N2 = DOMAIN M \cup {Len(N) + 1} /\ Len(N) + 1 \notin DOMAIN M
      /\ (\A k \in DOMAIN M : N2[k] = M[k]) /\ N2[Len(N) + 1] = node
  <2> HIDE DEF node
  <2> QED BY <1>1, AppendIs
<1>3. /\ DOMAIN P2 = DOMAIN P \cup {Len(P) + 1}
      /\ (\A k \in DOMAIN P : P2[k] = P[k]) /\ P2[Len(P) + 1] = Len(N) + 1
  BY AppendIs DEF Shaped
<1>4. ~IsColumn(node)
  BY DEF IsColumn
<1> HIDE DEF node, N2, P2
<1>5. DOMAIN N \subseteq DOMAIN N2 /\ N2[Last(P)].head = N[Last(P)].head
      /\ \A n \in DOMAIN N : n # Last(P) => N2[n] = N[n]
  BY <1>1, <1>2
<1>6. \A n \in DOMAIN N2 \ DOMAIN N : ~IsColumn(N2[n])
  BY <1>1, <1>2, <1>4
<1>7. \A k \in DOMAIN P2 : (\E j \in DOMAIN P : P2[k] = P[j]) \/ P2[k] \in DOMAIN N2 \ DOMAIN N
  BY <1>1, <1>2, <1>3
<1>8. Columned(f, N2, P2, p2, col2, 0)
  BY <1>5, <1>6, <1>7, OthersKeep
<1> QED BY <1>8 DEF N2, P2, node

\* A path that is left, once or with a key.
LEMMA LeftPath ==
  ASSUME NEW P, NEW n \in Nat, Sequence(P, n)
  PROVE  Sequence(Front(P), Len(Front(P))) /\ \A k \in DOMAIN Front(P) : k \in DOMAIN P /\ Front(P)[k] = P[k]
<1>1. P \in Seq({P[k] : k \in 1 .. n}) /\ Len(P) = n
  BY SequenceLast
<1> DEFINE Q == {P[k] : k \in 1 .. n}
<1> HIDE DEF Q
<1>2. P \in Seq(Q) /\ Len(P) = n
  BY <1>1 DEF Q
<1>3. Front(P) \in Seq(Q) /\ Len(Front(P)) \in Nat /\ \A k \in DOMAIN Front(P) : k \in DOMAIN P /\ Front(P)[k] = P[k]
  BY <1>2 DEF Front
<1>4. Front(P) = [k \in 1 .. Len(Front(P)) |-> Front(P)[k]]
  BY <1>3
<1> QED BY <1>3, <1>4 DEF Sequence

\* What closes nodes leaves the path a part of what it was.
LEMMA LeftPaths ==
  ASSUME NEW P, NEW n \in Nat, Sequence(P, n), NEW tree, NEW Q, Q \in {P, Front(P), Outer(P, tree), Outer(Front(P), tree)}
  PROVE  \A k \in DOMAIN Q : \E j \in DOMAIN P : Q[k] = P[j]
<1>1. Q \in {P, Front(P), Front(Front(P))}
  BY DEF Outer
<1>2. /\ Sequence(Front(P), Len(Front(P)))
      /\ \A k \in DOMAIN Front(P) : k \in DOMAIN P /\ Front(P)[k] = P[k]
  BY LeftPath
<1>3. \A k \in DOMAIN Front(Front(P)) : k \in DOMAIN Front(P) /\ Front(Front(P))[k] = Front(P)[k]
  BY <1>2, LeftPath DEF Sequence
<1>4. CASE Q = P
  BY <1>4
<1>5. CASE Q = Front(P)
  BY <1>2, <1>5
<1>6. CASE Q = Front(Front(P))
  BY <1>2, <1>3, <1>6
<1> QED BY <1>1, <1>4, <1>5, <1>6

\* A leaf, or no new member, while no column is read.
LEMMA LeafKeeps ==
  ASSUME NEW f, NEW N, NEW P, NEW p, NEW col, Shaped(N, P), Columned(f, N, P, p, col, 0),
         NEW kid, NEW p2, NEW col2, NEW M, M = KidAdded(N, P, kid) \/ M = N,
         NEW tree, NEW Q, Q \in {P, Front(P), Outer(P, tree), Outer(Front(P), tree)}
  PROVE  Columned(f, M, Q, p2, col2, 0)
<1>1. /\ DOMAIN M = DOMAIN N
      /\ (\A n \in DOMAIN N : n # Last(P) => M[n] = N[n]) /\ M[Last(P)].head = N[Last(P)].head
  <2>1. CASE M = N
    BY <2>1
  <2>2. CASE M = KidAdded(N, P, kid)
    BY <2>2, AddedKid
  <2> QED BY <2>1, <2>2
<1>2. \A k \in DOMAIN Q : \E j \in DOMAIN P : Q[k] = P[j]
  <2>1. Sequence(P, Len(P)) /\ Len(P) \in Nat
    BY DEF Shaped, Sequence
  <2> QED BY <2>1, LeftPaths
<1> QED BY <1>1, <1>2, OthersKeep

\* The start of a column adds an argument to its table and a node to the tree.
LEMMA ColumnKeeps ==
  ASSUME NEW f, NEW N, NEW P, NEW p \in DOMAIN f, NEW col \in DOMAIN f[p].table, Shaped(N, P), Columned(f, N, P, p, col, 0),
         TypeOfCsvColumn(f[p].table[col]) # "exception", Len(f[p].table[col]) \in Nat,
         NEW kid, NEW M, M = KidAdded(N, P, kid)
  PROVE  Columned(f, Append(M, [head |-> [text |-> "column", at |-> <<p, col, 0>>], kids |-> <<>>]),
                  Append(P, Len(N) + 1), p, col, 1)
<1> DEFINE node == [head |-> [text |-> "column", at |-> <<p, col, 0>>], kids |-> <<>>]
           N2 == Append(M, node)
           P2 == Append(P, Len(N) + 1)
<1>1. /\ Last(P) \in DOMAIN N /\ DOMAIN M = DOMAIN N /\ Sequence(M, Len(N))
      /\ (\A n \in DOMAIN N : n # Last(P) => M[n] = N[n]) /\ M[Last(P)].head = N[Last(P)].head
  BY AddedKid
<1>2. /\ DOMAIN N2 = DOMAIN M \cup {Len(N) + 1} /\ Len(N) + 1 \notin DOMAIN M
      /\ (\A k \in DOMAIN M : N2[k] = M[k]) /\ N2[Len(N) + 1] = node
  <2> HIDE DEF node
  <2> QED BY <1>1, AppendIs
<1>3. /\ DOMAIN P2 = DOMAIN P \cup {Len(P) + 1} /\ Len(P2) = Len(P) + 1 /\ Last(P2) = Len(N) + 1
      /\ (\A k \in DOMAIN P : P2[k] = P[k]) /\ P2[Len(P) + 1] = Len(N) + 1
  BY AppendIs DEF Shaped
<1>4. /\ DOMAIN N2 = DOMAIN N \cup {Len(N) + 1} /\ Len(N) + 1 \notin DOMAIN N
      /\ N2[Last(P)].head = N[Last(P)].head
      /\ \A n \in DOMAIN N : n # Last(P) => N2[n] = N[n]
  <2> HIDE DEF node, N2
  <2> QED BY <1>1, <1>2
<1>5. N2[Len(N) + 1] = [head |-> [text |-> "column", at |-> <<p, col, 0>>], kids |-> <<>>]
  BY <1>2
<1> DEFINE m == Len(N) + 1
<1> HIDE DEF N2, P2, node
<1>6. /\ m \notin DOMAIN N /\ DOMAIN N2 = DOMAIN N \cup {m} /\ Last(P2) = m /\ P2[Len(P) + 1] = m
      /\ N2[m] = [head |-> [text |-> "column", at |-> <<p, col, 0>>], kids |-> <<>>]
  BY <1>3, <1>4, <1>5
<1> HIDE DEF m
<1>7. Columned(f, N2, P2, p, col, 1)
  BY <1>3, <1>4, <1>6, ColumnOpens
<1> QED BY <1>7 DEF N2, P2, node

\* The columns that a file and its cells make.
LEMMA TableRead ==
  ASSUME BlockInv, TreeOK, stage = "write", ~w.wild, csv.col > 0
  PROVE  /\ pos \in DOMAIN file /\ csv \in [col : Nat, row : Nat]
         /\ csv.col <= Len(Tree!Table) => /\ csv.col \in DOMAIN file[pos].table
                                          /\ Tree!Table[csv.col] = file[pos].table[csv.col]
                                          /\ file[pos].table[csv.col] = Column
                                          /\ Column \in Seq(Cell) /\ Len(Column) \in Nat
         /\ csv.row > 0 => csv.col <= Len(Tree!Table)
<1> DEFINE N == Len(file[pos].table)
<1>1. InTable
  BY DEF InTable
<1>2. /\ pos \in 1 .. Len(file) /\ stage = "write" /\ file[pos] \in Token /\ N \in Nat
      /\ csv.col \in Nat \ {0} /\ csv.row > 0 => csv.col <= N
  BY <1>1, TablePlaced DEF BlockInv
<1>3. N \in Nat /\ csv.col \in Nat \ {0} /\ file[pos] \in Token /\ pos \in 1 .. Len(file)
  BY <1>1, TablePlaced DEF BlockInv
<1>4. csv.row > 0 => csv.col <= N
  BY <1>1, TablePlaced DEF BlockInv
<1>5. csv \in [col : Nat, row : Nat]
  BY DEF BlockInv, IInv, PlaceOK
<1>6. file \in Seq(Token)
  BY <1>1, TablePlaced DEF BlockInv, HistoryOK
<1>7. Tree!Table = file[pos].table /\ Table = file[pos].table /\ Column = file[pos].table[csv.col]
  BY DEF Tree!Table, Table, Column
<1>8. file[pos].table \in Seq(Seq(Cell))
  BY <1>3, TableOK
<1>9. ASSUME csv.col <= N
      PROVE  csv.col \in DOMAIN file[pos].table /\ Column \in Seq(Cell) /\ Len(Column) \in Nat
  <2>1. csv.col \in 1 .. N
    BY <1>3, <1>9
  <2>2. csv.col \in DOMAIN file[pos].table
    BY <1>8, <2>1
  <2>3. file[pos].table[csv.col] \in Seq(Cell)
    BY <1>8, <2>2
  <2> QED BY <1>7, <2>2, <2>3
<1>10. pos \in DOMAIN file
  BY <1>3, <1>6
<1> QED BY <1>4, <1>5, <1>7, <1>9, <1>10

\* The type of the cell that is read is that of the loader's branch for it.
LEMMA CellRead ==
  ASSUME Column \in Seq(Cell), TypeOfCsvColumn(Column) # "exception", csv.row \in DOMAIN Column
  PROVE  LET T == TypeOfCsvColumn(Column) IN
         /\ Tree!ColumnType = "String" => CellType(Column, csv.row) = "String"
         /\ Tree!ColumnType # "String" => CellType(Column, csv.row) = IF Column[csv.row] = "empty" THEN "Symbol" ELSE Tree!ColumnType
<1> DEFINE T == TypeOfCsvColumn(Column)
<1>1. /\ Tree!ColumnHas({"empty", "int"}) <=> \A r \in DOMAIN Column : Column[r] \in {"empty", "int"}
      /\ Tree!ColumnHas({"empty", "int", "real", "overflow"})
           <=> \A r \in DOMAIN Column : Column[r] \in {"empty", "int", "real", "overflow"}
  BY DEF Tree!ColumnHas, Tree!Table, Column, Table
<1>2. /\ T \in {"int64_t", "double_t", "string"}
      /\ T = "int64_t" => Tree!ColumnType = "Long"
      /\ T = "double_t" => Tree!ColumnType = "Double"
      /\ T = "string" => Tree!ColumnType = "String"
  <2>1. /\ T \in {"int64_t", "double_t", "string", "exception"}
        /\ T = "int64_t" => Tree!ColumnHas({"empty", "int"})
        /\ T = "double_t" => /\ Tree!ColumnHas({"empty", "int", "real", "overflow"})
                             /\ ~Tree!ColumnHas({"empty", "int"})
        /\ T = "string" => /\ ~Tree!ColumnHas({"empty", "int", "real", "overflow"})
                           /\ ~Tree!ColumnHas({"empty", "int"})
    BY <1>1, ColumnTyped
  <2> HIDE DEF T
  <2> QED BY <2>1 DEF Tree!ColumnType, T
<1> HIDE DEF T
<1> QED BY <1>2 DEF CellType, T

\* Every step of the tree, but for the drawing of the document.
LEMMA TreeKeeps ==
  ASSUME BlockInv, TreeOK, ColumnsOK, TreeOK', stage = "write", ~w.wild, file' = file, Tree!Next,
         stage' = "write" \/ csv' = csv
  PROVE  Columned(file, ReadNodes', Path', pos', csv'.col, csv'.row)
<1> DEFINE N == ReadNodes
           P == Path
           N2 == ReadNodes'
           P2 == Path'
<1>1. Shaped(N, P) /\ Columned(file, N, P, pos, csv.col, csv.row)
  BY TreeShape DEF ColumnsOK
<1>2. \A s : Tree!Last(s) = Last(s) /\ Tree!Front(s) = Front(s)
  BY TreeEnds
<1>3. Tree!vars = <<options, file, pos, csv, N, P>>
  BY DEF Tree!vars, Path
<1>4. \A t, x : Tree!Added(t, x) = KidAdded(N, P, [type |-> t, value |-> x])
  BY <1>2 DEF Tree!Added, KidAdded, Path
<1> DEFINE kid == [type |-> "Expression", value |-> Tree!Node(Len(N) + 1)]
<1>5. Tree!Added("Expression", Tree!Node(Len(N) + 1)) = KidAdded(N, P, kid)
  BY <1>4
<1>6. \A n, tree : Tree!Outside(n, tree) = Outer(n, tree)
  BY <1>2 DEF Tree!Outside, Outer
<1>7. CASE Tree!Draw
  <2>1. pos' = pos /\ csv' = csv /\ N2 = N /\ P2 = P
    BY <1>7 DEF Tree!Draw, Path
  <2> HIDE DEF N, P, N2, P2
  <2>2. Columned(file, N2, P2, pos', csv'.col, csv'.row)
    BY <1>1, <2>1
  <2> QED BY <2>2 DEF N2, P2
<1>8. CASE Tree!ReadOpen
  <2>1. /\ csv = Tree!Idle /\ csv' = Tree!Idle /\ file[pos].event \in {"object", "array", "key"}
        /\ Tree!Open(Tree!Text(file[pos].event))
    BY <1>8 DEF Tree!ReadOpen, Tree!Reading, Tree!Advance
  <2> DEFINE head == Tree!Text(file[pos].event)
  <2>2. head.text # "column"
    BY <2>1 DEF Tree!Text
  <2>3. csv.row = 0 /\ csv'.row = 0
    BY <2>1 DEF Tree!Idle
  <2> HIDE DEF head
  <2>4. N2 = Append(KidAdded(N, P, kid), [head |-> head, kids |-> <<>>]) /\ P2 = Append(P, Len(N) + 1)
    BY <1>5, <2>1 DEF head, Tree!Open, Path
  <2> HIDE DEF N, P, N2, P2, kid
  <2>5. Columned(file, N2, P2, pos', csv'.col, 0)
    BY <1>1, <2>2, <2>3, <2>4, OpenKeeps
  <2> QED BY <2>3, <2>5 DEF N2, P2
<1>9. CASE Tree!OpenTable
  <2>1. csv = Tree!Idle /\ csv' = [col |-> 1, row |-> 0] /\ Tree!Open(Tree!Text("table"))
    BY <1>9 DEF Tree!OpenTable, Tree!Reading, Tree!Step
  <2> DEFINE head == Tree!Text("table")
  <2>2. head.text # "column"
    BY DEF Tree!Text
  <2>3. csv.row = 0 /\ csv'.row = 0
    BY <2>1 DEF Tree!Idle
  <2> HIDE DEF head
  <2>4. N2 = Append(KidAdded(N, P, kid), [head |-> head, kids |-> <<>>]) /\ P2 = Append(P, Len(N) + 1)
    BY <1>5, <2>1 DEF head, Tree!Open, Path
  <2> HIDE DEF N, P, N2, P2, kid
  <2>5. Columned(file, N2, P2, pos', csv'.col, 0)
    BY <1>1, <2>2, <2>3, <2>4, OpenKeeps
  <2> QED BY <2>3, <2>5 DEF N2, P2
<1>10. CASE Tree!ReadClose \/ Tree!CloseTable
  <2>1. csv.row = 0 /\ csv'.row = 0 /\ N2 = N /\ P2 = Outer(Front(P), N)
    <3>1. CASE Tree!ReadClose
      BY <1>2, <1>6, <3>1 DEF Tree!ReadClose, Tree!Reading, Tree!Advance, Tree!Idle, Path
    <3>2. CASE Tree!CloseTable
      BY <1>2, <1>6, <3>2 DEF Tree!CloseTable, Tree!ReadingTable, Tree!Advance, Tree!Idle, Path
    <3> QED BY <1>10, <3>1, <3>2
  <2> HIDE DEF N, P, N2, P2
  <2>2. Columned(file, N2, P2, pos', csv'.col, 0)
    BY <1>1, <2>1, LeafKeeps
  <2> QED BY <2>1, <2>2 DEF N2, P2
<1>11. CASE Tree!ReadLeaf
  <2>1. csv.row = 0 /\ csv'.row = 0 /\ P2 = Outer(P, N)
    BY <1>6, <1>11 DEF Tree!ReadLeaf, Tree!Reading, Tree!Advance, Tree!Idle, Path
  <2>2. \E t, x : Tree!AddLeaf(t, x)
    <3>1. CASE file[pos].event \in {"null", "boolean"}
      BY <1>11, <3>1 DEF Tree!ReadLeaf
    <3>2. CASE file[pos].event = "integer"
      BY <1>11, <3>2 DEF Tree!ReadLeaf
    <3>3. CASE file[pos].event = "float"
      BY <1>11, <3>3 DEF Tree!ReadLeaf
    <3>4. CASE file[pos].event \notin {"null", "boolean", "integer", "float"}
      BY <1>11, <3>4 DEF Tree!ReadLeaf
    <3> QED BY <3>1, <3>2, <3>3, <3>4
  <2>3. PICK leaf : N2 = KidAdded(N, P, leaf)
    <3>1. PICK t, x : Tree!AddLeaf(t, x)
      BY <2>2
    <3> QED BY <1>4, <3>1 DEF Tree!AddLeaf
  <2> HIDE DEF N, P, N2, P2
  <2>4. Columned(file, N2, P2, pos', csv'.col, 0)
    BY <1>1, <2>1, <2>3, LeafKeeps
  <2> QED BY <2>1, <2>4 DEF N2, P2
<1>12. CASE Tree!OpenColumn
  <2>1. /\ csv.col > 0 /\ csv.row = 0 /\ csv.col <= Len(Tree!Table) /\ pos' = pos
        /\ csv' = [col |-> csv.col, row |-> 1] /\ Tree!Open(Tree!Text("column"))
    BY <1>12 DEF Tree!OpenColumn, Tree!ReadingTable, Tree!Step
  <2>2. /\ pos \in DOMAIN file /\ csv.col \in DOMAIN file[pos].table
        /\ Len(file[pos].table[csv.col]) \in Nat
    BY <2>1, TableRead
  <2>3. TypeOfCsvColumn(file[pos].table[csv.col]) # "exception"
    <3>1. csv' # csv /\ stage' = "write" /\ csv'.row > 0
      BY <2>1
    <3>2. TypeOfCsvColumn(file'[pos'].table[csv'.col]) # "exception"
      BY <3>1 DEF TreeOK, TypedOK, Column, Table
    <3> QED BY <2>1, <3>2
  <2> DEFINE head == Tree!Text("column")
             p == pos
             col == csv.col
  <2>4. head = [text |-> "column", at |-> <<p, col, 0>>]
    BY <2>1 DEF Tree!Text
  <2>5. N2 = Append(KidAdded(N, P, kid), [head |-> head, kids |-> <<>>]) /\ P2 = Append(P, Len(N) + 1)
    BY <1>5, <2>1 DEF Tree!Open, Path
  <2> HIDE DEF N, P, N2, P2, head, kid
  <2>6. N2 = Append(KidAdded(N, P, kid), [head |-> [text |-> "column", at |-> <<p, col, 0>>], kids |-> <<>>])
    BY <2>4, <2>5
  <2>7. Columned(file, N, P, p, col, 0)
    BY <1>1, <2>1
  <2> DEFINE M == KidAdded(N, P, kid)
  <2>8. M = KidAdded(N, P, kid)
    OBVIOUS
  <2>9. p \in DOMAIN file /\ col \in DOMAIN file[p].table /\ Len(file[p].table[col]) \in Nat
        /\ TypeOfCsvColumn(file[p].table[col]) # "exception"
    BY <2>2, <2>3
  <2>10. pos' = p /\ csv'.col = col /\ csv'.row = 1
    BY <2>1
  <2> HIDE DEF M, p, col
  <2>11. Columned(file, Append(M, [head |-> [text |-> "column", at |-> <<p, col, 0>>], kids |-> <<>>]),
                  Append(P, Len(N) + 1), p, col, 1)
    BY <1>1, <2>7, <2>8, <2>9, ColumnKeeps
  <2>12. Columned(file, N2, P2, p, col, 1)
    BY <2>5, <2>6, <2>8, <2>11
  <2> QED BY <2>10, <2>12 DEF N2, P2
<1>13. CASE Tree!ReadCell
  <2>1. /\ csv.col > 0 /\ csv.row > 0 /\ csv.row <= Len(Tree!Table[csv.col]) /\ pos' = pos
        /\ csv' = [col |-> csv.col, row |-> csv.row + 1] /\ P2 = P
    BY <1>13 DEF Tree!ReadCell, Tree!ReadingTable, Tree!Step, Path
  <2>2. /\ Tree!Table[csv.col] = Column /\ file[pos].table[csv.col] = Column /\ Column \in Seq(Cell) /\ Len(Column) \in Nat
        /\ csv \in [col : Nat, row : Nat]
    BY <2>1, TableRead
  <2>3. TypeOfCsvColumn(Column) # "exception" /\ csv.row \in DOMAIN Column /\ csv.row \in Nat
    BY <2>1, <2>2 DEF TreeOK, TypedOK
  <2>4. \E t, x : t = CellType(Column, csv.row) /\ Tree!AddLeaf(t, x)
    <3>1. \/ Column[csv.row] = "empty" /\ Tree!ColumnType # "String" /\ Tree!AddLeaf("Symbol", Tree!Text("missing"))
          \/ Column[csv.row] # "empty" /\ Tree!ColumnType # "String" /\ Tree!AddLeaf(Tree!ColumnType, Tree!Text("number"))
          \/ Tree!ColumnType = "String" /\ Tree!AddLeaf("String", Tree!Text("cell"))
      BY <1>13, <2>2 DEF Tree!ReadCell
    <3>2. /\ Tree!ColumnType = "String" => CellType(Column, csv.row) = "String"
          /\ Tree!ColumnType # "String" => CellType(Column, csv.row) = IF Column[csv.row] = "empty" THEN "Symbol" ELSE Tree!ColumnType
      BY <2>2, <2>3, CellRead
    <3> QED BY <3>1, <3>2
  <2>5. PICK cell : N2 = KidAdded(N, P, cell) /\ cell.type = CellType(Column, csv.row)
    <3>1. PICK t, x : t = CellType(Column, csv.row) /\ Tree!AddLeaf(t, x)
      BY <2>4
    <3> DEFINE cell == [type |-> t, value |-> x]
    <3>2. N2 = KidAdded(N, P, cell)
      BY <1>4, <3>1 DEF Tree!AddLeaf
    <3>3. cell.type = CellType(Column, csv.row)
      BY <3>1
    <3> HIDE DEF cell, N2, N, P
    <3> QED BY <3>2, <3>3
  <2>6. N2 = [N EXCEPT ![Last(P)].kids = Append(@, cell)]
    BY <2>5 DEF KidAdded
  <2> HIDE DEF N, P, N2, P2
  <2>7. Columned(file, N2, P, pos, csv.col, csv.row + 1)
    <3> DEFINE p == pos
               col == csv.col
               row == csv.row
    <3>1. /\ Columned(file, N, P, p, col, row) /\ row \in Nat /\ row > 0 /\ row <= Len(file[p].table[col])
          /\ Len(file[p].table[col]) \in Nat /\ cell.type = CellType(file[p].table[col], row)
      BY <1>1, <2>1, <2>2, <2>3, <2>5
    <3> HIDE DEF p, col, row
    <3>2. Columned(file, N2, P, p, col, row + 1)
      BY <1>1, <2>6, <3>1, CellKeeps
    <3> QED BY <3>2 DEF p, col, row
  <2>8. Columned(file, N2, P2, pos', csv'.col, csv'.row)
    BY <2>1, <2>7
  <2> QED BY <2>8 DEF N2, P2
<1>14. CASE Tree!CloseColumn
  <2>1. /\ csv.col > 0 /\ csv.row > 0 /\ csv.row = Len(Tree!Table[csv.col]) + 1
        /\ csv' = [col |-> csv.col + 1, row |-> 0] /\ N2 = N /\ P2 = Front(P)
    BY <1>2, <1>14 DEF Tree!CloseColumn, Tree!ReadingTable, Tree!Step, Path
  <2>2. /\ Tree!Table[csv.col] = file[pos].table[csv.col] /\ Len(file[pos].table[csv.col]) \in Nat
        /\ csv.row \in Nat
    BY <2>1, TableRead
  <2> HIDE DEF N, P, N2, P2
  <2>3. Columned(file, N, Front(P), pos', csv'.col, 0)
    BY <1>1, <2>1, <2>2, ColumnShuts
  <2>4. csv'.row = 0
    BY <2>1
  <2> QED BY <2>1, <2>3, <2>4 DEF N2, P2
<1> QED BY <1>7, <1>8, <1>9, <1>10, <1>11, <1>12, <1>13, <1>14 DEF Tree!Next

(***************************************************************************)
(* The invariant of the columns, and of the files that they are read from. *)
(***************************************************************************)
\* Every column that the load has come to has a type.
TablesTyped ==
  stage \in {"write", "done"} =>
    \A p \in DOMAIN file : IsCsv(file[p]) => \A col \in DOMAIN file[p].table :
      p < pos \/ (p = pos /\ col < csv.col) => TypeOfCsvColumn(file[p].table[col]) # "exception"
FailedTyped == stage = "failed" /\ csv.col > 0 => TypeOfCsvColumn(Column) = "exception" /\ csv.col \in DOMAIN Table
SheetOK == ColumnsOK /\ TablesTyped /\ FailedTyped

\* An unwritten block has no column.
LEMMA UnwrittenColumns ==
  ASSUME WriterOK(w), Unwritten(w), csv.row = 0
  PROVE  Columned(file, ReadNodes, Path, pos, csv.col, csv.row)
<1>1. ReadNodes = Root /\ Path = <<1>>
  BY UnwrittenReads, TreeNow
<1>2. DOMAIN Root = {1} /\ ~IsColumn(Root[1]) /\ DOMAIN <<1>> = {1} /\ <<1>>[1] = 1
  BY DEF Root, IsColumn
<1> QED BY <1>1, <1>2 DEF Columned

\* The first traversal writes none.
LEMMA CountColumns ==
  ASSUME BlockInv, BlockInv', TreeOK, CountNext
  PROVE  SheetOK'
<1>1. stage = "count" /\ UNCHANGED <<pos, csv>> /\ (w' = w \/ w' = NewWriter(c, leftover)) /\ stage' \in {"count", "failed", "write"}
  BY DEF CountNext, CountKeyEvent, CountStartEvent, CountEndEvent, CountValueEvent, CountFails, Construct, Parse
<1>2. w = NoBlock /\ pos = 1 /\ csv.col = 0 /\ csv.row = 0
  <2>1. w = NoBlock
    BY <1>1 DEF BlockInv, FillOK, Built
  <2>2. csv \in [col : Nat, row : Nat] /\ pos = 1 /\ csv.col = 0 /\ csv.row = 0
    BY <1>1 DEF BlockInv, IInv, PlaceOK, TreeOK, RowsOK
  <2> QED BY <2>1, <2>2
<1>3. Unwritten(w') /\ WriterOK(w')
  BY <1>1, <1>2, StartsUnwritten DEF BlockInv, IInv
<1>4. ColumnsOK'
  <2>1. (WriterOK(w) /\ Unwritten(w) /\ csv.row = 0 => Columned(file, ReadNodes, Path, pos, csv.col, csv.row))'
    BY UnwrittenColumns, PTL
  <2>2. WriterOK(w)' /\ Unwritten(w)' /\ csv'.row = 0
    BY <1>1, <1>2, <1>3 DEF Unwritten
  <2> QED BY <2>1, <2>2 DEF ColumnsOK
<1>5. TablesTyped'
  <2>1. file' \in Seq(Token)
    BY DEF BlockInv, IInv, HistoryOK
  <2>2. \A p \in DOMAIN file' : p >= 1 /\ p \in Nat
    BY <2>1
  <2>3. \A p \in DOMAIN file' : \A col \in DOMAIN file'[p].table : ~(p < pos' \/ (p = pos' /\ col < csv'.col))
    <3> SUFFICES ASSUME NEW p \in DOMAIN file', NEW col \in DOMAIN file'[p].table, p = 1, col < 0 PROVE FALSE
      BY <1>1, <1>2, <2>2
    <3>1. file'[p] \in Token
      BY <2>1
    <3>2. file'[p].table \in Seq(Seq(Cell))
      BY <3>1, TableOK
    <3> QED BY <3>2
  <2> QED BY <2>3 DEF TablesTyped
<1>6. FailedTyped'
  BY <1>1, <1>2 DEF FailedTyped
<1> QED BY <1>4, <1>5, <1>6 DEF SheetOK

\* What writes nothing keeps the columns as they are.
LEMMA StaysSheet ==
  ASSUME BlockInv, BlockInv', TreeOK, SheetOK, UNCHANGED <<options, leftover, file, pos, csv, w>>,
         stage' = stage \/ (stage = "write" /\ stage' = "done")
         \/ (stage' = "failed" /\ FailedTyped')
  PROVE  SheetOK'
<1>1. WriterOK(w) /\ WriterOK(w')
  BY DEF BlockInv, IInv
<1>2. ReadNodes' = ReadNodes /\ Path' = Path
  BY <1>1, TreeNow, TreeNext
<1>3. ColumnsOK'
  BY <1>2 DEF SheetOK, ColumnsOK
<1>4. TablesTyped'
  BY DEF SheetOK, TablesTyped, IsCsv
<1>5. FailedTyped'
  <2>1. CASE stage' = "failed" /\ FailedTyped'
    BY <2>1
  <2>2. CASE stage' = stage \/ (stage = "write" /\ stage' = "done")
    BY <2>2 DEF SheetOK, FailedTyped, Column, Table
  <2> QED BY <2>1, <2>2
<1> QED BY <1>3, <1>4, <1>5 DEF SheetOK

\* A handler of the second traversal goes on where the last one stopped.
LEMMA PlaceMoves ==
  ASSUME BlockInv, TreeOK, UNCHANGED <<options, leftover>>, WriteNext, UNCHANGED <<stage, file>>
  PROVE  /\ stage = "write" /\ ~w.wild
         /\ \/ csv.col = 0 /\ ~IsCsv(file[pos]) /\ pos' = pos + 1 /\ csv'.col = 0
            \/ csv.col = 0 /\ pos' = pos /\ csv'.col = 1
            \/ csv.col > 0 /\ pos' = pos /\ csv'.col = csv.col
            \/ csv.col > 0 /\ csv.row > 0 /\ pos' = pos /\ csv'.col = csv.col + 1
            \/ csv.col > 0 /\ csv.col > Len(Table) /\ pos' = pos + 1 /\ csv'.col = 0
<1>1. CASE WriteSymbol \/ WriteNumber \/ WriteString
  BY <1>1 DEF WriteSymbol, WriteNumber, WriteString, Event, HandlerReturns, IsCsv
<1>2. CASE WriteStart \/ WriteKey \/ WriteEnd
  BY <1>2 DEF WriteStart, WriteKey, WriteEnd, Event, HandlerReturns, IsCsv
<1>3. CASE WriteTableStart
  BY <1>3 DEF WriteTableStart, Event, HandlerGoesOn
<1>4. CASE WriteColumnStart
  BY <1>4 DEF WriteColumnStart, InTable, HandlerGoesOn
<1>5. CASE WriteCell
  BY <1>5 DEF WriteCell, InTable, HandlerGoesOn
<1>6. CASE WriteColumnEnd
  BY <1>6 DEF WriteColumnEnd, InTable, HandlerGoesOn
<1>7. CASE WriteTableEnd
  BY <1>7 DEF WriteTableEnd, InTable, HandlerReturns
<1>8. CASE WriteFails \/ Finish
  BY <1>8 DEF WriteFails, Finish, InTable
<1> QED BY <1>1, <1>2, <1>3, <1>4, <1>5, <1>6, <1>7, <1>8 DEF WriteNext

\* The steps of the second traversal that write: one per kind of ExpressionTree.
LEMMA MoveSheet ==
  ASSUME BlockInv, BlockInv', TreeOK, TreeOK', SheetOK, UNCHANGED <<options, leftover>>, WriteNext, UNCHANGED <<stage, file>>,
         [w'.wild \/ Tree!Next]_(Tree!vars)
  PROVE  SheetOK'
<1>1. stage = "write" /\ ~w.wild
  BY PlaceMoves
<1>2. ColumnsOK'
  <2> SUFFICES ASSUME ~w'.wild PROVE Columned(file', ReadNodes', Path', pos', csv'.col, csv'.row)
    BY DEF ColumnsOK
  <2>1. CASE Tree!Next
    <3>1. Columned(file, ReadNodes', Path', pos', csv'.col, csv'.row)
      BY <1>1, <2>1, TreeKeeps DEF SheetOK
    <3> QED BY <3>1
  <2>2. CASE UNCHANGED Tree!vars
    <3>1. ReadNodes' = ReadNodes /\ Path' = Path /\ pos' = pos /\ csv' = csv
      BY <2>2 DEF Tree!vars, Path
    <3> QED BY <1>1, <3>1 DEF SheetOK, ColumnsOK
  <2> QED BY <2>1, <2>2
<1>3. TablesTyped'
  <2> SUFFICES ASSUME NEW p \in DOMAIN file, IsCsv(file[p]), NEW col \in DOMAIN file[p].table,
                      p < pos' \/ (p = pos' /\ col < csv'.col)
               PROVE  TypeOfCsvColumn(file[p].table[col]) # "exception"
    BY DEF TablesTyped, IsCsv
  <2>1. file \in Seq(Token) /\ pos \in Nat /\ csv.col \in Nat /\ csv.row \in Nat
    BY DEF BlockInv, IInv, HistoryOK, PlaceOK
  <2>2. p \in Nat /\ file[p].table \in Seq(Seq(Cell)) /\ col \in Nat /\ col >= 1 /\ col <= Len(file[p].table)
        /\ Len(file[p].table) \in Nat
    <3>1. p \in Nat /\ file[p] \in Token
      BY <2>1
    <3>2. file[p].table \in Seq(Seq(Cell))
      BY <3>1, TableOK
    <3> QED BY <3>1, <3>2
  <2>3. p < pos \/ (p = pos /\ col < csv.col) => TypeOfCsvColumn(file[p].table[col]) # "exception"
    BY <1>1 DEF SheetOK, TablesTyped
  <2>4. /\ \/ csv.col = 0 /\ ~IsCsv(file[pos]) /\ pos' = pos + 1 /\ csv'.col = 0
           \/ csv.col = 0 /\ pos' = pos /\ csv'.col = 1
           \/ csv.col > 0 /\ pos' = pos /\ csv'.col = csv.col
           \/ csv.col > 0 /\ csv.row > 0 /\ pos' = pos /\ csv'.col = csv.col + 1
           \/ csv.col > 0 /\ csv.col > Len(Table) /\ pos' = pos + 1 /\ csv'.col = 0
    BY PlaceMoves
  <2>5. CASE csv.col = 0 /\ ~IsCsv(file[pos]) /\ pos' = pos + 1 /\ csv'.col = 0
    <3>1. p # pos
      BY <2>5
    <3> QED BY <2>1, <2>2, <2>3, <2>5, <3>1
  <2>6. CASE csv.col = 0 /\ pos' = pos /\ csv'.col = 1
    BY <2>1, <2>2, <2>3, <2>6
  <2>7. CASE csv.col > 0 /\ pos' = pos /\ csv'.col = csv.col
    BY <2>3, <2>7
  <2>8. CASE csv.col > 0 /\ csv.row > 0 /\ pos' = pos /\ csv'.col = csv.col + 1
    <3>1. TypeOfCsvColumn(file[pos].table[csv.col]) # "exception"
      BY <1>1, <2>8 DEF TreeOK, TypedOK, Column, Table
    <3>2. p < pos \/ (p = pos /\ col < csv.col) \/ (p = pos /\ col = csv.col)
      BY <2>1, <2>2, <2>8
    <3> QED BY <2>3, <3>1, <3>2
  <2>9. CASE csv.col > 0 /\ csv.col > Len(Table) /\ pos' = pos + 1 /\ csv'.col = 0
    <3>1. p < pos \/ (p = pos /\ col <= Len(Table))
      BY <2>1, <2>2, <2>9 DEF Table
    <3>2. p = pos => Len(Table) \in Nat
      BY <2>2 DEF Table
    <3>3. p < pos \/ (p = pos /\ col < csv.col)
      BY <2>1, <2>2, <2>9, <3>1, <3>2
    <3> QED BY <2>3, <3>3
  <2> QED BY <2>4, <2>5, <2>6, <2>7, <2>8, <2>9
<1>4. FailedTyped'
  BY <1>1 DEF FailedTyped
<1> QED BY <1>2, <1>3, <1>4 DEF SheetOK

\* A cell that throws ends the load before it is stored.
LEMMA FailsSheet ==
  ASSUME BlockInv, BlockInv', TreeOK, SheetOK, UNCHANGED <<options, leftover>>, WriteFails
  PROVE  SheetOK'
<1>1. stage' = "failed" /\ UNCHANGED <<options, leftover, file, pos, csv, w>> /\ TypeOfCsvColumn(Column) = "exception"
      /\ csv.col <= Len(Table) /\ InTable
  BY DEF WriteFails
<1>2. csv.col \in DOMAIN Table
  <2>1. stage = "write" /\ ~w.wild /\ csv.col > 0
    BY <1>1 DEF InTable
  <2> QED BY <1>1, <2>1, TableRead DEF Table, Tree!Table
<1>3. FailedTyped'
  BY <1>1, <1>2 DEF FailedTyped, Column, Table
<1> QED BY <1>1, <1>3, StaysSheet

\* Every step of a load.
LEMMA SheetStep ==
  ASSUME BlockInv, TreeOK, SheetOK, [Next]_vars
  PROVE  SheetOK'
<1>1. BlockInv' /\ TreeOK' /\ [w'.wild \/ Tree!Next]_(Tree!vars)
  BY BlockStep, StepTells
<1> DEFINE A == [w'.wild \/ Tree!Next]_(Tree!vars)
<1> HIDE DEF A
<1>2. CASE UNCHANGED vars
  BY <1>1, <1>2, StaysSheet DEF vars
<1>3. CASE UNCHANGED <<options, leftover>> /\ CountNext
  BY <1>1, <1>3, CountColumns
<1>4. CASE UNCHANGED <<options, leftover>> /\ WriteNext
  <2>1. CASE WriteFails
    BY <1>1, <1>4, <2>1, FailsSheet
  <2>2. CASE Finish
    BY <1>1, <1>4, <2>2, StaysSheet DEF Finish
  <2>3. CASE ~WriteFails /\ ~Finish
    <3>1. UNCHANGED <<stage, file>>
      <4>1. CASE WriteSymbol \/ WriteNumber \/ WriteString \/ WriteStart \/ WriteEnd \/ WriteKey
        BY <4>1 DEF WriteSymbol, WriteNumber, WriteString, WriteStart, WriteEnd, WriteKey, HandlerReturns
      <4>2. CASE WriteTableStart \/ WriteColumnStart \/ WriteCell \/ WriteColumnEnd
        BY <4>2 DEF WriteTableStart, WriteColumnStart, WriteCell, WriteColumnEnd, HandlerGoesOn
      <4>3. CASE WriteTableEnd
        BY <4>3 DEF WriteTableEnd, HandlerReturns
      <4> QED BY <1>4, <2>3, <4>1, <4>2, <4>3 DEF WriteNext
    <3> QED BY <1>1, <1>4, <3>1, MoveSheet
  <2> QED BY <2>1, <2>2, <2>3
<1>5. CASE UNCHANGED <<options, leftover>> /\ Returned
  BY <1>1, <1>5, StaysSheet DEF Returned
<1> QED BY <1>2, <1>3, <1>4, <1>5 DEF Next

\* The three invariants hold in every state of a load.
LEMMA SheetAlways == Spec => [](CleanRoot => BlockInv /\ TreeOK /\ SheetOK)
<1>1. Init => SheetOK
  <2> SUFFICES ASSUME Init PROVE SheetOK
    OBVIOUS
  <2>1. w = NoBlock /\ csv = [col |-> 0, row |-> 0] /\ pos = 1 /\ stage = "count"
    BY DEF Init
  <2>2. WriterOK(w) /\ Unwritten(w)
    BY <2>1, NoBlockOK, StartsUnwritten
  <2>3. Columned(file, ReadNodes, Path, pos, csv.col, csv.row)
    BY <2>1, <2>2, UnwrittenColumns
  <2> QED BY <2>1, <2>3 DEF SheetOK, ColumnsOK, TablesTyped, FailedTyped
<1>2. (CleanRoot => BlockInv /\ TreeOK /\ SheetOK) /\ [Next]_vars => (CleanRoot => SheetOK)'
  BY SheetStep, RootStays
<1> QED BY <1>1, <1>2, TreeAlways, PTL DEF Spec

(***************************************************************************)
(* The typing of a column, in the two formats.                             *)
(***************************************************************************)
LEMMA CellThrows ==
  ASSUME NEW cell \in Cell, NEW T \in {"int64_t", "double_t", "string"}
  PROVE  /\ JsonCell(T, cell) \in {"invalid_argument", "out_of_range"} <=> Throws(T, cell)
         /\ Throws(T, cell) => JsonCell(T, cell) = ConvertCell(T, cell)
         /\ ConvertCell(T, cell) \in {"value", "missing", "invalid_argument", "out_of_range"}
BY DEF Cell, JsonCell, Throws, ConvertCell, AsLong, AsDouble, JsonKind

\* The least of a set of numbers, which the community modules choose.
LEMMA LeastIs ==
  ASSUME NEW S \in SUBSET Nat, S # {}
  PROVE  Min(S) \in S /\ \A y \in S : Min(S) <= y
<1>1. \E m \in S : \A y \in S : m <= y
  BY LeastSlot
<1> QED BY <1>1 DEF Min

\* What the two conversions make of a column under the assumption of one type.
LEMMA LoadsAlike ==
  ASSUME NEW column \in Seq(Cell), NEW T \in {"int64_t", "double_t", "string"}
  PROVE  LET json == loadCsvDataToJson(T, column)
             data == loadCsvData(T, column)
         IN /\ data = "exception" <=> json.is = "exception"
            /\ data = "empty" => json.is = "null" \/ (column = <<>> /\ json.is = "array")
            /\ data = "loaded" => json.is = "array"
            /\ json.is = "array" => json.cells = [r \in DOMAIN column |-> JsonCell(T, column[r])]
            /\ data \in {"exception", "empty", "loaded"}
            /\ data = "loaded" => \A r \in DOMAIN column : ~Throws(T, column[r])
<1> DEFINE cells == [r \in DOMAIN column |-> JsonCell(T, column[r])]
           throws == {r \in DOMAIN column : cells[r] \in {"invalid_argument", "out_of_range"}}
           first == FirstThrow(T, column)
           json == loadCsvDataToJson(T, column)
<1>1. DOMAIN column = 1 .. Len(column) /\ Len(column) \in Nat /\ \A r \in DOMAIN column : column[r] \in Cell
  OBVIOUS
<1>2. throws = {r \in DOMAIN column : Throws(T, column[r])}
  BY <1>1, CellThrows
<1>3. \A r \in throws : r \in DOMAIN column /\ cells[r] = ConvertCell(T, column[r])
  <2> SUFFICES ASSUME NEW r \in throws PROVE r \in DOMAIN column /\ cells[r] = ConvertCell(T, column[r])
    OBVIOUS
  <2>1. r \in DOMAIN column /\ Throws(T, column[r]) /\ column[r] \in Cell
    BY <1>1, <1>2
  <2> QED BY <2>1, CellThrows
<1>4. json = IF throws = {} THEN [is |-> "array", cells |-> cells]
             ELSE IF cells[Min(throws)] = "invalid_argument" THEN [is |-> "null", cells |-> <<>>]
             ELSE [is |-> "exception", cells |-> <<>>]
  BY DEF loadCsvDataToJson
<1>5. CASE throws = {}
  <2>1. first = {}
    BY <1>2, <1>5 DEF FirstThrow
  <2>2. loadCsvData(T, column) = IF column = <<>> THEN "empty" ELSE "loaded"
    BY <2>1 DEF loadCsvData
  <2>3. json = [is |-> "array", cells |-> cells]
    BY <1>4, <1>5
  <2>4. \A r \in DOMAIN column : ~Throws(T, column[r])
    BY <1>2, <1>5
  <2> HIDE DEF json, cells
  <2> QED BY <2>2, <2>3, <2>4 DEF json, cells
<1>6. CASE throws # {}
  <2> DEFINE m == Min(throws)
  <2>1. throws \in SUBSET Nat
    BY <1>1
  <2>2. m \in throws /\ \A y \in throws : m <= y
    <3> HIDE DEF throws
    <3> QED BY <1>6, <2>1, LeastIs
  <2>3. m \in DOMAIN column /\ Throws(T, column[m]) /\ m \in Nat /\ cells[m] = ConvertCell(T, column[m])
    BY <1>2, <1>3, <2>1, <2>2
  <2>4. \A q \in 1 .. m - 1 : ~Throws(T, column[q])
    <3> HIDE DEF m
    <3> SUFFICES ASSUME NEW q \in 1 .. m - 1, Throws(T, column[q]) PROVE FALSE
      OBVIOUS
    <3>1. q \in DOMAIN column /\ ~(m <= q)
      BY <1>1, <2>3
    <3>2. q \in throws
      BY <1>2, <3>1
    <3> QED BY <2>2, <3>1, <3>2
  <2>5. m \in first
    BY <2>3, <2>4 DEF FirstThrow
  <2>6. \A r \in first : r = m
    <3> SUFFICES ASSUME NEW r \in first PROVE r = m
      OBVIOUS
    <3>1. r \in throws /\ r \in DOMAIN column /\ \A q \in 1 .. r - 1 : ~Throws(T, column[q])
      BY <1>2 DEF FirstThrow
    <3>2. m <= r /\ r \in Nat /\ m >= 1
      <4> HIDE DEF m, throws, first
      <4> QED BY <1>1, <2>2, <2>3, <3>1
    <3>3. ~(m \in 1 .. r - 1)
      BY <2>3, <3>1
    <3> HIDE DEF m
    <3> QED BY <2>3, <3>2, <3>3
  <2>7. ConvertCell(T, column[m]) \in {"invalid_argument", "out_of_range"}
    BY <2>3 DEF Throws
  <2>8. loadCsvData(T, column) = IF ConvertCell(T, column[m]) = "out_of_range" THEN "exception" ELSE "empty"
    <3> HIDE DEF m, first
    <3> QED BY <2>5, <2>6 DEF loadCsvData, first
  <2>9. json.is = IF ConvertCell(T, column[m]) = "invalid_argument" THEN "null" ELSE "exception"
    <3> HIDE DEF throws, cells
    <3> QED BY <1>4, <1>6, <2>3
  <2> HIDE DEF json, m
  <2> QED BY <2>7, <2>8, <2>9 DEF json
<1> QED BY <1>5, <1>6

\* Both take the first type of three under which the column loads.
LEMMA FirstLoads ==
  ASSUME NEW t, t = [k \in 1 .. 3 |-> t[k]]
  PROVE  LET first == Min({3} \cup {k \in 1 .. 3 : t[k].is # "null"}) IN
         /\ t[1].is # "null" => first = 1
         /\ t[1].is = "null" /\ t[2].is # "null" => first = 2
         /\ t[1].is = "null" /\ t[2].is = "null" => first = 3
<1> DEFINE S == {3} \cup {k \in 1 .. 3 : t[k].is # "null"}
<1>1. S \in SUBSET Nat /\ S # {} /\ 3 \in S /\ S \subseteq 1 .. 3
  OBVIOUS
<1>2. \A k \in 1 .. 2 : k \in S <=> t[k].is # "null"
  OBVIOUS
<1> HIDE DEF S
<1>3. Min(S) \in S /\ \A y \in S : Min(S) <= y
  BY <1>1, LeastIs
<1> DEFINE m == Min(S)
<1>4. m \in 1 .. 3 /\ (1 \in S => m = 1) /\ (1 \notin S /\ 2 \in S => m = 2) /\ (1 \notin S /\ 2 \notin S => m = 3)
  <2>1. m \in S /\ \A y \in S : m <= y
    BY <1>3
  <2> HIDE DEF m
  <2> QED BY <1>1, <2>1
<1> QED BY <1>2, <1>4 DEF S

\* A column loads in both formats, or in none of them, and as the same type.
LEMMA ColumnAlike ==
  ASSUME NEW column \in Seq(Cell)
  PROVE  LET T == TypeOfCsvColumn(column)
             json == JsonColumn(column)
         IN /\ T # "exception" => json = [is |-> "array", cells |-> [r \in DOMAIN column |-> JsonCell(T, column[r])]]
            /\ T = "exception" => json.is = "exception" \/ column = <<>>
<1> DEFINE J(T) == loadCsvDataToJson(T, column)
           D(T) == loadCsvData(T, column)
           cells(T) == [r \in DOMAIN column |-> JsonCell(T, column[r])]
           t == [k \in 1 .. 3 |-> J(<<"int64_t", "double_t", "string">>[k])]
           first == Min({3} \cup {k \in 1 .. 3 : t[k].is # "null"})
<1>1. t[1] = J("int64_t") /\ t[2] = J("double_t") /\ t[3] = J("string")
  OBVIOUS
<1>2. JsonColumn(column) = t[first]
  BY DEF JsonColumn
<1>3. /\ t[1].is # "null" => first = 1
      /\ t[1].is = "null" /\ t[2].is # "null" => first = 2
      /\ t[1].is = "null" /\ t[2].is = "null" => first = 3
  <2>1. t = [k \in 1 .. 3 |-> t[k]]
    OBVIOUS
  <2> HIDE DEF t
  <2> QED BY <2>1, FirstLoads
<1>4. \A T \in {"int64_t", "double_t", "string"} :
        /\ D(T) = "exception" <=> J(T).is = "exception"
        /\ D(T) = "empty" => J(T).is = "null" \/ (column = <<>> /\ J(T).is = "array")
        /\ D(T) = "loaded" => J(T).is = "array"
        /\ J(T).is = "array" => J(T) = [is |-> "array", cells |-> cells(T)]
        /\ D(T) \in {"exception", "empty", "loaded"}
  <2> TAKE T \in {"int64_t", "double_t", "string"}
  <2>1. /\ D(T) = "exception" <=> J(T).is = "exception"
        /\ D(T) = "empty" => J(T).is = "null" \/ (column = <<>> /\ J(T).is = "array")
        /\ D(T) = "loaded" => J(T).is = "array"
        /\ J(T).is = "array" => J(T).cells = cells(T)
        /\ D(T) \in {"exception", "empty", "loaded"}
    BY LoadsAlike
  <2>2. J(T) = [is |-> J(T).is, cells |-> J(T).cells]
    BY DEF loadCsvDataToJson
  <2> HIDE DEF J, D, cells
  <2> QED BY <2>1, <2>2
<1>5. TypeOfCsvColumn(column) = IF D("int64_t") # "empty"
                                THEN IF D("int64_t") = "loaded" THEN "int64_t" ELSE "exception"
                                ELSE IF D("double_t") # "empty"
                                THEN IF D("double_t") = "loaded" THEN "double_t" ELSE "exception"
                                ELSE IF D("string") = "loaded" THEN "string" ELSE "exception"
  BY DEF TypeOfCsvColumn
<1>6. column = <<>> => TypeOfCsvColumn(column) = "exception"
  <2> SUFFICES ASSUME column = <<>> PROVE TypeOfCsvColumn(column) = "exception"
    OBVIOUS
  <2>1. \A T : D(T) = "empty"
    <3> TAKE T
    <3>1. FirstThrow(T, column) = {}
      BY DEF FirstThrow
    <3> QED BY <3>1 DEF loadCsvData
  <2> HIDE DEF D
  <2> QED BY <1>5, <2>1
<1>7. column # <<>> => D("string") # "empty"
  <2> SUFFICES ASSUME column # <<>>, D("string") = "empty" PROVE FALSE
    OBVIOUS
  <2>1. FirstThrow("string", column) # {} /\ \A r \in FirstThrow("string", column) : ConvertCell("string", column[r]) # "out_of_range"
    BY DEF loadCsvData
  <2>2. PICK r \in DOMAIN column : Throws("string", column[r]) /\ ConvertCell("string", column[r]) # "out_of_range"
    BY <2>1 DEF FirstThrow
  <2> QED BY <2>2 DEF Throws, ConvertCell
<1> DEFINE T == TypeOfCsvColumn(column)
           json == JsonColumn(column)
<1>8. CASE column = <<>>
  BY <1>6, <1>8
<1>9. CASE column # <<>>
  <2>1. \A S \in {"int64_t", "double_t"} : D(S) = "empty" => J(S).is = "null"
    BY <1>4, <1>9
  <2> HIDE DEF J, D, t, first, cells
  <2>2. CASE D("int64_t") # "empty"
    <3>1. J("int64_t").is # "null" /\ json = J("int64_t")
      <4>1. J("int64_t").is # "null"
        BY <1>4, <2>2
      <4> QED BY <1>1, <1>2, <1>3, <4>1
    <3>2. T = IF D("int64_t") = "loaded" THEN "int64_t" ELSE "exception"
      BY <1>5, <2>2
    <3> HIDE DEF T, json
    <3>3. T # "exception" => T = "int64_t" /\ json = [is |-> "array", cells |-> cells("int64_t")]
      BY <1>4, <3>1, <3>2
    <3>4. T = "exception" => json.is = "exception"
      BY <1>4, <2>2, <3>1, <3>2
    <3> QED BY <3>3, <3>4 DEF T, json, cells
  <2>3. CASE D("int64_t") = "empty" /\ D("double_t") # "empty"
    <3>1. J("double_t").is # "null" /\ json = J("double_t")
      <4>1. J("double_t").is # "null" /\ J("int64_t").is = "null"
        BY <1>4, <2>1, <2>3
      <4> QED BY <1>1, <1>2, <1>3, <4>1
    <3>2. T = IF D("double_t") = "loaded" THEN "double_t" ELSE "exception"
      BY <1>5, <2>3
    <3> HIDE DEF T, json
    <3>3. T # "exception" => T = "double_t" /\ json = [is |-> "array", cells |-> cells("double_t")]
      BY <1>4, <3>1, <3>2
    <3>4. T = "exception" => json.is = "exception"
      BY <1>4, <2>3, <3>1, <3>2
    <3> QED BY <3>3, <3>4 DEF T, json, cells
  <2>4. CASE D("int64_t") = "empty" /\ D("double_t") = "empty"
    <3>1. json = J("string")
      <4>1. J("double_t").is = "null" /\ J("int64_t").is = "null"
        BY <2>1, <2>4
      <4> QED BY <1>1, <1>2, <1>3, <4>1
    <3>2. T = IF D("string") = "loaded" THEN "string" ELSE "exception"
      BY <1>5, <2>4
    <3> HIDE DEF T, json
    <3>3. T # "exception" => T = "string" /\ json = [is |-> "array", cells |-> cells("string")]
      BY <1>4, <3>1, <3>2
    <3>4. T = "exception" => json.is = "exception"
      BY <1>4, <1>7, <1>9, <3>1, <3>2
    <3> QED BY <3>3, <3>4 DEF T, json, cells
  <2> QED BY <2>2, <2>3, <2>4
<1> QED BY <1>8, <1>9

\* The cells of a typed column, and what becomes of them.
LEMMA CellAlike ==
  ASSUME NEW column \in Seq(Cell), TypeOfCsvColumn(column) # "exception", NEW k \in DOMAIN column
  PROVE  LET cell == JsonCell(TypeOfCsvColumn(column), column[k]) IN
         /\ cell = "null" <=> CellType(column, k) = "Symbol"
         /\ cell = "integer" <=> CellType(column, k) = "Long"
         /\ cell = "float" <=> CellType(column, k) = "Double"
         /\ cell = "string" <=> CellType(column, k) = "String"
         /\ cell \in {"null", "integer", "float", "string"}
         /\ CellType(column, k) \in {"Symbol", "Long", "Double", "String"}
<1> DEFINE T == TypeOfCsvColumn(column)
<1>1. /\ T \in {"int64_t", "double_t", "string"}
      /\ T = "int64_t" => column[k] \in {"empty", "int"}
      /\ T = "double_t" => column[k] \in {"empty", "int", "real", "overflow"}
  BY ColumnTyped
<1>2. T = "string" => column[k] # "absent"
  <2> SUFFICES ASSUME T = "string" PROVE column[k] # "absent"
    OBVIOUS
  <2>1. loadCsvData("string", column) = "loaded"
    BY DEF TypeOfCsvColumn
  <2>2. ~Throws("string", column[k])
    BY <2>1, LoadsAlike
  <2> QED BY <2>2 DEF Throws, ConvertCell
<1>3. column[k] \in Cell
  OBVIOUS
<1>4. CASE T = "int64_t"
  <2>1. CellType(column, k) = IF column[k] = "empty" THEN "Symbol" ELSE "Long"
    BY <1>4 DEF CellType
  <2>2. JsonCell(T, column[k]) = IF column[k] = "empty" THEN "null" ELSE "integer"
    BY <1>1, <1>4 DEF JsonCell, AsLong, JsonKind
  <2> HIDE DEF T
  <2> QED BY <2>1, <2>2 DEF T
<1>5. CASE T = "double_t"
  <2>1. CellType(column, k) = IF column[k] = "empty" THEN "Symbol" ELSE "Double"
    BY <1>5 DEF CellType
  <2>2. JsonCell(T, column[k]) = IF column[k] = "empty" THEN "null" ELSE "float"
    BY <1>1, <1>5 DEF JsonCell, AsDouble, JsonKind
  <2> HIDE DEF T
  <2> QED BY <2>1, <2>2 DEF T
<1>6. CASE T = "string"
  <2>1. CellType(column, k) = "String"
    BY <1>6 DEF CellType
  <2>2. JsonCell(T, column[k]) = "string"
    BY <1>2, <1>6 DEF JsonCell, JsonKind
  <2> HIDE DEF T
  <2> QED BY <2>1, <2>2 DEF T
<1> QED BY <1>1, <1>4, <1>5, <1>6

\* A tag is known by its name.
LEMMA TypeNamed ==
  ASSUME NEW tag
  PROVE  /\ TypeName(tag) = "Long" => tag = ARGUMENT_TYPE_LONG
         /\ TypeName(tag) = "Double" => tag = ARGUMENT_TYPE_DOUBLE
         /\ TypeName(tag) = "String" => tag = ARGUMENT_TYPE_STRING
         /\ TypeName(tag) = "Symbol" => tag = ARGUMENT_TYPE_SYMBOL
<1>1. CASE tag = ARGUMENT_TYPE_LONG
  BY <1>1 DEF TypeName
<1>2. CASE tag # ARGUMENT_TYPE_LONG /\ tag = ARGUMENT_TYPE_DOUBLE
  BY <1>2 DEF TypeName, ARGUMENT_TYPE_LONG, ARGUMENT_TYPE_DOUBLE
<1>3. CASE tag = ARGUMENT_TYPE_STRING
  BY <1>3 DEF TypeName, ARGUMENT_TYPE_LONG, ARGUMENT_TYPE_DOUBLE, ARGUMENT_TYPE_STRING
<1>4. CASE tag = ARGUMENT_TYPE_SYMBOL
  BY <1>4 DEF TypeName, ARGUMENT_TYPE_LONG, ARGUMENT_TYPE_DOUBLE, ARGUMENT_TYPE_STRING, ARGUMENT_TYPE_SYMBOL
<1>5. CASE tag \notin {ARGUMENT_TYPE_LONG, ARGUMENT_TYPE_DOUBLE, ARGUMENT_TYPE_STRING, ARGUMENT_TYPE_SYMBOL}
  BY <1>5 DEF TypeName
<1> QED BY <1>1, <1>2, <1>3, <1>4, <1>5

\* A column of a finished block.
LEMMA FinishedColumn ==
  ASSUME BlockInv, TreeOK, SheetOK, NEW e \in Finished, HeadOf(e).text = "column"
  PROVE  LET p      == HeadOf(e).at[1]
             col    == HeadOf(e).at[2]
             column == file[p].table[col]
             read   == ReadTypes(w.types, StartSlot(e), EndSlot(e))
         IN /\ p \in DOMAIN file /\ col \in DOMAIN file[p].table /\ file[p] \in Token /\ column \in Seq(Cell)
            /\ TypeOfCsvColumn(column) # "exception"
            /\ EndSlot(e) - StartSlot(e) = Len(column) /\ StartSlot(e) \in Nat /\ EndSlot(e) \in Nat
            /\ \A k \in 1 .. Len(column) : TypeName(read[StartSlot(e) + k - 1]) = CellType(column, k)
<1> DEFINE node == NodesOf(w)[e + 2]
           s == StartOf(w, e)
           f == EndOf(w, e)
           tags == ReadTypes(w.types, s, f)
<1>1. e \in Expressions /\ stage = "done" /\ ~w.wild /\ csv.row = 0
  BY DEF Finished, BlockInv, FillOK, TreeOK, RowsOK
<1>2. WriterOK(w) /\ StackUp(w) /\ e \in Ids(w) /\ e # -1 /\ e \in Int
  <2>1. WriterOK(w) /\ StackUp(w)
    BY <1>1, ApartNow DEF Built, Apart
  <2>2. w.nextExpr \in Nat
    BY <2>1 DEF WriterOK, Writer
  <2> QED BY <1>1, <2>1, <2>2 DEF Expressions, Ids
<1>3. StartSlot(e) = s /\ EndSlot(e) = f
  BY DEF StartSlot, StartOf, EndSlot, EndOf, OpenAt, OpenIn
<1>4. s \in Nat /\ f \in Nat /\ s <= f
  BY <1>1, <1>2 DEF TreeOK, LegibleOK, Legible, EncodedIn, Encoded
<1>5. node = NodeOf(w, e) /\ e + 2 \in DOMAIN NodesOf(w) /\ ReadNodes = NodesOf(w)
  <2>1. e + 2 \in 1 .. w.nextExpr + 1 /\ NodesOf(w)[e + 2] = NodeOf(w, e)
    BY <1>2, NodePlaces
  <2> QED BY <1>2, <2>1, TreeNow DEF NodesOf
<1>6. node.head = HeadOf(e) /\ node.kids = KidsOf(w, e)
  BY <1>2, <1>5 DEF NodeOf, HeadAt, HeadOf
<1>7. Len(node.kids) = f - s /\ \A k \in 1 .. f - s : node.kids[k].type = TypeName(tags[s + k - 1])
  <2>1. KidsOf(w, e) = [k \in 1 .. f - s |-> KidAt(w, e, s + k - 1)]
    BY DEF KidsOf
  <2>2. f - s \in Nat
    BY <1>4
  <2>3. \A i : KidAt(w, e, i).type = TypeName(tags[i])
    BY DEF KidAt, ArgumentOf, ReadsOf
  <2>4. Len(KidsOf(w, e)) = f - s
    <3> HIDE DEF s, f
    <3> QED BY <2>1, <2>2
  <2> HIDE DEF s, f, tags, node
  <2> QED BY <1>6, <2>1, <2>3, <2>4
<1>8. Columned(file, ReadNodes, Path, pos, csv.col, csv.row)
  BY <1>1 DEF SheetOK, ColumnsOK
<1>9. IsColumn(node)
  BY <1>6 DEF IsColumn
<1> HIDE DEF node, s, f, tags
<1>10. ColumnNode(file, node) /\ Len(node.kids) = Len(ColumnOf(file, node))
  BY <1>1, <1>5, <1>8, <1>9 DEF Columned, node
<1> DEFINE p == HeadOf(e).at[1]
           col == HeadOf(e).at[2]
           column == file[p].table[col]
<1>11. ColumnOf(file, node) = column
  BY <1>6 DEF ColumnOf
<1>12. p \in DOMAIN file /\ col \in DOMAIN file[p].table /\ TypeOfCsvColumn(column) # "exception"
       /\ \A k \in 1 .. Len(node.kids) : node.kids[k].type = CellType(column, k)
  BY <1>6, <1>10, <1>11 DEF ColumnNode
<1>13. file[p] \in Token /\ column \in Seq(Cell)
  <2>1. file \in Seq(Token)
    BY DEF BlockInv, IInv, HistoryOK
  <2>2. file[p] \in Token
    BY <1>12, <2>1
  <2>3. file[p].table \in Seq(Seq(Cell))
    BY <2>2, TableOK
  <2> QED BY <1>12, <2>2, <2>3
<1> HIDE DEF p, col, column
<1>14. f - s = Len(column) /\ \A k \in 1 .. Len(column) : TypeName(tags[s + k - 1]) = CellType(column, k)
  BY <1>7, <1>10, <1>11, <1>12
<1> QED BY <1>3, <1>4, <1>12, <1>13, <1>14 DEF p, col, column, tags

(***************************************************************************)
(* A CSV file loads into JSON whenever it loads into the Wisent format,    *)
(* and each column of it has the same type and the same missing cells in   *)
(* both.                                                                   *)
(***************************************************************************)
THEOREM FormatsConvertAlike == Spec => []FormatsAgree
<1>1. (CleanRoot => BlockInv /\ TreeOK /\ SheetOK) => FormatsAgree
  <2> SUFFICES ASSUME CleanRoot, BlockInv, TreeOK, SheetOK PROVE FormatsAgree
    BY FinishedClean DEF FormatsAgree
  <2>1. ASSUME stage = "done" PROVE Loads
    <3> SUFFICES ASSUME NEW p \in DOMAIN file, IsCsv(file[p]), NEW col \in DOMAIN file[p].table
                 PROVE  JsonColumn(file[p].table[col]).is = "array"
      BY DEF Loads, TablesAt, Converted
    <3>1. file \in Seq(Token) /\ pos = Len(file) + 1
      BY <2>1 DEF BlockInv, IInv, HistoryOK, FillOK
    <3>2. p \in Nat /\ p < pos /\ file[p] \in Token
      BY <3>1
    <3>3. file[p].table[col] \in Seq(Cell)
      <4>1. file[p].table \in Seq(Seq(Cell))
        BY <3>2, TableOK
      <4> QED BY <4>1
    <3>4. TypeOfCsvColumn(file[p].table[col]) # "exception"
      BY <2>1, <3>2 DEF SheetOK, TablesTyped
    <3>5. JsonColumn(file[p].table[col]).is = "array"
      <4> DEFINE column == file[p].table[col]
      <4> HIDE DEF column
      <4>1. JsonColumn(column) = [is |-> "array", cells |-> [r \in DOMAIN column |-> JsonCell(TypeOfCsvColumn(column), column[r])]]
        BY <3>3, <3>4, ColumnAlike DEF column
      <4>2. JsonColumn(column).is = "array"
        BY <4>1
      <4> QED BY <4>2 DEF column
    <3> QED BY <3>5
  <2>2. ASSUME stage = "failed", csv.col > 0
        PROVE  Converted(pos, csv.col).is = "exception" \/ Column = <<>>
    <3>1. TypeOfCsvColumn(Column) = "exception" /\ csv.col \in DOMAIN Table
      BY <2>2 DEF SheetOK, FailedTyped
    <3>2. file \in Seq(Token) /\ pos \in DOMAIN file
      BY <2>2 DEF BlockInv, IInv, HistoryOK, PlaceOK
    <3>3. Column \in Seq(Cell)
      <4>1. Table \in Seq(Seq(Cell))
        BY <3>2, TableOK DEF Table
      <4> QED BY <3>1, <4>1 DEF Column
    <3>4. Converted(pos, csv.col) = JsonColumn(Column)
      BY DEF Converted, Column, Table
    <3>5. JsonColumn(Column).is = "exception" \/ Column = <<>>
      <4> DEFINE column == Column
      <4> HIDE DEF column
      <4>1. JsonColumn(column).is = "exception" \/ column = <<>>
        BY <3>1, <3>3, ColumnAlike DEF column
      <4> QED BY <4>1 DEF column
    <3> QED BY <3>4, <3>5
  <2>3. ASSUME NEW e \in Finished, HeadOf(e).text = "column"
        PROVE  LET read  == ReadTypes(w.types, StartSlot(e), EndSlot(e))
                   cells == Converted(HeadOf(e).at[1], HeadOf(e).at[2]).cells
               IN [k \in 1 .. EndSlot(e) - StartSlot(e) |-> read[StartSlot(e) + k - 1]]
                    = [k \in DOMAIN cells |-> Tag[cells[k]]]
    <3> DEFINE column == file[HeadOf(e).at[1]].table[HeadOf(e).at[2]]
               read == ReadTypes(w.types, StartSlot(e), EndSlot(e))
               cells == Converted(HeadOf(e).at[1], HeadOf(e).at[2]).cells
               s == StartSlot(e)
               T == TypeOfCsvColumn(column)
    <3>1. /\ column \in Seq(Cell) /\ TypeOfCsvColumn(column) # "exception"
          /\ EndSlot(e) - s = Len(column)
          /\ \A k \in 1 .. Len(column) : TypeName(read[s + k - 1]) = CellType(column, k)
      BY <2>3, FinishedColumn
    <3>2. Converted(HeadOf(e).at[1], HeadOf(e).at[2]) = JsonColumn(column)
      BY DEF Converted
    <3> HIDE DEF column, read, s
    <3>3. JsonColumn(column) = [is |-> "array", cells |-> [r \in DOMAIN column |-> JsonCell(T, column[r])]]
      BY <3>1, ColumnAlike
    <3>4. cells = [r \in DOMAIN column |-> JsonCell(T, column[r])]
      BY <3>2, <3>3
    <3>5. DOMAIN column = 1 .. Len(column)
      BY <3>1
    <3> HIDE DEF cells
    <3>6. ASSUME NEW k \in 1 .. Len(column) PROVE read[s + k - 1] = Tag[cells[k]]
      <4>1. k \in DOMAIN column /\ cells[k] = JsonCell(T, column[k]) /\ TypeName(read[s + k - 1]) = CellType(column, k)
        BY <3>1, <3>4, <3>5
      <4> DEFINE cell == JsonCell(T, column[k])
                 tag == read[s + k - 1]
                 type == CellType(column, k)
      <4>2. /\ cell = "null" <=> type = "Symbol"
            /\ cell = "integer" <=> type = "Long"
            /\ cell = "float" <=> type = "Double"
            /\ cell = "string" <=> type = "String"
            /\ cell \in {"null", "integer", "float", "string"}
        BY <3>1, <4>1, CellAlike
      <4>3. cells[k] = cell /\ TypeName(tag) = type
        BY <4>1
      <4> HIDE DEF cell, tag, type
      <4>4. Tag[cell] = tag
        <5>1. /\ type = "Long" => tag = ARGUMENT_TYPE_LONG
              /\ type = "Double" => tag = ARGUMENT_TYPE_DOUBLE
              /\ type = "String" => tag = ARGUMENT_TYPE_STRING
              /\ type = "Symbol" => tag = ARGUMENT_TYPE_SYMBOL
          BY <4>3, TypeNamed
        <5> QED BY <4>2, <5>1 DEF Tag
      <4> QED BY <4>3, <4>4 DEF tag
    <3>7. [k \in 1 .. Len(column) |-> read[s + k - 1]] = [k \in DOMAIN cells |-> Tag[cells[k]]]
      <4>1. DOMAIN cells = 1 .. Len(column)
        BY <3>4, <3>5
      <4> QED BY <3>6, <4>1
    <3> QED BY <3>1, <3>7 DEF read, cells, s
  <2> QED BY <2>1, <2>2, <2>3 DEF FormatsAgree
<1> QED BY <1>1, SheetAlways, PTL

FindsCells(e, T, table, column) ==
  /\ EndSlot(e) - StartSlot(e) = RowCount(table) /\ RowCount(table) \in Nat
  /\ \A k \in 0 .. RowCount(table) - 1 :
       StartSlot(e) + k \in ValidSlots(T, StartSlot(e), EndSlot(e)) <=> column[k + 1] # "empty"

\* The slots of a column that the iterator of its type is valid on.
LEMMA ColumnSlots ==
  ASSUME RLE_MINIMUM_SIZE > ARGUMENT_TYPE_DOUBLE, BlockInv, TreeOK, SheetOK, NEW e \in Finished,
         HeadOf(e).text = "column", NEW T \in {ARGUMENT_TYPE_LONG, ARGUMENT_TYPE_DOUBLE}, Unmistaken(e, T),
         TypeOfCsvColumn(file[HeadOf(e).at[1]].table[HeadOf(e).at[2]])
           = IF T = ARGUMENT_TYPE_LONG THEN "int64_t" ELSE "double_t"
  PROVE  FindsCells(e, T, file[HeadOf(e).at[1]].table, file[HeadOf(e).at[1]].table[HeadOf(e).at[2]])
<1> DEFINE p == HeadOf(e).at[1]
           col == HeadOf(e).at[2]
           table == file[p].table
           column == table[col]
           s == StartSlot(e)
           f == EndSlot(e)
           tags == ReadTypes(w.types, s, f)
           n == RowCount(table)
<1>1. /\ p \in DOMAIN file /\ col \in DOMAIN table /\ file[p] \in Token /\ column \in Seq(Cell)
      /\ f - s = Len(column) /\ s \in Nat /\ f \in Nat
      /\ \A k \in 1 .. Len(column) : TypeName(tags[s + k - 1]) = CellType(column, k)
  BY FinishedColumn
<1>2. ValidSlots(T, s, f) = {i \in s .. f - 1 : tags[i] = T}
  BY SlotsTyped DEF Typed, Slots
<1>3. Len(column) = n /\ n \in Nat
  <2>1. table \in Seq(Seq(Cell)) /\ n \in Nat
    BY <1>1, TableOK
  <2>2. col \in 1 .. Len(file[p].table)
    <3> HIDE DEF table, col
    <3>1. col \in 1 .. Len(table)
      BY <1>1, <2>1
    <3> QED BY <3>1 DEF table
  <2>3. Len(file[p].table[col]) = RowCount(file[p].table)
    <3> HIDE DEF p, col
    <3> QED BY <1>1, <2>2, ColumnLength
  <2> QED BY <2>1, <2>3
<1>4. TypeOfCsvColumn(column) = IF T = ARGUMENT_TYPE_LONG THEN "int64_t" ELSE "double_t"
  OBVIOUS
<1>5. f - s = n /\ \A k \in 1 .. n : TypeName(tags[s + k - 1]) = CellType(column, k)
  BY <1>1, <1>3
<1> HIDE DEF p, col, table, column, s, f, tags, n
<1>6. ASSUME NEW k \in 0 .. n - 1
      PROVE  s + k \in ValidSlots(T, s, f) <=> column[k + 1] # "empty"
  <2>1. k + 1 \in 1 .. n /\ s + (k + 1) - 1 = s + k /\ s + k \in s .. f - 1
    BY <1>1, <1>3, <1>5
  <2>2. TypeName(tags[s + k]) = CellType(column, k + 1)
    BY <1>5, <2>1
  <2>3. CellType(column, k + 1) = IF column[k + 1] = "empty" THEN "Symbol"
                                  ELSE IF T = ARGUMENT_TYPE_LONG THEN "Long" ELSE "Double"
    BY <1>4 DEF CellType
  <2> DEFINE tag == tags[s + k]
             cell == column[k + 1]
  <2>4. TypeName(tag) = IF cell = "empty" THEN "Symbol" ELSE IF T = ARGUMENT_TYPE_LONG THEN "Long" ELSE "Double"
    BY <2>2, <2>3
  <2> HIDE DEF tag, cell
  <2>5. tag = T <=> cell # "empty"
    <3>1. CASE cell = "empty"
      <4>1. tag = ARGUMENT_TYPE_SYMBOL
        BY <2>4, <3>1, TypeNamed
      <4> QED BY <3>1, <4>1 DEF ARGUMENT_TYPE_LONG, ARGUMENT_TYPE_DOUBLE, ARGUMENT_TYPE_SYMBOL
    <3>2. CASE cell # "empty"
      BY <2>4, <3>2, TypeNamed
    <3> QED BY <3>1, <3>2
  <2> QED BY <1>2, <2>1, <2>5 DEF tag, cell
<1> QED BY <1>3, <1>5, <1>6 DEF FindsCells, p, col, table, column, s, f, n

(***************************************************************************)
(* The query of the benchmarks and of Aggregation.py, run over two columns *)
(* of one table, adds up the rows in which both have a number, unless an   *)
(* iterator takes the length of a run for the tag it looks for.            *)
(***************************************************************************)
THEOREM QueryFinds ==
  ASSUME RLE_MINIMUM_SIZE > ARGUMENT_TYPE_DOUBLE
  PROVE  Spec => []QueryFindsRows
<1>1. ASSUME BlockInv, TreeOK, SheetOK,
             NEW agg \in Columns("double_t"), NEW pred \in Columns("int64_t"),
             HeadOf(agg).at[1] = HeadOf(pred).at[1],
             Unmistaken(agg, ARGUMENT_TYPE_DOUBLE), Unmistaken(pred, ARGUMENT_TYPE_LONG)
      PROVE  LET table == file[HeadOf(agg).at[1]].table
                 cells == {table[HeadOf(agg).at[2]], table[HeadOf(pred).at[2]]}
             IN AggregatedRows(agg, pred)
                  = {r - 1 : r \in {q \in 1 .. RowCount(table) : \A column \in cells : column[q] # "empty"}}
  <2> DEFINE table == file[HeadOf(agg).at[1]].table
             a == table[HeadOf(agg).at[2]]
             b == table[HeadOf(pred).at[2]]
             n == RowCount(table)
             A(k) == StartSlot(agg) + k \in ValidSlots(ARGUMENT_TYPE_DOUBLE, StartSlot(agg), EndSlot(agg))
             B(k) == StartSlot(pred) + k \in ValidSlots(ARGUMENT_TYPE_LONG, StartSlot(pred), EndSlot(pred))
  <2>1. /\ agg \in Finished /\ HeadOf(agg).text = "column" /\ TypeOfCsvColumn(a) = "double_t"
        /\ pred \in Finished /\ HeadOf(pred).text = "column"
        /\ TypeOfCsvColumn(file[HeadOf(pred).at[1]].table[HeadOf(pred).at[2]]) = "int64_t"
    BY DEF Columns
  <2>2. EndSlot(agg) - StartSlot(agg) = n /\ n \in Nat /\ \A k \in 0 .. n - 1 : A(k) <=> a[k + 1] # "empty"
    <3>1. ARGUMENT_TYPE_DOUBLE # ARGUMENT_TYPE_LONG
      BY DEF ARGUMENT_TYPE_DOUBLE, ARGUMENT_TYPE_LONG
    <3>2. TypeOfCsvColumn(file[HeadOf(agg).at[1]].table[HeadOf(agg).at[2]])
            = IF ARGUMENT_TYPE_DOUBLE = ARGUMENT_TYPE_LONG THEN "int64_t" ELSE "double_t"
      BY <2>1, <3>1
    <3>3. FindsCells(agg, ARGUMENT_TYPE_DOUBLE, file[HeadOf(agg).at[1]].table, file[HeadOf(agg).at[1]].table[HeadOf(agg).at[2]])
      BY <1>1, <2>1, <3>2, ColumnSlots
    <3>4. FindsCells(agg, ARGUMENT_TYPE_DOUBLE, table, a)
      BY <3>3
    <3> HIDE DEF table, a
    <3> QED BY <3>4 DEF FindsCells
  <2>3. \A k \in 0 .. n - 1 : B(k) <=> b[k + 1] # "empty"
    <3>1. TypeOfCsvColumn(file[HeadOf(pred).at[1]].table[HeadOf(pred).at[2]])
            = IF ARGUMENT_TYPE_LONG = ARGUMENT_TYPE_LONG THEN "int64_t" ELSE "double_t"
      BY <2>1
    <3>2. FindsCells(pred, ARGUMENT_TYPE_LONG, file[HeadOf(pred).at[1]].table, file[HeadOf(pred).at[1]].table[HeadOf(pred).at[2]])
      BY <1>1, <2>1, <3>1, ColumnSlots
    <3>3. FindsCells(pred, ARGUMENT_TYPE_LONG, table, b)
      BY <1>1, <3>2
    <3> HIDE DEF table, b
    <3> QED BY <3>3 DEF FindsCells
  <2>4. AggregatedRows(agg, pred) = {k \in 0 .. n - 1 : A(k) /\ B(k)}
    BY <2>2 DEF AggregatedRows
  <2> HIDE DEF table, a, b, n, A, B
  <2>5. {k \in 0 .. n - 1 : A(k) /\ B(k)} = {k \in 0 .. n - 1 : a[k + 1] # "empty" /\ b[k + 1] # "empty"}
    BY <2>2, <2>3
  <2>6. {k \in 0 .. n - 1 : a[k + 1] # "empty" /\ b[k + 1] # "empty"}
          = {r - 1 : r \in {q \in 1 .. n : \A column \in {a, b} : column[q] # "empty"}}
    <3> DEFINE Q == {q \in 1 .. n : \A column \in {a, b} : column[q] # "empty"}
    <3>1. \A k \in 0 .. n - 1 : a[k + 1] # "empty" /\ b[k + 1] # "empty" => k + 1 \in Q /\ k = (k + 1) - 1
      BY <2>2
    <3>2. \A r \in Q : r - 1 \in 0 .. n - 1 /\ (r - 1) + 1 = r /\ a[r] # "empty" /\ b[r] # "empty"
      BY <2>2
    <3> HIDE DEF Q
    <3>3. ASSUME NEW k PROVE k \in {x \in 0 .. n - 1 : a[x + 1] # "empty" /\ b[x + 1] # "empty"} <=> \E r \in Q : k = r - 1
      BY <3>1, <3>2
    <3> QED BY <3>3 DEF Q
  <2> QED BY <2>4, <2>5, <2>6 DEF table, a, b, n
<1>2. (CleanRoot => BlockInv /\ TreeOK /\ SheetOK) => QueryFindsRows
  BY <1>1, FinishedClean DEF QueryFindsRows, Columns
<1> QED BY <1>2, SheetAlways, PTL

\* The slots from a header on, and where the next header is.
LEMMA RunFrom ==
  ASSUME NEW types, NEW s, NEW e, NEW run, Encoded(types, s, e, run), NEW x \in s .. e - 1,
         RunOf(types, s, e)[x] = x
  PROVE  LET next == x + RunLength(types, x) IN
         /\ next \in x + 1 .. e
         /\ \A i \in x .. next - 1 : RunOf(types, s, e)[i] = x
         /\ next < e => RunOf(types, s, e)[next] = next
<1> DEFINE H == RunOf(types, s, e)
           next == x + RunLength(types, x)
<1>1. s \in Nat /\ e \in Nat /\ s <= e
  BY DEF Encoded
<1>2. RunLength(types, x) \in Nat /\ x < next /\ next <= e
  BY Covered
<1>3. next \in x + 1 .. e /\ \A i \in x .. next - 1 : i \in s .. e - 1 /\ i < e
  BY <1>1, <1>2
<1>4. \A i \in x .. next - 1 : H[i] = x
  BY <1>1, <1>2, <1>3, RunCovers
<1>5. ASSUME next < e PROVE H[next] = next
  <2>1. next \in s .. e - 1 /\ next - 1 \in x .. next - 1 /\ next # s
    BY <1>1, <1>2, <1>5
  <2>2. H[next] = HeaderAt(types, s, H, next)
    BY <1>1, <2>1, RunOfAt
  <2>3. H[next - 1] = x
    BY <1>4, <2>1
  <2>4. ~(next < x + RunLength(types, x))
    BY <1>2
  <2> HIDE DEF H, next
  <2> QED BY <2>1, <2>2, <2>3, <2>4 DEF HeaderAt
<1> QED BY <1>3, <1>4, <1>5

(***************************************************************************)
(* The generators of Aggregation.py, without the recursion.  Inside a run  *)
(* there are slots that no generator comes to, where the recursion may     *)
(* stay: a solution has to be found for them too.                          *)
(***************************************************************************)
Onward(s) == {n \in Nat : n >= s}
YieldsAt(types, T, end, f, x, a) ==
  IF x >= end THEN {}
  ELSE IF ~HasRLEBit(types[x]) THEN {i \in {x} : types[x] = T} \cup f[x + 1][a]
  ELSE IF ClearRLEBit(types[x]) = T
  THEN x .. x + types[x + 1] - 1 \cup f[x + types[x + 1]][types[x + 1]]
  ELSE IF a = 0 THEN {-1} ELSE f[x + a][a]
IsYields(types, T, s, end, f) == f = [x \in Onward(s) |-> [a \in Nat |-> YieldsAt(types, T, end, f, x, a)]]

AllAt(types, end, f, x) ==
  IF x >= end THEN [once |-> {}, forever |-> {}]
  ELSE IF ~HasRLEBit(types[x]) THEN [once |-> {}, forever |-> {x}]
  ELSE LET next == x + types[x + 1]
       IN [f[next] EXCEPT !.once = @ \cup (x .. next - 1)]
IsAll(types, s, end, f) == f = [x \in Onward(s) |-> AllAt(types, end, f, x)]

\* What a flag announces is a number.
LengthsTyped(types, s, end) == \A x \in s .. end - 1 : HasRLEBit(types[x]) => types[x + 1] \in Nat

\* From slot y on, f satisfies the equation.
YieldsFrom(types, T, s, end, f, y) ==
  /\ f = [x \in Onward(s) |-> [a \in Nat |-> f[x][a]]]
  /\ \A x \in Onward(s), a \in Nat : x >= y => f[x][a] = YieldsAt(types, T, end, f, x, a)

\* A solution from the next slot on can be made one from this slot on.
LEMMA YieldsBefore ==
  ASSUME NEW types, NEW T, NEW s \in Nat, NEW end \in Nat, s <= end, LengthsTyped(types, s, end), NEW y \in s .. end - 1,
         NEW f, YieldsFrom(types, T, s, end, f, y + 1)
  PROVE  \E g : YieldsFrom(types, T, s, end, g, y)
<1> DEFINE stuck == HasRLEBit(types[y]) /\ ClearRLEBit(types[y]) = T /\ types[y + 1] = 0
           v(a) == IF stuck THEN {} ELSE YieldsAt(types, T, end, f, y, a)
           g == [x \in Onward(s) |-> [a \in Nat |-> IF x = y THEN v(a) ELSE f[x][a]]]
<1>1. /\ y \in Nat /\ y < end /\ y >= s /\ y \in Onward(s)
      /\ \A x \in Onward(s) : x \in Nat /\ x >= s
      /\ \A n \in Nat : n >= s => n \in Onward(s)
  BY DEF Onward
<1>2. ASSUME NEW x \in Onward(s), NEW a \in Nat PROVE g[x][a] = IF x = y THEN v(a) ELSE f[x][a]
  <2> HIDE DEF v
  <2> QED OBVIOUS
<1>3. g = [x \in Onward(s) |-> [a \in Nat |-> g[x][a]]]
  <2>1. \A x \in Onward(s), a \in Nat : g[x][a] = IF x = y THEN v(a) ELSE f[x][a]
    BY <1>2
  <2> HIDE DEF v
  <2> QED BY <2>1
<1> HIDE DEF g
<1>4. ASSUME NEW x \in Onward(s), NEW a \in Nat, x > y PROVE g[x][a] = YieldsAt(types, T, end, g, x, a)
  <2>1. g[x][a] = YieldsAt(types, T, end, f, x, a)
    <3>1. x >= y + 1 /\ x # y
      BY <1>1, <1>4
    <3>2. f[x][a] = YieldsAt(types, T, end, f, x, a)
      BY <3>1 DEF YieldsFrom
    <3>3. g[x][a] = IF x = y THEN v(a) ELSE f[x][a]
      BY <1>2
    <3> HIDE DEF v
    <3> QED BY <3>1, <3>2, <3>3
  <2>2. CASE x >= end
    BY <2>1, <2>2 DEF YieldsAt
  <2>3. CASE x < end
    <3>1. HasRLEBit(types[x]) => types[x + 1] \in Nat
      BY <1>1, <2>3 DEF LengthsTyped
    <3>2. g[x + 1][a] = f[x + 1][a] /\ g[x + a][a] = f[x + a][a]
      <4>1. x + 1 \in Onward(s) /\ x + 1 # y /\ x + a \in Onward(s) /\ x + a # y
        BY <1>1, <1>4
      <4> QED BY <1>2, <4>1
    <3>3. HasRLEBit(types[x]) => g[x + types[x + 1]][types[x + 1]] = f[x + types[x + 1]][types[x + 1]]
      <4>1. ASSUME HasRLEBit(types[x]) PROVE x + types[x + 1] \in Onward(s) /\ x + types[x + 1] # y
        BY <1>1, <1>4, <3>1, <4>1
      <4> QED BY <1>2, <3>1, <4>1
    <3> QED BY <2>1, <3>2, <3>3, Zenon DEF YieldsAt
  <2> QED BY <1>1, <2>2, <2>3
<1>5. ASSUME NEW a \in Nat PROVE g[y][a] = YieldsAt(types, T, end, g, y, a)
  <2>1. HasRLEBit(types[y]) => types[y + 1] \in Nat
    BY DEF LengthsTyped
  <2>2. ~(y >= end)
    BY <1>1
  <2>3. g[y][a] = v(a)
    BY <1>1, <1>2
  <2>4. CASE stuck
    <3>1. g[y][0] = {} /\ g[y][a] = {} /\ y + types[y + 1] = y /\ y .. y - 1 = {}
      BY <1>1, <1>2, <2>3, <2>4
    <3>2. YieldsAt(types, T, end, g, y, a) = y .. y + types[y + 1] - 1 \cup g[y + types[y + 1]][types[y + 1]]
      BY <2>2, <2>4 DEF YieldsAt
    <3> QED BY <2>4, <3>1, <3>2
  <2>5. CASE ~stuck
    <3>1. g[y][a] = YieldsAt(types, T, end, f, y, a)
      BY <2>3, <2>5
    <3>2. g[y + 1][a] = f[y + 1][a]
      <4>1. y + 1 \in Onward(s) /\ y + 1 # y
        BY <1>1
      <4> QED BY <1>2, <4>1
    <3>3. a # 0 => g[y + a][a] = f[y + a][a]
      <4>1. a # 0 => y + a \in Onward(s) /\ y + a # y
        BY <1>1
      <4> QED BY <1>2, <4>1
    <3>4. HasRLEBit(types[y]) /\ ClearRLEBit(types[y]) = T =>
            g[y + types[y + 1]][types[y + 1]] = f[y + types[y + 1]][types[y + 1]]
      <4>1. ASSUME HasRLEBit(types[y]), ClearRLEBit(types[y]) = T
            PROVE  y + types[y + 1] \in Onward(s) /\ y + types[y + 1] # y /\ types[y + 1] \in Nat
        BY <1>1, <2>1, <2>5, <4>1
      <4> QED BY <1>2, <4>1
    <3> HIDE DEF stuck
    <3> QED BY <2>2, <3>1, <3>2, <3>3, <3>4, Zenon DEF YieldsAt
  <2> QED BY <2>4, <2>5
<1>6. ASSUME NEW x \in Onward(s), NEW a \in Nat, x >= y PROVE g[x][a] = YieldsAt(types, T, end, g, x, a)
  <2>1. CASE x = y
    BY <1>5, <2>1
  <2>2. CASE x # y
    BY <1>1, <1>4, <1>6, <2>2
  <2> QED BY <2>1, <2>2
<1> QED BY <1>3, <1>6 DEF YieldsFrom

\* The equation of getTypedArguments has a solution.
LEMMA YieldsExist ==
  ASSUME NEW types, NEW T, NEW s \in Nat, NEW end \in Nat, s <= end, LengthsTyped(types, s, end)
  PROVE  \E f : IsYields(types, T, s, end, f)
<1> DEFINE bad == {m \in Nat : m <= end - s /\ ~\E f : YieldsFrom(types, T, s, end, f, end - m)}
<1>1. ASSUME bad # {} PROVE FALSE
  <2>1. bad \in SUBSET Nat
    OBVIOUS
  <2> HIDE DEF bad
  <2>2. PICK m \in bad : \A n \in bad : m <= n
    BY <1>1, <2>1, LeastSlot
  <2>3. m \in Nat /\ m <= end - s /\ ~\E f : YieldsFrom(types, T, s, end, f, end - m)
    BY <2>2 DEF bad
  <2>4. CASE m = 0
    <3> DEFINE f == [x \in Onward(s) |-> [a \in Nat |-> {}]]
    <3>1. f = [x \in Onward(s) |-> [a \in Nat |-> f[x][a]]] /\ \A x \in Onward(s), a \in Nat : f[x][a] = {}
      OBVIOUS
    <3>2. \A x \in Onward(s), a \in Nat : x >= end - m => YieldsAt(types, T, end, f, x, a) = {}
      BY <2>4 DEF YieldsAt, Onward
    <3>3. YieldsFrom(types, T, s, end, f, end - m)
      <4> HIDE DEF f
      <4> QED BY <3>1, <3>2 DEF YieldsFrom
    <3> QED BY <2>3, <3>3
  <2>5. CASE m # 0
    <3>1. m - 1 \in Nat /\ m - 1 <= end - s /\ ~(m <= m - 1) /\ end - (m - 1) = (end - m) + 1 /\ end - m \in s .. end - 1
      BY <2>3, <2>5
    <3>2. m - 1 \notin bad
      BY <2>2, <3>1
    <3>3. PICK f : YieldsFrom(types, T, s, end, f, end - (m - 1))
      BY <3>1, <3>2 DEF bad
    <3>4. YieldsFrom(types, T, s, end, f, (end - m) + 1)
      BY <3>1, <3>3
    <3> QED BY <2>3, <3>1, <3>4, YieldsBefore
  <2> QED BY <2>4, <2>5
<1>2. end - s \in Nat /\ end - s <= end - s /\ end - s \notin bad
  <2>1. end - s \in Nat /\ end - s <= end - s
    OBVIOUS
  <2>2. end - s \notin bad
    <3> HIDE DEF bad
    <3> QED BY <1>1
  <2> QED BY <2>1, <2>2
<1>3. PICK f : YieldsFrom(types, T, s, end, f, end - (end - s))
  BY <1>2
<1>4. f = [x \in Onward(s) |-> [a \in Nat |-> f[x][a]]] /\ \A x \in Onward(s), a \in Nat : f[x][a] = YieldsAt(types, T, end, f, x, a)
  <2>1. \A x \in Onward(s) : x >= end - (end - s)
    BY DEF Onward
  <2> QED BY <1>3, <2>1 DEF YieldsFrom
<1>5. f = [x \in Onward(s) |-> [a \in Nat |-> YieldsAt(types, T, end, f, x, a)]]
  BY <1>4
<1> QED BY <1>5 DEF IsYields

\* getTypedArguments is the first value of one.
LEMMA TypedYields ==
  ASSUME NEW T, NEW s \in Nat, NEW e \in Nat, s <= e, LengthsTyped(w.types, s, e)
  PROVE  \E f : /\ getTypedArguments(T, s, e) = f[s][0]
                /\ \A x \in Onward(s), a \in Nat : f[x][a] = YieldsAt(w.types, T, e, f, x, a)
<1> DEFINE f == CHOOSE g : IsYields(w.types, T, s, e, g)
<1>1. IsYields(w.types, T, s, e, f)
  BY YieldsExist
<1>2. getTypedArguments(T, s, e) = f[s][0]
  BY DEF getTypedArguments, IsYields, YieldsAt, Onward
<1> HIDE DEF f
<1>3. f = [x \in Onward(s) |-> [a \in Nat |-> YieldsAt(w.types, T, e, f, x, a)]]
  BY <1>1 DEF IsYields
<1>4. \A x \in Onward(s), a \in Nat : f[x][a] = YieldsAt(w.types, T, e, f, x, a)
  BY <1>3
<1> QED BY <1>2, <1>4

\* The same of the other generator.
AllFrom(types, s, end, f, y) ==
  /\ f = [x \in Onward(s) |-> f[x]]
  /\ \A x \in Onward(s) : x >= y => f[x] = AllAt(types, end, f, x)

\* A solution from the next slot on can be made one from this slot on.
LEMMA AllBefore ==
  ASSUME NEW types, NEW s \in Nat, NEW end \in Nat, s <= end, LengthsTyped(types, s, end), NEW y \in s .. end - 1,
         NEW f, AllFrom(types, s, end, f, y + 1)
  PROVE  \E g : AllFrom(types, s, end, g, y)
<1> DEFINE stuck == HasRLEBit(types[y]) /\ types[y + 1] = 0
           nothing == [once |-> {}, forever |-> {}]
           v == IF stuck THEN nothing ELSE AllAt(types, end, f, y)
           g == [x \in Onward(s) |-> IF x = y THEN v ELSE f[x]]
<1>1. /\ y \in Nat /\ y < end /\ y >= s /\ y \in Onward(s)
      /\ \A x \in Onward(s) : x \in Nat /\ x >= s
      /\ \A n \in Nat : n >= s => n \in Onward(s)
  BY DEF Onward
<1>2. ASSUME NEW x \in Onward(s) PROVE g[x] = IF x = y THEN v ELSE f[x]
  <2> HIDE DEF v
  <2> QED OBVIOUS
<1>3. g = [x \in Onward(s) |-> g[x]]
  <2> HIDE DEF v
  <2> QED OBVIOUS
<1> HIDE DEF g
<1>4. ASSUME NEW x \in Onward(s), x > y PROVE g[x] = AllAt(types, end, g, x)
  <2>1. g[x] = AllAt(types, end, f, x)
    <3>1. x >= y + 1 /\ x # y
      BY <1>1, <1>4
    <3>2. f[x] = AllAt(types, end, f, x)
      BY <3>1 DEF AllFrom
    <3>3. g[x] = IF x = y THEN v ELSE f[x]
      BY <1>2
    <3> HIDE DEF v
    <3> QED BY <3>1, <3>2, <3>3
  <2>2. CASE x >= end
    BY <2>1, <2>2 DEF AllAt
  <2>3. CASE x < end
    <3>1. HasRLEBit(types[x]) => types[x + 1] \in Nat
      BY <1>1, <2>3 DEF LengthsTyped
    <3>2. HasRLEBit(types[x]) => g[x + types[x + 1]] = f[x + types[x + 1]]
      <4>1. ASSUME HasRLEBit(types[x]) PROVE x + types[x + 1] \in Onward(s) /\ x + types[x + 1] # y
        BY <1>1, <1>4, <3>1, <4>1
      <4> QED BY <1>2, <3>1, <4>1
    <3> QED BY <2>1, <3>2, Zenon DEF AllAt
  <2> QED BY <1>1, <2>2, <2>3
<1>5. g[y] = AllAt(types, end, g, y)
  <2>1. HasRLEBit(types[y]) => types[y + 1] \in Nat
    BY DEF LengthsTyped
  <2>2. ~(y >= end)
    BY <1>1
  <2>3. g[y] = v
    BY <1>1, <1>2
  <2>4. CASE stuck
    <3>1. g[y] = nothing /\ y + types[y + 1] = y /\ y .. y - 1 = {}
      BY <1>1, <2>3, <2>4
    <3> DEFINE next == y + types[y + 1]
    <3>2. AllAt(types, end, g, y) = [g[next] EXCEPT !.once = @ \cup (y .. next - 1)]
      BY <2>2, <2>4 DEF AllAt
    <3>3. next = y
      BY <3>1
    <3> HIDE DEF next
    <3>4. AllAt(types, end, g, y) = [nothing EXCEPT !.once = @ \cup {}]
      BY <3>1, <3>2, <3>3
    <3>5. [nothing EXCEPT !.once = @ \cup {}] = nothing
      OBVIOUS
    <3> QED BY <3>1, <3>4, <3>5
  <2>5. CASE ~stuck
    <3>1. g[y] = AllAt(types, end, f, y)
      BY <2>3, <2>5
    <3>2. HasRLEBit(types[y]) => g[y + types[y + 1]] = f[y + types[y + 1]]
      <4>1. ASSUME HasRLEBit(types[y]) PROVE y + types[y + 1] \in Onward(s) /\ y + types[y + 1] # y
        BY <1>1, <2>1, <2>5, <4>1
      <4> QED BY <1>2, <4>1
    <3> HIDE DEF stuck
    <3> QED BY <2>2, <3>1, <3>2, Zenon DEF AllAt
  <2> QED BY <2>4, <2>5
<1>6. ASSUME NEW x \in Onward(s), x >= y PROVE g[x] = AllAt(types, end, g, x)
  <2>1. CASE x = y
    BY <1>5, <2>1
  <2>2. CASE x # y
    BY <1>1, <1>4, <1>6, <2>2
  <2> QED BY <2>1, <2>2
<1> QED BY <1>3, <1>6 DEF AllFrom

\* The equation of getArguments has a solution.
LEMMA AllExist ==
  ASSUME NEW types, NEW s \in Nat, NEW end \in Nat, s <= end, LengthsTyped(types, s, end)
  PROVE  \E f : IsAll(types, s, end, f)
<1> DEFINE bad == {m \in Nat : m <= end - s /\ ~\E f : AllFrom(types, s, end, f, end - m)}
<1>1. ASSUME bad # {} PROVE FALSE
  <2>1. bad \in SUBSET Nat
    OBVIOUS
  <2> HIDE DEF bad
  <2>2. PICK m \in bad : \A n \in bad : m <= n
    BY <1>1, <2>1, LeastSlot
  <2>3. m \in Nat /\ m <= end - s /\ ~\E f : AllFrom(types, s, end, f, end - m)
    BY <2>2 DEF bad
  <2>4. CASE m = 0
    <3> DEFINE f == [x \in Onward(s) |-> [once |-> {}, forever |-> {}]]
    <3>1. f = [x \in Onward(s) |-> f[x]] /\ \A x \in Onward(s) : f[x] = [once |-> {}, forever |-> {}]
      OBVIOUS
    <3>2. \A x \in Onward(s) : x >= end - m => AllAt(types, end, f, x) = [once |-> {}, forever |-> {}]
      BY <2>4 DEF AllAt, Onward
    <3>3. AllFrom(types, s, end, f, end - m)
      <4> HIDE DEF f
      <4> QED BY <3>1, <3>2 DEF AllFrom
    <3> QED BY <2>3, <3>3
  <2>5. CASE m # 0
    <3>1. m - 1 \in Nat /\ m - 1 <= end - s /\ ~(m <= m - 1) /\ end - (m - 1) = (end - m) + 1 /\ end - m \in s .. end - 1
      BY <2>3, <2>5
    <3>2. m - 1 \notin bad
      BY <2>2, <3>1
    <3>3. PICK f : AllFrom(types, s, end, f, end - (m - 1))
      BY <3>1, <3>2 DEF bad
    <3>4. AllFrom(types, s, end, f, (end - m) + 1)
      BY <3>1, <3>3
    <3> QED BY <2>3, <3>1, <3>4, AllBefore
  <2> QED BY <2>4, <2>5
<1>2. end - s \in Nat /\ end - s <= end - s /\ end - s \notin bad
  <2>1. end - s \in Nat /\ end - s <= end - s
    OBVIOUS
  <2>2. end - s \notin bad
    <3> HIDE DEF bad
    <3> QED BY <1>1
  <2> QED BY <2>1, <2>2
<1>3. PICK f : AllFrom(types, s, end, f, end - (end - s))
  BY <1>2
<1>4. f = [x \in Onward(s) |-> f[x]] /\ \A x \in Onward(s) : f[x] = AllAt(types, end, f, x)
  <2>1. \A x \in Onward(s) : x >= end - (end - s)
    BY DEF Onward
  <2> QED BY <1>3, <2>1 DEF AllFrom
<1>5. f = [x \in Onward(s) |-> AllAt(types, end, f, x)]
  BY <1>4
<1> QED BY <1>5 DEF IsAll

\* getArguments is the first value of one.
LEMMA AllYields ==
  ASSUME NEW s \in Nat, NEW e \in Nat, s <= e, LengthsTyped(w.types, s, e)
  PROVE  \E f : /\ getArguments(s, e) = f[s]
                /\ \A x \in Onward(s) : f[x] = AllAt(w.types, e, f, x)
<1> DEFINE f == CHOOSE g : IsAll(w.types, s, e, g)
<1>1. IsAll(w.types, s, e, f)
  BY AllExist
<1>2. getArguments(s, e) = f[s]
  BY DEF getArguments, IsAll, AllAt, Onward
<1> HIDE DEF f
<1>3. f = [x \in Onward(s) |-> AllAt(w.types, e, f, x)]
  BY <1>1 DEF IsAll
<1>4. \A x \in Onward(s) : f[x] = AllAt(w.types, e, f, x)
  BY <1>3
<1> QED BY <1>2, <1>4

\* The slots of type T of a slice, from x on.
TypedFrom(types, s, e, T, x) == {i \in x .. e - 1 : ClearRLEBit(types[RunOf(types, s, e)[i]]) = T}

\* Where a reader that goes from run to run comes to.
Stop(types, s, e, x) == x = e \/ (x \in s .. e - 1 /\ RunOf(types, s, e)[x] = x)

\* From header to header.
LEMMA NextStop ==
  ASSUME NEW types, NEW s, NEW e, NEW run, Encoded(types, s, e, run), NEW x \in s .. e - 1,
         Stop(types, s, e, x)
  PROVE  LET next == x + RunLength(types, x) IN
         /\ next \in x + 1 .. e /\ Stop(types, s, e, next)
         /\ \A i \in x .. next - 1 : RunOf(types, s, e)[i] = x
<1>1. s \in Nat /\ e \in Nat /\ RunOf(types, s, e)[x] = x
  BY DEF Encoded, Stop
<1> DEFINE next == x + RunLength(types, x)
<1>2. /\ next \in x + 1 .. e
      /\ \A i \in x .. next - 1 : RunOf(types, s, e)[i] = x
      /\ next < e => RunOf(types, s, e)[next] = next
  BY <1>1, RunFrom
<1> HIDE DEF next
<1>3. Stop(types, s, e, next)
  BY <1>1, <1>2 DEF Stop
<1> QED BY <1>2, <1>3 DEF next

\* The slots of a type are those of this run and those after it.
LEMMA TypedStep ==
  ASSUME NEW types, NEW s, NEW e, NEW run, Encoded(types, s, e, run), NEW x \in s .. e - 1,
         Stop(types, s, e, x), NEW T
  PROVE  LET next == x + RunLength(types, x) IN
         TypedFrom(types, s, e, T, x)
           = (IF ClearRLEBit(types[x]) = T THEN x .. next - 1 ELSE {}) \cup TypedFrom(types, s, e, T, next)
<1> DEFINE next == x + RunLength(types, x)
           H == RunOf(types, s, e)
<1>1. s \in Nat /\ e \in Nat /\ x \in Nat
  BY DEF Encoded
<1>2. next \in x + 1 .. e /\ \A i \in x .. next - 1 : H[i] = x
  BY NextStop
<1> HIDE DEF next, H
<1>3. x .. e - 1 = (x .. next - 1) \cup (next .. e - 1)
  BY <1>1, <1>2
<1>4. TypedFrom(types, s, e, T, x)
        = {i \in x .. next - 1 : ClearRLEBit(types[H[i]]) = T} \cup TypedFrom(types, s, e, T, next)
  BY <1>3 DEF TypedFrom, H
<1>5. {i \in x .. next - 1 : ClearRLEBit(types[H[i]]) = T} = IF ClearRLEBit(types[x]) = T THEN x .. next - 1 ELSE {}
  BY <1>2
<1> QED BY <1>4, <1>5 DEF next

\* Among runs of its own type only, getTypedArguments yields the slots of it.
LEMMA YieldsTyped ==
  ASSUME NEW types, NEW s, NEW e, NEW run, Encoded(types, s, e, run), NEW T,
         NEW f, \A x \in Onward(s), a \in Nat : f[x][a] = YieldsAt(types, T, e, f, x, a),
         \A i \in s .. e - 1 : RunOf(types, s, e)[i] = i /\ HasRLEBit(types[i]) => ClearRLEBit(types[i]) = T
  PROVE  \A x \in s .. e, a \in Nat : Stop(types, s, e, x) => f[x][a] = TypedFrom(types, s, e, T, x)
<1> DEFINE Wrong(x) == Stop(types, s, e, x) /\ \E a \in Nat : f[x][a] # TypedFrom(types, s, e, T, x)
           bad == {m \in Nat : m <= e - s /\ Wrong(e - m)}
<1>1. s \in Nat /\ e \in Nat /\ s <= e
  BY DEF Encoded
<1>2. ASSUME bad # {} PROVE FALSE
  <2>1. bad \in SUBSET Nat
    OBVIOUS
  <2> HIDE DEF bad
  <2>2. PICK m \in bad : \A n \in bad : m <= n
    BY <1>2, <2>1, LeastSlot
  <2>3. m \in Nat /\ m <= e - s /\ Wrong(e - m)
    BY <2>2 DEF bad
  <2> DEFINE x == e - m
  <2>4. x \in s .. e /\ x \in Nat /\ Stop(types, s, e, x)
    BY <1>1, <2>3
  <2>5. PICK a \in Nat : f[x][a] # TypedFrom(types, s, e, T, x)
    BY <2>3
  <2>6. ASSUME NEW y \in s .. e, y > x PROVE ~Wrong(y)
    <3>1. e - y \in Nat /\ e - y <= e - s /\ ~(m <= e - y) /\ e - (e - y) = y
      BY <1>1, <2>3, <2>6
    <3>2. e - y \notin bad
      BY <2>2, <3>1
    <3> HIDE DEF Wrong
    <3> QED BY <3>1, <3>2 DEF bad
  <2>7. f[x][a] = YieldsAt(types, T, e, f, x, a)
    BY <1>1, <2>4 DEF Onward
  <2> HIDE DEF x
  <2>8. CASE x = e
    <3>1. f[x][a] = {}
      BY <1>1, <2>7, <2>8 DEF YieldsAt
    <3>2. TypedFrom(types, s, e, T, x) = {}
      BY <1>1, <2>8 DEF TypedFrom
    <3> QED BY <2>5, <3>1, <3>2
  <2>9. CASE x # e
    <3> DEFINE next == x + RunLength(types, x)
    <3>1. x \in s .. e - 1 /\ ~(x >= e)
      BY <1>1, <2>4, <2>9
    <3>2. next \in x + 1 .. e /\ Stop(types, s, e, next)
      BY <2>4, <3>1, NextStop
    <3>3. next \in s .. e /\ next > x /\ next \in Nat
      BY <1>1, <3>1, <3>2
    <3>4. \A b \in Nat : f[next][b] = TypedFrom(types, s, e, T, next)
      BY <2>6, <3>2, <3>3
    <3>5. TypedFrom(types, s, e, T, x)
            = (IF ClearRLEBit(types[x]) = T THEN x .. next - 1 ELSE {}) \cup TypedFrom(types, s, e, T, next)
      BY <2>4, <3>1, TypedStep
    <3>6. CASE HasRLEBit(types[x])
      <4>1. RunOf(types, s, e)[x] = x
        BY <2>4, <2>9 DEF Stop
      <4>2. ClearRLEBit(types[x]) = T
        BY <3>1, <3>6, <4>1
      <4>3. RunLength(types, x) = types[x + 1] /\ types[x + 1] \in Nat
        <5>1. RunLength(types, x) = types[x + 1]
          BY <3>6 DEF RunLength
        <5>2. RunLength(types, x) \in Nat
          BY <3>1, <4>1, Covered
        <5> QED BY <5>1, <5>2
      <4>4. f[x][a] = x .. x + types[x + 1] - 1 \cup f[x + types[x + 1]][types[x + 1]]
        BY <2>7, <3>1, <3>6, <4>2 DEF YieldsAt
      <4>5. next = x + types[x + 1]
        BY <4>3
      <4> HIDE DEF next
      <4>7. f[x][a] = (x .. next - 1) \cup f[next][types[x + 1]]
        <5>1. x + types[x + 1] - 1 = next - 1
          BY <2>4, <4>3, <4>5
        <5> QED BY <4>4, <4>5, <5>1
      <4>6. f[next][types[x + 1]] = TypedFrom(types, s, e, T, next)
        BY <3>4, <4>3
      <4> QED BY <2>5, <3>5, <4>2, <4>6, <4>7
    <3>7. CASE ~HasRLEBit(types[x])
      <4>1. next = x + 1 /\ ClearRLEBit(types[x]) = types[x]
        BY <3>7 DEF RunLength, ClearRLEBit
      <4>2. f[x][a] = {i \in {x} : types[x] = T} \cup f[next][a]
        BY <2>7, <3>1, <3>7, <4>1 DEF YieldsAt
      <4>3. {i \in {x} : types[x] = T} = IF types[x] = T THEN x .. next - 1 ELSE {}
        BY <2>4, <4>1
      <4> HIDE DEF next
      <4> QED BY <2>5, <3>4, <3>5, <4>1, <4>2, <4>3
    <3> QED BY <3>6, <3>7
  <2> QED BY <2>8, <2>9
<1>3. ASSUME NEW x \in s .. e, NEW a \in Nat, Stop(types, s, e, x) PROVE f[x][a] = TypedFrom(types, s, e, T, x)
  <2>1. e - x \in Nat /\ e - x <= e - s /\ e - (e - x) = x
    BY <1>1
  <2>2. ~Wrong(x)
    <3> HIDE DEF Wrong
    <3> QED BY <1>2, <2>1
  <2> QED BY <1>3, <2>2
<1> QED BY <1>3

\* The slots outside a run, from x on.
SingleFrom(types, s, e, x) == {i \in x .. e - 1 : ~HasRLEBit(types[RunOf(types, s, e)[i]])}
OnceFrom(types, s, e, x) == {i \in x .. e - 1 : \A k \in SingleFrom(types, s, e, x) : i < k}
ForeverFrom(types, s, e, x) == {k \in SingleFrom(types, s, e, x) : \A i \in SingleFrom(types, s, e, x) : k <= i}

\* What getArguments yields, run by run.
LEMMA AllStep ==
  ASSUME NEW types, NEW s, NEW e, NEW run, Encoded(types, s, e, run), NEW x \in s .. e - 1,
         Stop(types, s, e, x)
  PROVE  LET next == x + RunLength(types, x) IN
         IF HasRLEBit(types[x])
         THEN /\ OnceFrom(types, s, e, x) = OnceFrom(types, s, e, next) \cup (x .. next - 1)
              /\ ForeverFrom(types, s, e, x) = ForeverFrom(types, s, e, next)
         ELSE OnceFrom(types, s, e, x) = {} /\ ForeverFrom(types, s, e, x) = {x}
<1> DEFINE next == x + RunLength(types, x)
           H == RunOf(types, s, e)
           S(y) == SingleFrom(types, s, e, y)
<1>1. s \in Nat /\ e \in Nat /\ x \in Nat
  BY DEF Encoded
<1>2. next \in x + 1 .. e /\ \A i \in x .. next - 1 : H[i] = x
  BY NextStop
<1>3. S(x) \subseteq x .. e - 1 /\ S(next) \subseteq next .. e - 1
  BY DEF SingleFrom
<1> HIDE DEF next, H
<1>4. x .. e - 1 = (x .. next - 1) \cup (next .. e - 1)
  BY <1>1, <1>2
<1>5. CASE HasRLEBit(types[x])
  <2>1. S(x) = S(next)
    BY <1>2, <1>4, <1>5 DEF SingleFrom, H
  <2> HIDE DEF S
  <2>2. OnceFrom(types, s, e, x) = OnceFrom(types, s, e, next) \cup (x .. next - 1)
    <3>1. OnceFrom(types, s, e, x) = {i \in x .. e - 1 : \A k \in S(next) : i < k}
      BY <2>1 DEF OnceFrom, S
    <3>2. OnceFrom(types, s, e, next) = {i \in next .. e - 1 : \A k \in S(next) : i < k}
      BY DEF OnceFrom, S
    <3>3. \A i \in x .. next - 1 : \A k \in S(next) : i < k
      BY <1>1, <1>2, <1>3
    <3> QED BY <1>4, <3>1, <3>2, <3>3
  <2>3. ForeverFrom(types, s, e, x) = ForeverFrom(types, s, e, next)
    BY <2>1 DEF ForeverFrom, S
  <2> QED BY <1>5, <2>2, <2>3 DEF next
<1>6. CASE ~HasRLEBit(types[x])
  <2>1. x \in S(x)
    BY <1>1, <1>2, <1>6 DEF SingleFrom, H
  <2> HIDE DEF S
  <2>2. OnceFrom(types, s, e, x) = {i \in x .. e - 1 : \A k \in S(x) : i < k}
    BY DEF OnceFrom, S
  <2>3. ForeverFrom(types, s, e, x) = {k \in S(x) : \A i \in S(x) : k <= i}
    BY DEF ForeverFrom, S
  <2>4. OnceFrom(types, s, e, x) = {}
    BY <1>1, <2>1, <2>2
  <2>5. \A i \in S(x) : x <= i
    BY <1>1, <1>3
  <2>6. ForeverFrom(types, s, e, x) = {x}
    BY <1>1, <1>3, <2>1, <2>3, <2>5
  <2> QED BY <1>6, <2>4, <2>6
<1> QED BY <1>5, <1>6

\* The runs up to the first slot outside one, and then that slot.
LEMMA YieldsAll ==
  ASSUME NEW types, NEW s, NEW e, NEW run, Encoded(types, s, e, run),
         NEW f, \A x \in Onward(s) : f[x] = AllAt(types, e, f, x)
  PROVE  \A x \in s .. e : Stop(types, s, e, x) =>
           f[x] = [once |-> OnceFrom(types, s, e, x), forever |-> ForeverFrom(types, s, e, x)]
<1> DEFINE Right(x) == f[x] = [once |-> OnceFrom(types, s, e, x), forever |-> ForeverFrom(types, s, e, x)]
           Wrong(x) == Stop(types, s, e, x) /\ ~Right(x)
           bad == {m \in Nat : m <= e - s /\ Wrong(e - m)}
<1>1. s \in Nat /\ e \in Nat /\ s <= e
  BY DEF Encoded
<1>2. ASSUME bad # {} PROVE FALSE
  <2>1. bad \in SUBSET Nat
    OBVIOUS
  <2> HIDE DEF bad
  <2>2. PICK m \in bad : \A n \in bad : m <= n
    BY <1>2, <2>1, LeastSlot
  <2>3. m \in Nat /\ m <= e - s /\ Wrong(e - m)
    BY <2>2 DEF bad
  <2> DEFINE x == e - m
  <2>4. x \in s .. e /\ x \in Nat /\ Stop(types, s, e, x) /\ ~Right(x)
    BY <1>1, <2>3
  <2>5. ASSUME NEW y \in s .. e, y > x PROVE ~Wrong(y)
    <3>1. e - y \in Nat /\ e - y <= e - s /\ ~(m <= e - y) /\ e - (e - y) = y
      BY <1>1, <2>3, <2>5
    <3>2. e - y \notin bad
      BY <2>2, <3>1
    <3> HIDE DEF Wrong
    <3> QED BY <3>1, <3>2 DEF bad
  <2>6. f[x] = AllAt(types, e, f, x)
    BY <1>1, <2>4 DEF Onward
  <2> HIDE DEF x
  <2>7. CASE x = e
    <3>1. f[x] = [once |-> {}, forever |-> {}]
      BY <1>1, <2>6, <2>7 DEF AllAt
    <3>2. OnceFrom(types, s, e, x) = {} /\ ForeverFrom(types, s, e, x) = {}
      BY <1>1, <2>7 DEF OnceFrom, ForeverFrom, SingleFrom
    <3> QED BY <2>4, <3>1, <3>2
  <2>8. CASE x # e
    <3> DEFINE next == x + RunLength(types, x)
    <3>1. x \in s .. e - 1 /\ ~(x >= e)
      BY <1>1, <2>4, <2>8
    <3>2. next \in x + 1 .. e /\ Stop(types, s, e, next)
      BY <2>4, <3>1, NextStop
    <3>3. next \in s .. e /\ next > x
      BY <1>1, <3>1, <3>2
    <3>4. Right(next)
      <4> HIDE DEF Right, next
      <4> QED BY <2>5, <3>2, <3>3
    <3>5. IF HasRLEBit(types[x])
          THEN /\ OnceFrom(types, s, e, x) = OnceFrom(types, s, e, next) \cup (x .. next - 1)
               /\ ForeverFrom(types, s, e, x) = ForeverFrom(types, s, e, next)
          ELSE OnceFrom(types, s, e, x) = {} /\ ForeverFrom(types, s, e, x) = {x}
      BY <2>4, <3>1, AllStep
    <3>6. CASE HasRLEBit(types[x])
      <4>1. next = x + types[x + 1]
        BY <3>6 DEF RunLength
      <4>2. f[x] = [f[x + types[x + 1]] EXCEPT !.once = @ \cup (x .. (x + types[x + 1]) - 1)]
        BY <2>6, <3>1, <3>6 DEF AllAt
      <4>3. f[x] = [f[next] EXCEPT !.once = @ \cup (x .. next - 1)]
        BY <4>1, <4>2
      <4> HIDE DEF next
      <4>4. f[x] = [once |-> OnceFrom(types, s, e, next) \cup (x .. next - 1), forever |-> ForeverFrom(types, s, e, next)]
        <5> DEFINE A == OnceFrom(types, s, e, next)
                   B == ForeverFrom(types, s, e, next)
                   C == x .. next - 1
        <5>1. f[next] = [once |-> A, forever |-> B]
          BY <3>4
        <5>2. f[x] = [[once |-> A, forever |-> B] EXCEPT !.once = @ \cup C]
          BY <4>3, <5>1
        <5> HIDE DEF A, B, C
        <5>3. [[once |-> A, forever |-> B] EXCEPT !.once = @ \cup C] = [once |-> A \cup C, forever |-> B]
          OBVIOUS
        <5>4. f[x] = [once |-> A \cup C, forever |-> B]
          BY <5>2, <5>3
        <5> QED BY <5>4 DEF A, B, C
      <4> QED BY <2>4, <3>5, <3>6, <4>4
    <3>7. CASE ~HasRLEBit(types[x])
      <4>1. f[x] = [once |-> {}, forever |-> {x}]
        BY <2>6, <3>1, <3>7 DEF AllAt
      <4> HIDE DEF next
      <4> QED BY <2>4, <3>5, <3>7, <4>1
    <3> QED BY <3>6, <3>7
  <2> QED BY <2>7, <2>8
<1>3. ASSUME NEW x \in s .. e, Stop(types, s, e, x) PROVE Right(x)
  <2>1. e - x \in Nat /\ e - x <= e - s /\ e - (e - x) = x
    BY <1>1
  <2>2. ~Wrong(x)
    <3> HIDE DEF Wrong
    <3> QED BY <1>2, <2>1
  <2> HIDE DEF Right
  <2> QED BY <1>3, <2>2
<1> QED BY <1>3

\* No reader is led out of the vector by its last slot: the length of a run is
\* never behind it.
LEMMA LastUnflagged ==
  ASSUME NEW types, NEW s, NEW e, NEW run, Encoded(types, s, e, run), NEW x \in s .. e - 1, HasRLEBit(types[x])
  PROVE  x + 1 \in s .. e - 1
<1>1. s \in Nat /\ e \in Nat /\ s <= e
  BY DEF Encoded
<1> DEFINE h == RunOf(types, s, e)[x]
<1>2. /\ h \in s .. x /\ RunLength(types, h) \in Nat /\ x < h + RunLength(types, h)
      /\ h + RunLength(types, h) <= e
  BY Covered
<1>3. HeaderOK(types, e, run, h) /\ run \in Nat
  BY <1>1 DEF Encoded
<1>4. ~HasRLEBit(types[h]) => h = x
  <2>1. ~HasRLEBit(types[h]) => RunLength(types, h) = 1
    BY DEF RunLength
  <2> HIDE DEF h
  <2> QED BY <1>1, <1>2, <2>1
<1>5. HasRLEBit(types[h])
  <2> HIDE DEF h
  <2> QED BY <1>4
<1> HIDE DEF h
<1>6. /\ types[h + 1] \in RLE_MINIMUM_SIZE .. (e - run) - h /\ RunLength(types, h) = types[h + 1]
      /\ BodyOK(types, h) /\ ClearRLEBit(types[h]) \in Plain
  BY <1>3, <1>5 DEF HeaderOK, RunLength
<1>7. CASE x = h
  BY <1>1, <1>2, <1>3, <1>6, <1>7, RunLengthAssumption
<1>8. CASE x = h + 1
  <2>1. types[x] \in Nat /\ types[x] >= 128
    <3>1. types[x] \in Nat
      BY <1>1, <1>2, <1>3, <1>6, <1>8, RunLengthAssumption
    <3>2. \A n \in Nat : HasRLEBit(n) => n >= 128
      BY DEF HasRLEBit, RLE_BIT
    <3> QED BY <3>1, <3>2
  <2> QED BY <1>1, <1>2, <1>3, <1>6, <1>8, <2>1, RunLengthAssumption
<1>9. CASE x # h /\ x # h + 1
  <2>1. x \in h + 2 .. (h + types[h + 1]) - 1
    BY <1>1, <1>2, <1>6, <1>9
  <2>2. types[x] = ClearRLEBit(types[h])
    BY <1>5, <2>1, <1>6 DEF BodyOK
  <2>3. ~HasRLEBit(types[x])
    BY <1>6, <2>2, Bits
  <2> QED BY <2>3
<1> QED BY <1>7, <1>8, <1>9

\* In a finished block the readers meet numbers where they expect lengths.
LEMMA FinishedLengths ==
  ASSUME BlockInv, TreeOK, NEW e \in Finished
  PROVE  /\ StartSlot(e) \in Nat /\ EndSlot(e) \in Nat /\ StartSlot(e) <= EndSlot(e)
         /\ LengthsTyped(w.types, StartSlot(e), EndSlot(e))
<1>1. e \in Expressions \cup {-1} /\ ~w.wild
  BY FinishedEncoded
<1>2. PICK run : Encoded(w.types, StartSlot(e), EndSlot(e), run)
  BY FinishedEncoded
<1>3. StartSlot(e) \in Nat /\ EndSlot(e) \in Nat /\ StartSlot(e) <= EndSlot(e)
  BY <1>2 DEF Encoded
<1>4. \A x \in DOMAIN w.types : w.types[x] \in Nat
  <2>1. w.types \in Vector(Nat)
    BY DEF BlockInv, IInv, PlaceOK, WriterOK, Writer
  <2> QED BY <2>1, VectorOK
<1>5. Slots(e) \subseteq DOMAIN w.types
  <2>1. Apart(w) /\ Slots(e) = SlotsOf(w, e) /\ Expressions \cup {-1} = Ids(w)
    <3>1. Built
      BY DEF Built, Finished
    <3> QED BY <1>1, <3>1, ApartNow, SlotsAgree DEF BlockInv
  <2> QED BY <1>1, <2>1 DEF Apart
<1>6. ASSUME NEW x \in StartSlot(e) .. EndSlot(e) - 1, HasRLEBit(w.types[x]) PROVE w.types[x + 1] \in Nat
  BY <1>2, <1>4, <1>5, <1>6, LastUnflagged DEF Slots
<1> QED BY <1>3, <1>6 DEF LengthsTyped

(***************************************************************************)
(* In every finished block getTypedArguments yields the arguments of its   *)
(* type where there are runs of that type only, and getArguments the       *)
(* arguments up to the first one that is in no run, and then that one for  *)
(* ever.                                                                   *)
(***************************************************************************)
THEOREM LazyReaderReads == Spec => []LazyReaderFinds
<1>1. (CleanRoot => BlockInv /\ TreeOK) => LazyReaderFinds
  <2> SUFFICES ASSUME BlockInv, TreeOK, NEW e \in Finished
               PROVE  LET header == RunOf(w.types, StartSlot(e), EndSlot(e))
                          single == {i \in Slots(e) : ~HasRLEBit(w.types[header[i]])}
                          got    == getArguments(StartSlot(e), EndSlot(e))
                      IN /\ \A T \in {ARGUMENT_TYPE_LONG, ARGUMENT_TYPE_DOUBLE, ARGUMENT_TYPE_EXPRESSION} :
                              RunStarts(e) \subseteq Typed(e, T) =>
                                getTypedArguments(T, StartSlot(e), EndSlot(e)) = Typed(e, T)
                         /\ got.once = {i \in Slots(e) : \A s \in single : i < s}
                         /\ got.forever = {s \in single : \A i \in single : s <= i}
    BY FinishedClean DEF LazyReaderFinds
  <2> DEFINE s == StartSlot(e)
             f == EndSlot(e)
             H == RunOf(w.types, s, f)
  <2>1. s \in Nat /\ f \in Nat /\ s <= f /\ LengthsTyped(w.types, s, f)
    BY FinishedLengths
  <2>2. PICK run : Encoded(w.types, s, f, run)
    BY FinishedEncoded
  <2>3. s \in s .. f /\ Stop(w.types, s, f, s)
    <3>1. s # f => s \in s .. f - 1
      BY <2>1
    <3>2. s \in s .. f - 1 => H[s] = s
      BY <2>1, RunOfAt DEF HeaderAt
    <3> QED BY <2>1, <3>1, <3>2 DEF Stop
  <2>4. ASSUME NEW T, RunStarts(e) \subseteq Typed(e, T)
        PROVE  getTypedArguments(T, s, f) = Typed(e, T)
    <3>1. PICK y : /\ getTypedArguments(T, s, f) = y[s][0]
                   /\ \A x \in Onward(s), a \in Nat : y[x][a] = YieldsAt(w.types, T, f, y, x, a)
      BY <2>1, TypedYields
    <3>2. Typed(e, T) = TypedFrom(w.types, s, f, T, s)
      BY DEF Typed, TypedFrom, ReadTypes, Slots
    <3>3. ASSUME NEW i \in s .. f - 1, RunOf(w.types, s, f)[i] = i, HasRLEBit(w.types[i])
          PROVE  ClearRLEBit(w.types[i]) = T
      <4>1. i \in RunStarts(e)
        BY <3>3 DEF RunStarts, Slots
      <4> QED BY <2>4, <3>2, <3>3, <4>1 DEF TypedFrom
    <3>4. y[s][0] = TypedFrom(w.types, s, f, T, s)
      <4> HIDE DEF s, f
      <4> QED BY <2>2, <2>3, <3>1, <3>3, YieldsTyped
    <3> QED BY <3>1, <3>2, <3>4
  <2>5. PICK y : /\ getArguments(s, f) = y[s]
                 /\ \A x \in Onward(s) : y[x] = AllAt(w.types, f, y, x)
    BY <2>1, AllYields
  <2>6. y[s] = [once |-> OnceFrom(w.types, s, f, s), forever |-> ForeverFrom(w.types, s, f, s)]
    <3> HIDE DEF s, f
    <3> QED BY <2>2, <2>3, <2>5, YieldsAll
  <2>7. {i \in Slots(e) : ~HasRLEBit(w.types[H[i]])} = SingleFrom(w.types, s, f, s)
    BY DEF SingleFrom, Slots
  <2>8. /\ getArguments(s, f).once = {i \in Slots(e) : \A k \in SingleFrom(w.types, s, f, s) : i < k}
        /\ getArguments(s, f).forever
             = {k \in SingleFrom(w.types, s, f, s) : \A i \in SingleFrom(w.types, s, f, s) : k <= i}
    BY <2>5, <2>6 DEF OnceFrom, ForeverFrom, Slots
  <2> HIDE DEF s, f
  <2> QED BY <2>4, <2>7, <2>8 DEF s, f
<1> QED BY <1>1, TreeAlways, PTL
=============================================================================
