------------------------------ MODULE TreeProofs ------------------------------
(***************************************************************************)
(* The block that the second traversal fills, read as a tree: what a       *)
(* sequential reader makes of the slots of one expression (RunOf,          *)
(* ReadTypes), and what a store, the start and the end of an expression do *)
(* to what it makes of every expression.                                   *)
(***************************************************************************)
EXTENDS BlockProofs

(***************************************************************************)
(* Tags and the flag bit.                                                  *)
(***************************************************************************)
Plain == 0 .. RLE_BIT - 1

\* Below the bit a tag is its own; with the bit it is found again.
LEMMA Bits ==
  /\ Plain \subseteq Nat
  /\ \A x \in Plain : /\ ~HasRLEBit(x) /\ ClearRLEBit(x) = x /\ SetRLEBit(x) \in Nat
                      /\ HasRLEBit(SetRLEBit(x)) /\ ClearRLEBit(SetRLEBit(x)) = x
<1>1. Plain \subseteq Nat
  BY DEF Plain, RLE_BIT
<1>2. ASSUME NEW x \in 0 .. 127 PROVE (x \div 128) % 2 = 0 /\ ((x + 128) \div 128) % 2 = 1
  <2>1. x \div 128 = 0 /\ (x + 128) \div 128 = 1
    OBVIOUS
  <2> QED BY <2>1
<1>3. ASSUME NEW x \in Plain
      PROVE  /\ ~HasRLEBit(x) /\ ClearRLEBit(x) = x /\ SetRLEBit(x) \in Nat
             /\ HasRLEBit(SetRLEBit(x)) /\ ClearRLEBit(SetRLEBit(x)) = x
  <2>1. x \in 0 .. 127
    BY DEF Plain, RLE_BIT
  <2>2. (x \div 128) % 2 = 0 /\ ((x + 128) \div 128) % 2 = 1
    BY <1>2, <2>1
  <2>3. ~HasRLEBit(x) /\ HasRLEBit(x + 128)
    BY <2>2 DEF HasRLEBit, RLE_BIT
  <2>4. SetRLEBit(x) = x + 128 /\ ClearRLEBit(x) = x
    BY <2>3 DEF SetRLEBit, ClearRLEBit, RLE_BIT
  <2>5. ClearRLEBit(x + 128) = (x + 128) - 128
    BY <2>3 DEF ClearRLEBit, RLE_BIT
  <2> QED BY <2>1, <2>3, <2>4, <2>5
<1> QED BY <1>1, <1>3

(***************************************************************************)
(* RunOf as the one function that satisfies its recursion.                 *)
(***************************************************************************)
HeaderAt(types, s, H, i) ==
  IF i = s THEN s
  ELSE LET h == H[i - 1] IN IF i < h + RunLength(types, h) THEN h ELSE i
IsRuns(types, s, e, H) == H = [i \in s .. e - 1 |-> HeaderAt(types, s, H, i)]

\* A set of numbers that is not empty has a least one.
LEMMA LeastSlot ==
  ASSUME NEW T \in SUBSET Nat, T # {}
  PROVE  \E x \in T : \A y \in T : x <= y
<1>1. IsWellFoundedOn(OpToRel(<, Nat), Nat)
  BY NatLessThanWellFounded
<1>2. PICK x \in T : \A y \in T : ~(<<y, x>> \in OpToRel(<, Nat))
  BY <1>1, WFMin
<1>3. \A y \in T : ~(y < x)
  BY <1>2 DEF OpToRel
<1> QED BY <1>3

\* The slots of a slice, one slot longer.
LEMMA Slice ==
  ASSUME NEW s \in Nat, NEW n \in Nat
  PROVE  /\ s .. (s + 0) - 1 = {} /\ s .. (s + (n + 1)) - 1 = (s .. (s + n) - 1) \cup {s + n}
         /\ s + n \notin s .. (s + n) - 1
         /\ \A i \in s .. (s + n) - 1 : i # s => i - 1 \in s .. (s + n) - 1
         /\ s + n # s => (s + n) - 1 \in s .. (s + n) - 1
OBVIOUS

\* There is such a function, for a slice of any length.
LEMMA RunsExist ==
  ASSUME NEW types, NEW s \in Nat, NEW n \in Nat
  PROVE  \E H : IsRuns(types, s, s + n, H)
<1> DEFINE bad == {m \in Nat : ~\E H : IsRuns(types, s, s + m, H)}
<1>1. SUFFICES ASSUME bad # {} PROVE FALSE
  OBVIOUS
<1>2. PICK m \in bad : \A y \in bad : m <= y
  <2>1. bad \in SUBSET Nat
    OBVIOUS
  <2> HIDE DEF bad
  <2> QED BY <1>1, <2>1, LeastSlot
<1>3. CASE m = 0
  <2> DEFINE H == [i \in {} |-> 0]
  <2>1. s .. (s + m) - 1 = {}
    BY <1>3, Slice
  <2>2. H = [i \in {} |-> HeaderAt(types, s, H, i)]
    <3> HIDE DEF HeaderAt
    <3> QED OBVIOUS
  <2>3. IsRuns(types, s, s + m, H)
    BY <2>1, <2>2 DEF IsRuns
  <2> QED BY <1>2, <2>3
<1>4. CASE m # 0
  <2> DEFINE k == m - 1
  <2>1. k \in Nat /\ m = k + 1 /\ ~(m <= k)
    BY <1>4
  <2>2. PICK H : IsRuns(types, s, s + k, H)
    BY <1>2, <2>1
  <2> HIDE DEF k, bad
  <2> DEFINE D == s .. (s + k) - 1
             G == [i \in D \cup {s + k} |-> IF i = s + k THEN HeaderAt(types, s, H, i) ELSE H[i]]
  <2>3. /\ s .. (s + m) - 1 = D \cup {s + k} /\ s + k \notin D
        /\ \A i \in D : i # s => i - 1 \in D
        /\ s + k # s => (s + k) - 1 \in D
    BY <2>1, Slice
  <2>4. H = [i \in D |-> HeaderAt(types, s, H, i)]
    BY <2>2 DEF IsRuns
  <2>5. \A i \in D : G[i] = H[i]
    BY <2>3
  <2>6. \A i \in D \cup {s + k} : i # s => G[i - 1] = H[i - 1]
    BY <2>3, <2>5
  <2> HIDE DEF D
  <2>7. \A i \in D \cup {s + k} : HeaderAt(types, s, G, i) = HeaderAt(types, s, H, i)
    <3> HIDE DEF G
    <3> QED BY <2>6 DEF HeaderAt
  <2>8. \A i \in D \cup {s + k} : G[i] = HeaderAt(types, s, H, i)
    <3>1. \A i \in D : H[i] = HeaderAt(types, s, H, i)
      BY <2>4
    <3> QED BY <2>5, <3>1
  <2>9. G = [i \in D \cup {s + k} |-> G[i]]
    OBVIOUS
  <2> HIDE DEF G
  <2>10. \A i \in D \cup {s + k} : G[i] = HeaderAt(types, s, G, i)
    BY <2>7, <2>8
  <2>11. G = [i \in D \cup {s + k} |-> HeaderAt(types, s, G, i)]
    BY <2>9, <2>10
  <2>12. IsRuns(types, s, s + m, G)
    BY <2>3, <2>11 DEF IsRuns
  <2> QED BY <1>2, <2>12 DEF bad
<1> QED BY <1>3, <1>4

\* RunOf is one.
LEMMA RunOfRuns ==
  ASSUME NEW types, NEW s \in Nat, NEW e \in Nat, s <= e
  PROVE  IsRuns(types, s, e, RunOf(types, s, e))
<1> DEFINE n == e - s
<1>1. n \in Nat /\ s + n = e
  OBVIOUS
<1> HIDE DEF n
<1>2. \E H : IsRuns(types, s, e, H)
  BY <1>1, RunsExist
<1>3. RunOf(types, s, e) = CHOOSE H : IsRuns(types, s, e, H)
  BY DEF RunOf, IsRuns, HeaderAt
<1> QED BY <1>2, <1>3

\* There is no other.
LEMMA RunsUnique ==
  ASSUME NEW types, NEW s \in Nat, NEW e \in Nat, NEW G, NEW H,
         IsRuns(types, s, e, G), IsRuns(types, s, e, H)
  PROVE  G = H
<1> DEFINE D == s .. e - 1
           bad == {i \in D : G[i] # H[i]}
<1>1. G = [i \in D |-> HeaderAt(types, s, G, i)] /\ H = [i \in D |-> HeaderAt(types, s, H, i)]
  BY DEF IsRuns
<1>2. G = [i \in D |-> G[i]] /\ H = [i \in D |-> H[i]]
  BY <1>1
<1>3. \A i \in D : G[i] = HeaderAt(types, s, G, i) /\ H[i] = HeaderAt(types, s, H, i)
  BY <1>1
<1>4. ASSUME bad # {} PROVE FALSE
  <2>1. bad \in SUBSET Nat
    OBVIOUS
  <2> HIDE DEF bad
  <2>2. PICK i \in bad : \A y \in bad : i <= y
    BY <1>4, <2>1, LeastSlot
  <2>3. i \in D /\ G[i] # H[i] /\ \A y \in D : G[y] # H[y] => i <= y
    BY <2>2 DEF bad
  <2>4. i # s => i - 1 \in D /\ ~(i <= i - 1)
    BY <2>3
  <2>5. i # s => G[i - 1] = H[i - 1]
    BY <2>3, <2>4
  <2> HIDE DEF D
  <2>6. HeaderAt(types, s, G, i) = HeaderAt(types, s, H, i)
    BY <2>5 DEF HeaderAt
  <2> QED BY <1>3, <2>3, <2>6
<1>5. \A i \in D : G[i] = H[i]
  BY <1>4
<1> QED BY <1>2, <1>5

\* So a function that satisfies the recursion is RunOf.
LEMMA RunOfIs ==
  ASSUME NEW types, NEW s \in Nat, NEW e \in Nat, s <= e, NEW G,
         DOMAIN G = s .. e - 1, G = [i \in DOMAIN G |-> G[i]],
         \A i \in s .. e - 1 : G[i] = HeaderAt(types, s, G, i)
  PROVE  RunOf(types, s, e) = G
<1>1. G = [i \in s .. e - 1 |-> HeaderAt(types, s, G, i)]
  OBVIOUS
<1>2. IsRuns(types, s, e, G)
  BY <1>1 DEF IsRuns
<1>3. IsRuns(types, s, e, RunOf(types, s, e))
  BY RunOfRuns
<1> HIDE DEF IsRuns
<1> QED BY <1>2, <1>3, RunsUnique

\* RunOf, slot by slot; a header is not behind the slot it covers.
LEMMA RunOfAt ==
  ASSUME NEW types, NEW s \in Nat, NEW e \in Nat, s <= e
  PROVE  LET H == RunOf(types, s, e) IN
         /\ DOMAIN H = s .. e - 1 /\ H = [i \in DOMAIN H |-> H[i]]
         /\ \A i \in s .. e - 1 : H[i] = HeaderAt(types, s, H, i) /\ H[i] \in s .. i
<1> DEFINE D == s .. e - 1
           H == RunOf(types, s, e)
           bad == {i \in D : H[i] \notin s .. i}
<1>1. H = [i \in D |-> HeaderAt(types, s, H, i)]
  BY RunOfRuns DEF IsRuns
<1> HIDE DEF H
<1>2. DOMAIN H = D /\ H = [i \in DOMAIN H |-> H[i]] /\ \A i \in D : H[i] = HeaderAt(types, s, H, i)
  BY <1>1
<1>3. ASSUME bad # {} PROVE FALSE
  <2>1. bad \in SUBSET Nat
    OBVIOUS
  <2> HIDE DEF bad
  <2>2. PICK i \in bad : \A y \in bad : i <= y
    BY <1>3, <2>1, LeastSlot
  <2>3. i \in D /\ H[i] \notin s .. i /\ \A y \in D : H[y] \notin s .. y => i <= y
    BY <2>2 DEF bad
  <2>4. i # s
    <3>1. i = s => H[i] = s
      BY <1>2, <2>3 DEF HeaderAt
    <3>2. s \in s .. s
      OBVIOUS
    <3> QED BY <2>3, <3>1, <3>2
  <2>5. i - 1 \in D /\ ~(i <= i - 1)
    BY <2>3, <2>4
  <2>6. H[i - 1] \in s .. i - 1
    BY <2>3, <2>5
  <2>7. H[i] = H[i - 1] \/ H[i] = i
    BY <1>2, <2>3, <2>4 DEF HeaderAt
  <2> QED BY <2>3, <2>6, <2>7
<1>4. \A i \in D : H[i] \in s .. i
  BY <1>3
<1> QED BY <1>2, <1>4 DEF H

\* A header is its own, and the header of all the slots of its run.
LEMMA RunOfHeader ==
  ASSUME NEW types, NEW s \in Nat, NEW e \in Nat, s <= e, NEW i \in s .. e - 1
  PROVE  LET H == RunOf(types, s, e) IN H[H[i]] = H[i]
<1> DEFINE D == s .. e - 1
           H == RunOf(types, s, e)
           bad == {j \in D : H[H[j]] # H[j]}
<1>1. \A j \in D : H[j] = HeaderAt(types, s, H, j) /\ H[j] \in s .. j
  BY RunOfAt
<1> HIDE DEF H
<1>2. ASSUME bad # {} PROVE FALSE
  <2>1. bad \in SUBSET Nat
    OBVIOUS
  <2> HIDE DEF bad
  <2>2. PICK j \in bad : \A y \in bad : j <= y
    BY <1>2, <2>1, LeastSlot
  <2>3. j \in D /\ H[H[j]] # H[j] /\ \A y \in D : H[H[y]] # H[y] => j <= y
    BY <2>2 DEF bad
  <2>4. j # s
    BY <1>1, <2>3 DEF HeaderAt
  <2>5. j - 1 \in D /\ ~(j <= j - 1)
    BY <2>3, <2>4
  <2>6. H[H[j - 1]] = H[j - 1]
    BY <2>3, <2>5
  <2>7. H[j] = H[j - 1] \/ H[j] = j
    BY <1>1, <2>3, <2>4 DEF HeaderAt
  <2> QED BY <2>3, <2>6, <2>7
<1> QED BY <1>2 DEF H

\* A run reaches from its header over its length.
LEMMA RunCovers ==
  ASSUME NEW types, NEW s \in Nat, NEW e \in Nat, s <= e, NEW h \in s .. e - 1, RunOf(types, s, e)[h] = h,
         RunLength(types, h) \in Nat
  PROVE  \A i \in h .. (h + RunLength(types, h)) - 1 : i < e => RunOf(types, s, e)[i] = h
<1> DEFINE D == h .. (h + RunLength(types, h)) - 1
           H == RunOf(types, s, e)
           bad == {j \in D : j < e /\ H[j] # h}
<1>1. \A j \in s .. e - 1 : H[j] = HeaderAt(types, s, H, j)
  BY RunOfAt
<1>2. H[h] = h
  OBVIOUS
<1> HIDE DEF H
<1>3. ASSUME bad # {} PROVE FALSE
  <2>1. bad \in SUBSET Nat
    OBVIOUS
  <2> HIDE DEF bad
  <2>2. PICK j \in bad : \A y \in bad : j <= y
    BY <1>3, <2>1, LeastSlot
  <2>3. j \in D /\ j < e /\ H[j] # h /\ \A y \in D : y < e /\ H[y] # h => j <= y
    BY <2>2 DEF bad
  <2>4. j # h
    BY <1>2, <2>3
  <2>5. j - 1 \in D /\ ~(j <= j - 1) /\ j - 1 < e /\ j \in s .. e - 1 /\ j # s /\ j < h + RunLength(types, h)
    BY <2>3, <2>4
  <2>6. H[j - 1] = h
    BY <2>3, <2>5
  <2> QED BY <1>1, <2>3, <2>5, <2>6 DEF HeaderAt
<1> QED BY <1>3 DEF H

(***************************************************************************)
(* A slice s .. e-1 as the writer leaves it: every header has a plain tag  *)
(* below its bit and its run ends in front of the run that is under way,   *)
(* the last run slots, which hold one plain tag and have no header yet.    *)
(***************************************************************************)
\* The slots behind the length keep the tag.
BodyOK(types, h) ==
  HasRLEBit(types[h]) => \A j \in h + 2 .. (h + types[h + 1]) - 1 : types[j] = ClearRLEBit(types[h])

HeaderOK(types, e, run, h) ==
  /\ types[h] \in Nat /\ ClearRLEBit(types[h]) \in Plain /\ BodyOK(types, h)
  /\ HasRLEBit(types[h]) => types[h + 1] \in RLE_MINIMUM_SIZE .. (e - run) - h

Encoded(types, s, e, run) ==
  /\ s \in Nat /\ e \in Nat /\ s <= e /\ run \in 0 .. e - s
  /\ \A i \in s .. e - 1 : HeaderOK(types, e, run, RunOf(types, s, e)[i])
  /\ \A i \in e - run .. e - 1 :
       RunOf(types, s, e)[i] = i /\ types[i] \in Plain /\ types[i] = types[e - 1]

\* What a header covers, and where the slot after it is.
LEMMA Covered ==
  ASSUME NEW types, NEW s, NEW e, NEW run, Encoded(types, s, e, run), NEW i \in s .. e - 1
  PROVE  LET h == RunOf(types, s, e)[i] IN
         /\ h \in s .. i /\ RunLength(types, h) \in Nat
         /\ i < h + RunLength(types, h) /\ h + RunLength(types, h) <= e
<1> DEFINE H == RunOf(types, s, e)
<1>1. s \in Nat /\ e \in Nat /\ s <= e /\ run \in 0 .. e - s
  BY DEF Encoded
<1>2. H[i] = HeaderAt(types, s, H, i) /\ \A j \in s .. e - 1 : H[j] \in s .. j
  BY <1>1, RunOfAt
<1>3. \A j \in s .. e - 1 : HeaderOK(types, e, run, H[j])
  BY DEF Encoded
<1> HIDE DEF H
<1>4. ASSUME NEW j \in s .. e - 1
      PROVE  /\ RunLength(types, H[j]) \in Nat /\ RunLength(types, H[j]) >= 1
             /\ H[j] + RunLength(types, H[j]) <= e
  <2>1. H[j] \in s .. j /\ HeaderOK(types, e, run, H[j])
    BY <1>2, <1>3
  <2>2. CASE HasRLEBit(types[H[j]])
    <3>1. types[H[j] + 1] \in RLE_MINIMUM_SIZE .. (e - run) - H[j] /\ RunLength(types, H[j]) = types[H[j] + 1]
      BY <2>1, <2>2 DEF HeaderOK, RunLength
    <3> HIDE DEF HeaderOK
    <3> QED BY <1>1, <2>1, <3>1, RunLengthAssumption
  <2>3. CASE ~HasRLEBit(types[H[j]])
    <3>1. RunLength(types, H[j]) = 1
      BY <2>3 DEF RunLength
    <3> QED BY <1>1, <2>1, <3>1
  <2> QED BY <2>2, <2>3
<1>5. i < H[i] + RunLength(types, H[i])
  <2>1. CASE H[i] = i
    BY <1>1, <1>4, <2>1
  <2>2. CASE H[i] # i
    <3>1. i # s
      <4>1. i = s => H[i] = s
        BY <1>2 DEF HeaderAt
      <4> QED BY <2>2, <4>1
    <3>2. H[i] = H[i - 1] /\ i < H[i - 1] + RunLength(types, H[i - 1])
      BY <1>2, <2>2, <3>1 DEF HeaderAt
    <3> QED BY <3>2
  <2> QED BY <2>1, <2>2
<1> QED BY <1>2, <1>4, <1>5 DEF H

\* A slice without slots.
LEMMA EncodedEmpty ==
  ASSUME NEW types, NEW s \in Nat
  PROVE  Encoded(types, s, s, 0)
BY DEF Encoded

\* A run that is forgotten: its slots are single arguments.
LEMMA EncodedForget ==
  ASSUME NEW types, NEW s, NEW e, NEW run, Encoded(types, s, e, run)
  PROVE  Encoded(types, s, e, 0)
<1>1. s \in Nat /\ e \in Nat /\ s <= e /\ run \in 0 .. e - s
  BY DEF Encoded
<1>2. ASSUME NEW i \in s .. e - 1 PROVE HeaderOK(types, e, 0, RunOf(types, s, e)[i])
  <2> DEFINE h == RunOf(types, s, e)[i]
  <2>1. HeaderOK(types, e, run, h)
    BY DEF Encoded
  <2>2. h \in s .. i
    BY <1>1, RunOfAt
  <2> HIDE DEF h
  <2>3. RLE_MINIMUM_SIZE .. (e - run) - h \subseteq RLE_MINIMUM_SIZE .. (e - 0) - h
    BY <1>1, <2>2, RunLengthAssumption
  <2>4. HeaderOK(types, e, 0, h)
    BY <2>1, <2>3 DEF HeaderOK
  <2> QED BY <2>4 DEF h
<1>3. e - 0 .. e - 1 = {} /\ 0 \in 0 .. e - s
  BY <1>1
<1> QED BY <1>1, <1>2, <1>3 DEF Encoded

\* The same without the recursion.
RunsAt(s, e, H) ==
  DOMAIN H = s .. e - 1 /\ H = [i \in s .. e - 1 |-> H[i]] /\ \A i \in s .. e - 1 : H[i] \in s .. i

\* Every slot of a slice has its header at itself or in front of it.
LEMMA RunOfRange ==
  ASSUME NEW types, NEW s \in Nat, NEW e \in Nat, s <= e
  PROVE  RunsAt(s, e, RunOf(types, s, e))
<1> DEFINE H == RunOf(types, s, e)
<1>1. DOMAIN H = s .. e - 1
  BY RunOfAt, ZenonT(30)
<1>2. H = [i \in DOMAIN H |-> H[i]]
  BY RunOfAt
<1>3. \A i \in s .. e - 1 : H[i] \in s .. i
  BY RunOfAt
<1> HIDE DEF H
<1>4. RunsAt(s, e, H)
  BY <1>1, <1>2, <1>3 DEF RunsAt
<1> QED BY <1>4 DEF H

SameSlots(types, other, s, e) == \A i \in s .. e - 1 : other[i] = types[i]

\* The header of a slot depends on the slots up to it only.
LEMMA RunOfPrefix ==
  ASSUME NEW types, NEW other, NEW s \in Nat, NEW m \in Nat, NEW e \in Nat, s <= m, m <= e,
         SameSlots(types, other, s, m)
  PROVE  \A i \in s .. m - 1 : RunOf(other, s, m)[i] = RunOf(types, s, e)[i]
<1> DEFINE D == s .. m - 1
           H == RunOf(types, s, e)
           G == [i \in D |-> H[i]]
<1>1. \A i \in s .. e - 1 : H[i] = HeaderAt(types, s, H, i) /\ H[i] \in s .. i
  BY RunOfAt
<1> HIDE DEF H
<1>2. \A i \in D : i \in s .. e - 1 /\ (i # s => i - 1 \in D /\ i - 1 \in s .. e - 1)
  OBVIOUS
<1>3. ASSUME NEW i \in D PROVE G[i] = HeaderAt(other, s, G, i)
  <2>1. G[i] = H[i] /\ H[i] = HeaderAt(types, s, H, i)
    BY <1>1, <1>2
  <2>2. CASE i = s
    BY <2>1, <2>2 DEF HeaderAt
  <2>3. CASE i # s
    <3> DEFINE h == H[i - 1]
    <3>1. G[i - 1] = h /\ h \in s .. i - 1
      BY <1>1, <1>2, <2>3
    <3>2. h \in D /\ h + 1 \in D
      BY <3>1
    <3> HIDE DEF h, D
    <3>3. RunLength(other, h) = RunLength(types, h)
      BY <3>2 DEF RunLength, D, SameSlots
    <3>4. HeaderAt(types, s, H, i) = IF i < h + RunLength(types, h) THEN h ELSE i
      BY <2>3 DEF HeaderAt, h
    <3> HIDE DEF G
    <3>5. HeaderAt(other, s, G, i) = IF i < h + RunLength(other, h) THEN h ELSE i
      BY <2>3, <3>1 DEF HeaderAt
    <3> QED BY <2>1, <3>3, <3>4, <3>5
  <2> QED BY <2>2, <2>3
<1>4. RunOf(other, s, m) = G
  <2>1. DOMAIN G = s .. m - 1 /\ G = [i \in DOMAIN G |-> G[i]]
    OBVIOUS
  <2> HIDE DEF G
  <2> QED BY <1>3, <2>1, RunOfIs
<1> QED BY <1>4 DEF H

\* The headers of a slice are as they were when its slots are.
LEMMA RunOfSame ==
  ASSUME NEW types, NEW other, NEW s \in Nat, NEW e \in Nat, s <= e,
         SameSlots(types, other, s, e)
  PROVE  RunOf(other, s, e) = RunOf(types, s, e)
<1>1. e <= e
  OBVIOUS
<1>2. \A i \in s .. e - 1 : RunOf(other, s, e)[i] = RunOf(types, s, e)[i]
  BY <1>1, RunOfPrefix
<1>3. RunsAt(s, e, RunOf(types, s, e)) /\ RunsAt(s, e, RunOf(other, s, e))
  BY RunOfRange
<1>4. ASSUME NEW G, NEW H, RunsAt(s, e, G), RunsAt(s, e, H), \A i \in s .. e - 1 : G[i] = H[i]
      PROVE  G = H
  BY <1>4 DEF RunsAt
<1> HIDE DEF RunsAt
<1> QED BY <1>2, <1>3, <1>4

\* A slice is as it was when its slots are.
LEMMA EncodedSame ==
  ASSUME NEW types, NEW other, NEW s, NEW e, NEW run, Encoded(types, s, e, run),
         SameSlots(types, other, s, e)
  PROVE  /\ Encoded(other, s, e, run) /\ RunOf(other, s, e) = RunOf(types, s, e)
         /\ ReadTypes(other, s, e) = ReadTypes(types, s, e)
<1> DEFINE H == RunOf(types, s, e)
           G == RunOf(other, s, e)
<1>1. s \in Nat /\ e \in Nat /\ s <= e /\ run \in 0 .. e - s
  BY DEF Encoded
<1>4. G = H
  <2> HIDE DEF G, H
  <2> QED BY <1>1, RunOfSame DEF G, H
<1>2. RunsAt(s, e, H)
  BY <1>1, RunOfRange
<1> HIDE DEF G, H
<1>3. DOMAIN H = s .. e - 1 /\ H = [i \in DOMAIN H |-> H[i]] /\ \A i \in s .. e - 1 : H[i] \in s .. i
  BY <1>2 DEF RunsAt
<1>5. \A i \in s .. e - 1 : other[H[i]] = types[H[i]]
  BY <1>1, <1>3 DEF SameSlots
<1>6. ReadTypes(other, s, e) = ReadTypes(types, s, e)
  <2>1. ReadTypes(other, s, e) = [i \in s .. e - 1 |-> ClearRLEBit(other[H[i]])]
    BY <1>4 DEF ReadTypes, G
  <2>2. ReadTypes(types, s, e) = [i \in s .. e - 1 |-> ClearRLEBit(types[H[i]])]
    BY DEF ReadTypes, H
  <2> QED BY <1>5, <2>1, <2>2
<1>7. ASSUME NEW i \in s .. e - 1 PROVE HeaderOK(other, e, run, H[i])
  <2>1. HeaderOK(types, e, run, H[i]) /\ other[H[i]] = types[H[i]] /\ H[i] \in s .. i
    BY <1>3, <1>5 DEF Encoded, H
  <2>2. HasRLEBit(types[H[i]]) => other[H[i] + 1] = types[H[i] + 1]
    <3> SUFFICES ASSUME HasRLEBit(types[H[i]]) PROVE other[H[i] + 1] = types[H[i] + 1]
      OBVIOUS
    <3>1. types[H[i] + 1] \in RLE_MINIMUM_SIZE .. (e - run) - H[i]
      BY <2>1 DEF HeaderOK
    <3>2. H[i] + 2 <= e
      BY <1>1, <2>1, <3>1, RunLengthAssumption
    <3>3. H[i] + 1 \in s .. e - 1
      BY <1>1, <2>1, <3>2
    <3> QED BY <3>3 DEF SameSlots
  <2>3. BodyOK(other, H[i])
    <3> DEFINE h == H[i]
    <3> SUFFICES ASSUME HasRLEBit(other[h]), NEW j \in h + 2 .. (h + other[h + 1]) - 1
                 PROVE  other[j] = ClearRLEBit(other[h])
      BY DEF BodyOK
    <3>1. /\ h \in s .. i /\ types[h + 1] \in RLE_MINIMUM_SIZE .. (e - run) - h /\ other[h + 1] = types[h + 1]
          /\ BodyOK(types, h) /\ HasRLEBit(types[h]) /\ other[h] = types[h]
      BY <2>1, <2>2 DEF HeaderOK
    <3> HIDE DEF h
    <3>2. j \in s .. e - 1
      BY <1>1, <3>1, RunLengthAssumption
    <3>3. types[j] = ClearRLEBit(types[h])
      BY <3>1 DEF BodyOK
    <3> QED BY <3>1, <3>2, <3>3 DEF SameSlots
  <2> QED BY <2>1, <2>2, <2>3 DEF HeaderOK
<1>8. ASSUME NEW i \in e - run .. e - 1 PROVE other[i] = types[i] /\ other[e - 1] = types[e - 1]
  <2>1. i \in s .. e - 1 /\ e - 1 \in s .. e - 1
    BY <1>1
  <2> QED BY <2>1 DEF SameSlots
<1> QED BY <1>1, <1>4, <1>6, <1>7, <1>8 DEF Encoded, G, H

(***************************************************************************)
(* One more tag behind a slice, and a run that ends.                       *)
(***************************************************************************)
\* The new slot is a header of its own: no run reaches past the end.
LEMMA RunOfLonger ==
  ASSUME NEW types, NEW s, NEW e, NEW run, Encoded(types, s, e, run)
  PROVE  RunOf(types, s, e + 1) = [i \in s .. e |-> IF i = e THEN e ELSE RunOf(types, s, e)[i]]
<1> DEFINE H == RunOf(types, s, e)
           G == [i \in s .. e |-> IF i = e THEN e ELSE H[i]]
<1>1. s \in Nat /\ e \in Nat /\ s <= e
  BY DEF Encoded
<1>2. \A i \in s .. e - 1 : H[i] = HeaderAt(types, s, H, i)
  BY <1>1, RunOfAt
<1>3. e # s => ~(e < H[e - 1] + RunLength(types, H[e - 1]))
  <2>1. SUFFICES ASSUME e # s PROVE ~(e < H[e - 1] + RunLength(types, H[e - 1]))
    OBVIOUS
  <2>2. e - 1 \in s .. e - 1
    BY <1>1, <2>1
  <2>3. H[e - 1] \in s .. e - 1 /\ RunLength(types, H[e - 1]) \in Nat
        /\ H[e - 1] + RunLength(types, H[e - 1]) <= e
    BY <2>2, Covered
  <2> HIDE DEF H
  <2> QED BY <1>1, <2>3
<1> HIDE DEF H
<1>4. ASSUME NEW i \in s .. e PROVE G[i] = HeaderAt(types, s, G, i)
  <2>1. CASE i = s
    <3>1. G[i] = s
      <4>1. CASE i = e
        BY <2>1, <4>1
      <4>2. CASE i # e
        <5>1. i \in s .. e - 1
          BY <1>1, <4>2
        <5> QED BY <1>2, <2>1, <4>2, <5>1 DEF HeaderAt
      <4> QED BY <4>1, <4>2
    <3> HIDE DEF G
    <3> QED BY <2>1, <3>1 DEF HeaderAt
  <2>2. CASE i # s
    <3>1. i - 1 \in s .. e /\ i - 1 # e
      BY <1>1, <2>2
    <3>2. G[i - 1] = H[i - 1]
      BY <3>1
    <3>3. HeaderAt(types, s, G, i) = HeaderAt(types, s, H, i)
      <4> HIDE DEF G
      <4> QED BY <2>2, <3>2 DEF HeaderAt
    <3>4. CASE i = e
      <4>1. HeaderAt(types, s, H, e) = e
        BY <1>3, <2>2, <3>4 DEF HeaderAt
      <4>2. G[i] = e
        BY <3>4
      <4> QED BY <3>3, <3>4, <4>1, <4>2
    <3>5. CASE i # e
      <4>1. i \in s .. e - 1
        BY <1>1, <3>5
      <4>2. G[i] = H[i]
        BY <3>5
      <4> QED BY <1>2, <3>3, <4>1, <4>2
    <3> QED BY <3>4, <3>5
  <2> QED BY <2>1, <2>2
<1>5. DOMAIN G = s .. e /\ G = [i \in DOMAIN G |-> G[i]]
  OBVIOUS
<1>6. e + 1 \in Nat /\ s <= e + 1 /\ (e + 1) - 1 = e
  BY <1>1
<1>7. RunOf(types, s, e + 1) = G
  <2> HIDE DEF G
  <2>1. DOMAIN G = s .. (e + 1) - 1 /\ \A i \in s .. (e + 1) - 1 : G[i] = HeaderAt(types, s, G, i)
    BY <1>4, <1>5, <1>6
  <2> QED BY <1>1, <1>5, <1>6, <2>1, RunOfIs
<1> QED BY <1>7 DEF H

\* The run after one more tag: broken off, begun again, or one longer.
RunAfter(types, e, run, r) ==
  r = 0 \/ r = 1 \/ (run >= 1 /\ r = run + 1 /\ types[e] = types[e - 1])

\* It is read as it was written, and so are the others.
LEMMA EncodedLonger ==
  ASSUME NEW types, NEW s, NEW e, NEW run, Encoded(types, s, e, run), types[e] \in Plain,
         NEW r, RunAfter(types, e, run, r)
  PROVE  /\ Encoded(types, s, e + 1, r)
         /\ ReadTypes(types, s, e + 1)
              = [i \in s .. e |-> IF i = e THEN types[e] ELSE ReadTypes(types, s, e)[i]]
<1> DEFINE H == RunOf(types, s, e)
           G == RunOf(types, s, e + 1)
<1>1. s \in Nat /\ e \in Nat /\ s <= e /\ run \in 0 .. e - s
  BY DEF Encoded
<1>2. G = [i \in s .. e |-> IF i = e THEN e ELSE H[i]]
  BY RunOfLonger
<1>3. \A i \in s .. e - 1 : HeaderOK(types, e, run, H[i])
  BY DEF Encoded
<1>4. \A i \in e - run .. e - 1 : H[i] = i /\ types[i] \in Plain /\ types[i] = types[e - 1]
  BY DEF Encoded
<1>5. \A i \in s .. e - 1 : H[i] \in s .. i
  <2>1. RunsAt(s, e, H)
    BY <1>1, RunOfRange
  <2> HIDE DEF H
  <2> QED BY <2>1 DEF RunsAt
<1>12. ReadTypes(types, s, e + 1) = [i \in s .. (e + 1) - 1 |-> ClearRLEBit(types[G[i]])]
  BY DEF ReadTypes
<1>13. ReadTypes(types, s, e) = [i \in s .. e - 1 |-> ClearRLEBit(types[H[i]])]
  BY DEF ReadTypes
<1> HIDE DEF H, G
<1>6. (e + 1) - 1 = e /\ e + 1 \in Nat /\ s <= e + 1 /\ e \in s .. e
      /\ \A i \in s .. e : i # e => i \in s .. e - 1
  BY <1>1
<1>7. r \in 0 .. (e + 1) - s /\ e - run <= (e + 1) - r /\ r \in Nat
  BY <1>1 DEF RunAfter
<1>8. ~HasRLEBit(types[e]) /\ ClearRLEBit(types[e]) = types[e] /\ types[e] \in Nat
  BY Bits
<1>9. ASSUME NEW i \in s .. e PROVE HeaderOK(types, e + 1, r, G[i])
  <2>1. CASE i = e
    <3>1. G[i] = e
      BY <1>2, <1>6, <2>1
    <3> QED BY <1>8, <3>1 DEF HeaderOK, BodyOK
  <2>2. CASE i # e
    <3>1. i \in s .. e - 1 /\ G[i] = H[i]
      BY <1>2, <1>6, <2>2
    <3>2. HeaderOK(types, e, run, H[i]) /\ H[i] \in Nat
      BY <1>1, <1>3, <1>5, <3>1
    <3>3. RLE_MINIMUM_SIZE .. (e - run) - H[i] \subseteq RLE_MINIMUM_SIZE .. ((e + 1) - r) - H[i]
      BY <1>1, <1>7, <3>2, RunLengthAssumption
    <3> QED BY <3>1, <3>2, <3>3 DEF HeaderOK
  <2> QED BY <2>1, <2>2
<1>10. ASSUME NEW i \in (e + 1) - r .. e
       PROVE  G[i] = i /\ types[i] \in Plain /\ types[i] = types[e]
  <2>1. CASE i = e
    BY <1>2, <1>6, <2>1
  <2>2. CASE i # e
    <3>1. run >= 1 /\ r = run + 1 /\ types[e] = types[e - 1]
      BY <1>1, <2>2 DEF RunAfter
    <3>2. i \in e - run .. e - 1 /\ i \in s .. e
      BY <1>1, <2>2, <3>1
    <3>3. H[i] = i /\ types[i] \in Plain /\ types[i] = types[e - 1]
      BY <1>4, <3>2
    <3>4. G[i] = H[i]
      BY <1>2, <2>2, <3>2
    <3> QED BY <3>1, <3>3, <3>4
  <2> QED BY <2>1, <2>2
<1>11. Encoded(types, s, e + 1, r)
  BY <1>1, <1>6, <1>7, <1>9, <1>10 DEF Encoded, G
<1>14. ASSUME NEW i \in s .. e
       PROVE  ClearRLEBit(types[G[i]]) = IF i = e THEN types[e] ELSE ReadTypes(types, s, e)[i]
  <2>1. CASE i = e
    BY <1>2, <1>8, <1>6, <2>1
  <2>2. CASE i # e
    <3>1. i \in s .. e - 1 /\ G[i] = H[i]
      BY <1>2, <1>6, <2>2
    <3> QED BY <1>13, <2>2, <3>1
  <2> QED BY <2>1, <2>2
<1>15. ReadTypes(types, s, e + 1)
         = [i \in s .. e |-> IF i = e THEN types[e] ELSE ReadTypes(types, s, e)[i]]
  <2>1. ReadTypes(types, s, e + 1) = [i \in s .. e |-> ClearRLEBit(types[G[i]])]
    BY <1>6, <1>12
  <2> QED BY <1>14, <2>1
<1> QED BY <1>11, <1>15

(***************************************************************************)
(* A run of equal tags is marked: slot q gets the bit, the slot behind it  *)
(* the length, and no other slot changes.                                  *)
(***************************************************************************)
Marks(types, u, s, e, q, size) ==
  /\ u[q] = SetRLEBit(types[q]) /\ u[q + 1] = size
  /\ \A j \in s .. e - 1 : j # q /\ j # q + 1 => u[j] = types[j]

\* Setting the bit and the length of the last run, once it is long enough,
\* ends it without changing how the slice reads.
LEMMA EncodedMarks ==
  ASSUME NEW types, NEW u, NEW s, NEW e, NEW run, Encoded(types, s, e, run),
         NEW q, q = e - run, NEW size \in RLE_MINIMUM_SIZE .. run, Marks(types, u, s, e, q, size)
  PROVE  Encoded(u, s, e, 0) /\ ReadTypes(u, s, e) = ReadTypes(types, s, e)
<1> DEFINE H == RunOf(types, s, e)
           G == [i \in s .. e - 1 |-> IF q <= i /\ i < q + size THEN q ELSE H[i]]
<1>1. s \in Nat /\ e \in Nat /\ s <= e /\ run \in 0 .. e - s
  BY DEF Encoded
<1>2. \A i \in s .. e - 1 : H[i] = HeaderAt(types, s, H, i) /\ H[i] \in s .. i
  BY <1>1, RunOfAt
<1>3. \A i \in s .. e - 1 : HeaderOK(types, e, run, H[i])
  BY DEF Encoded
<1>4. \A i \in q .. e - 1 : H[i] = i /\ types[i] \in Plain /\ types[i] = types[e - 1]
  BY DEF Encoded
<1>5. ReadTypes(types, s, e) = [i \in s .. e - 1 |-> ClearRLEBit(types[H[i]])]
  BY DEF ReadTypes
<1> HIDE DEF H
<1>6. /\ q \in Nat /\ s <= q /\ q + 1 <= e - 1 /\ q + size <= e /\ e - q = run /\ size \in Nat
      /\ size >= 2 /\ run \in Nat
  BY <1>1, RunLengthAssumption
<1>7. types[q] \in Plain
  <2>1. q \in q .. e - 1
    BY <1>1, <1>6
  <2> QED BY <1>4, <2>1
<1>8. HasRLEBit(u[q]) /\ ClearRLEBit(u[q]) = types[q] /\ u[q] \in Nat /\ RunLength(u, q) = size
  <2>1. HasRLEBit(u[q]) /\ ClearRLEBit(u[q]) = types[q] /\ u[q] \in Nat
    BY <1>7, Bits DEF Marks
  <2> QED BY <2>1 DEF RunLength, Marks
<1>9. ASSUME NEW i \in s .. q - 1
      PROVE  LET h == H[i] IN
             /\ h \in s .. i /\ u[h] = types[h] /\ HeaderOK(types, e, run, h)
             /\ HasRLEBit(types[h]) => u[h + 1] = types[h + 1]
             /\ RunLength(u, h) = RunLength(types, h) /\ BodyOK(u, h)
  <2> DEFINE h == H[i]
  <2>1. i \in s .. e - 1
    BY <1>1, <1>6
  <2>2. h \in s .. i /\ HeaderOK(types, e, run, h)
    BY <1>2, <1>3, <2>1
  <2> HIDE DEF h
  <2>3. h \in s .. e - 1 /\ h < q /\ h \in Nat
    BY <1>1, <1>6, <2>2
  <2>4. u[h] = types[h]
    <3>1. h # q /\ h # q + 1
      BY <1>6, <2>3
    <3> QED BY <2>3, <3>1 DEF Marks
  <2>5. ASSUME HasRLEBit(types[h]) PROVE u[h + 1] = types[h + 1]
    <3>1. types[h + 1] \in RLE_MINIMUM_SIZE .. (e - run) - h
      BY <2>2, <2>5 DEF HeaderOK
    <3>2. h + 2 <= q
      BY <1>1, <2>3, <3>1, RunLengthAssumption
    <3>3. h + 1 \in s .. e - 1 /\ h + 1 # q /\ h + 1 # q + 1
      BY <1>1, <1>6, <2>2, <3>2, <2>3
    <3> QED BY <3>3 DEF Marks
  <2>6. RunLength(u, h) = RunLength(types, h)
    BY <2>4, <2>5 DEF RunLength
  <2>7. ASSUME HasRLEBit(u[h]), NEW j \in h + 2 .. (h + u[h + 1]) - 1 PROVE u[j] = ClearRLEBit(u[h])
    <3>1. types[h + 1] \in RLE_MINIMUM_SIZE .. (e - run) - h /\ BodyOK(types, h) /\ HasRLEBit(types[h])
          /\ u[h + 1] = types[h + 1]
      BY <2>2, <2>4, <2>5, <2>7 DEF HeaderOK
    <3>2. j \in s .. e - 1 /\ j # q /\ j # q + 1
      BY <1>1, <1>6, <2>3, <2>7, <3>1, RunLengthAssumption
    <3>3. types[j] = ClearRLEBit(types[h])
      BY <2>7, <3>1 DEF BodyOK
    <3> QED BY <2>4, <3>2, <3>3 DEF Marks
  <2>8. BodyOK(u, h)
    BY <2>7 DEF BodyOK
  <2> QED BY <2>2, <2>4, <2>5, <2>6, <2>8 DEF h
<1>10. ASSUME NEW i \in q + size .. e - 1
       PROVE  H[i] = i /\ u[i] = types[i] /\ types[i] \in Plain /\ RunLength(u, i) = 1
  <2>1. i \in q .. e - 1 /\ i \in s .. e - 1 /\ i # q /\ i # q + 1
    BY <1>1, <1>6
  <2>2. u[i] = types[i] /\ H[i] = i /\ types[i] \in Plain
    BY <1>4, <2>1 DEF Marks
  <2>3. ~HasRLEBit(u[i])
    BY <2>2, Bits
  <2> QED BY <2>2, <2>3 DEF RunLength
<1>11. /\ \A i \in s .. q - 1 : i \in s .. e - 1 /\ G[i] = H[i]
       /\ \A i \in q .. (q + size) - 1 : i \in s .. e - 1 /\ G[i] = q
       /\ \A i \in q + size .. e - 1 : i \in s .. e - 1 /\ G[i] = H[i]
       /\ \A i \in s .. e - 1 : i \in s .. q - 1 \/ i \in q .. (q + size) - 1 \/ i \in q + size .. e - 1
  BY <1>1, <1>6
<1>12. DOMAIN G = s .. e - 1 /\ G = [i \in DOMAIN G |-> G[i]]
  OBVIOUS
<1> HIDE DEF G
<1>13. ASSUME NEW i \in s .. e - 1 PROVE G[i] = HeaderAt(u, s, G, i)
  <2>1. CASE i \in s .. q - 1
    <3>1. CASE i = s
      <4>1. HeaderAt(types, s, H, i) = s /\ HeaderAt(u, s, G, i) = s
        BY <3>1 DEF HeaderAt
      <4> QED BY <1>2, <1>11, <2>1, <4>1
    <3>2. CASE i # s
      <4>1. i - 1 \in s .. q - 1
        BY <1>1, <1>6, <2>1, <3>2
      <4>2. G[i - 1] = H[i - 1] /\ RunLength(u, H[i - 1]) = RunLength(types, H[i - 1])
        BY <1>9, <1>11, <4>1
      <4>3. HeaderAt(u, s, G, i) = HeaderAt(types, s, H, i)
        BY <3>2, <4>2 DEF HeaderAt
      <4> QED BY <1>2, <1>11, <2>1, <4>3
    <3> QED BY <3>1, <3>2
  <2>2. CASE i = q
    <3>1. G[i] = q
      <4>1. i \in q .. (q + size) - 1
        BY <1>6, <2>2
      <4> QED BY <1>11, <4>1
    <3>2. CASE i = s
      BY <2>2, <3>1, <3>2 DEF HeaderAt
    <3>3. CASE i # s
      <4>1. i - 1 \in s .. q - 1
        BY <1>1, <1>6, <2>2, <3>3
      <4> DEFINE h == H[i - 1]
      <4>2. G[i - 1] = h /\ RunLength(u, h) = RunLength(types, h) /\ h \in s .. i - 1
        BY <1>9, <1>11, <4>1
      <4>3. HeaderAt(types, s, H, i) = q
        <5>1. q \in q .. e - 1 /\ q \in s .. e - 1
          BY <1>1, <1>6
        <5> QED BY <1>2, <1>4, <2>2, <5>1
      <4>4. HeaderAt(types, s, H, i) = IF i < h + RunLength(types, h) THEN h ELSE i
        BY <3>3 DEF HeaderAt
      <4> HIDE DEF h
      <4>5. HeaderAt(u, s, G, i) = IF i < h + RunLength(u, h) THEN h ELSE i
        BY <3>3, <4>2 DEF HeaderAt
      <4> QED BY <2>2, <3>1, <4>2, <4>3, <4>4, <4>5
    <3> QED BY <3>2, <3>3
  <2>3. CASE i \in q + 1 .. (q + size) - 1
    <3>1. i # s /\ i \in q .. (q + size) - 1 /\ i - 1 \in q .. (q + size) - 1 /\ i < q + size
      BY <1>1, <1>6, <2>3
    <3>2. G[i] = q /\ G[i - 1] = q
      BY <1>11, <3>1
    <3> QED BY <1>8, <3>1, <3>2 DEF HeaderAt
  <2>4. CASE i = q + size
    <3>1. i # s /\ i - 1 \in q .. (q + size) - 1 /\ ~(i < q + size) /\ i \in q + size .. e - 1
      BY <1>1, <1>6, <2>4
    <3>2. G[i] = i /\ G[i - 1] = q
      BY <1>10, <1>11, <3>1
    <3> QED BY <1>8, <3>1, <3>2 DEF HeaderAt
  <2>5. CASE i \in (q + size) + 1 .. e - 1
    <3>1. i # s /\ i - 1 \in q + size .. e - 1 /\ i \in q + size .. e - 1 /\ ~(i < (i - 1) + 1)
      BY <1>1, <1>6, <2>5
    <3>2. G[i] = i /\ G[i - 1] = i - 1 /\ RunLength(u, i - 1) = 1
      BY <1>10, <1>11, <3>1
    <3> QED BY <3>1, <3>2 DEF HeaderAt
  <2> QED BY <1>6, <1>11, <2>1, <2>2, <2>3, <2>4, <2>5
<1>14. RunOf(u, s, e) = G
  BY <1>1, <1>12, <1>13, RunOfIs
<1>15. ASSUME NEW i \in s .. e - 1
       PROVE  HeaderOK(u, e, 0, G[i]) /\ ClearRLEBit(u[G[i]]) = ClearRLEBit(types[H[i]])
  <2>1. CASE i \in s .. q - 1
    <3> DEFINE h == H[i]
    <3>1. /\ G[i] = h /\ h \in s .. i /\ u[h] = types[h] /\ HeaderOK(types, e, run, h)
          /\ HasRLEBit(types[h]) => u[h + 1] = types[h + 1]
          /\ BodyOK(u, h)
      BY <1>9, <1>11, <2>1
    <3> HIDE DEF h
    <3>2. RLE_MINIMUM_SIZE .. (e - run) - h \subseteq RLE_MINIMUM_SIZE .. (e - 0) - h
      BY <1>1, <3>1, RunLengthAssumption
    <3>3. HeaderOK(u, e, 0, h)
      BY <3>1, <3>2 DEF HeaderOK
    <3> QED BY <3>1, <3>3 DEF h
  <2>2. CASE i \in q .. (q + size) - 1
    <3>1. G[i] = q /\ i \in q .. e - 1
      BY <1>1, <1>6, <1>11, <2>2
    <3>2. H[i] = i /\ types[i] = types[q] /\ types[i] \in Plain
      <4>1. q \in q .. e - 1
        BY <1>1, <1>6
      <4> QED BY <1>4, <3>1, <4>1
    <3>3. size \in RLE_MINIMUM_SIZE .. (e - 0) - q
      BY <1>1, <1>6
    <3>4. ASSUME NEW j \in q + 2 .. (q + size) - 1 PROVE u[j] = types[q]
      <4>1. j \in q .. e - 1 /\ j \in s .. e - 1 /\ j # q /\ j # q + 1 /\ q \in q .. e - 1
        BY <1>1, <1>6
      <4> QED BY <1>4, <4>1 DEF Marks
    <3>5. BodyOK(u, q)
      BY <1>8, <3>4 DEF BodyOK, Marks
    <3>6. HeaderOK(u, e, 0, q)
      BY <1>7, <1>8, <3>3, <3>5 DEF HeaderOK, Marks
    <3>7. ClearRLEBit(types[i]) = types[i]
      BY <3>2, Bits
    <3> QED BY <1>8, <3>1, <3>2, <3>6, <3>7
  <2>3. CASE i \in q + size .. e - 1
    <3>1. G[i] = i /\ H[i] = i /\ u[i] = types[i] /\ types[i] \in Plain
      BY <1>10, <1>11, <2>3
    <3>2. types[i] \in Nat /\ ClearRLEBit(types[i]) = types[i] /\ ~HasRLEBit(types[i])
      BY <3>1, Bits
    <3> QED BY <3>1, <3>2 DEF HeaderOK, BodyOK
  <2> QED BY <1>11, <2>1, <2>2, <2>3
<1>16. ReadTypes(u, s, e) = ReadTypes(types, s, e)
  <2>1. ReadTypes(u, s, e) = [i \in s .. e - 1 |-> ClearRLEBit(u[G[i]])]
    BY <1>14 DEF ReadTypes
  <2> QED BY <1>5, <1>15, <2>1
<1>17. e - 0 .. e - 1 = {} /\ 0 \in 0 .. e - s
  BY <1>1
<1>18. Encoded(u, s, e, 0)
  <2>1. \A i \in s .. e - 1 : HeaderOK(u, e, 0, RunOf(u, s, e)[i])
    BY <1>14, <1>15
  <2> HIDE DEF HeaderOK
  <2> QED BY <1>1, <1>17, <2>1 DEF Encoded
<1> QED BY <1>16, <1>18

\* A number of slots as a uint32_t.
LEMMA Narrowed ==
  ASSUME NEW n \in Nat
  PROVE  n % UINT32_RANGE \in Nat /\ n % UINT32_RANGE <= n
<1>1. UINT32_RANGE \in Nat /\ UINT32_RANGE > 0
  BY RunLengthAssumption
<1>2. n % UINT32_RANGE \in 0 .. UINT32_RANGE - 1
  BY <1>1
<1>3. CASE n < UINT32_RANGE
  BY <1>1, <1>2, <1>3
<1>4. CASE n >= UINT32_RANGE
  BY <1>1, <1>2, <1>4
<1> QED BY <1>1, <1>3, <1>4

\* The run that is under way ends: its slots read as before.
LEMMA EncodedReset ==
  ASSUME NEW types, types = [i \in DOMAIN types |-> types[i]], DOMAIN types \subseteq Nat,
         NEW s, NEW e, NEW run, Encoded(types, s, e, run),
         run >= RLE_MINIMUM_SIZE, s .. e - 1 \subseteq DOMAIN types
  PROVE  LET u == setRLEArgumentFlagOrPropagateTypes(types, e - run, run) IN
         /\ Encoded(u, s, e, 0) /\ ReadTypes(u, s, e) = ReadTypes(types, s, e)
         /\ \A j \in DOMAIN types : j \notin s .. e - 1 => u[j] = types[j]
<1> DEFINE size == run % UINT32_RANGE
           q == e - run
           u == setRLEArgumentFlagOrPropagateTypes(types, q, run)
<1>1. s \in Nat /\ e \in Nat /\ s <= e /\ run \in 0 .. e - s /\ run \in Nat
  BY DEF Encoded
<1>2. size \in Nat /\ size <= run
  BY <1>1, Narrowed
<1>3. q \in Nat /\ s <= q /\ q + run = e /\ q + 1 <= e - 1
  BY <1>1, RunLengthAssumption
<1>4. CASE size < RLE_MINIMUM_SIZE
  <2>1. u = [j \in DOMAIN types |-> IF q < j /\ j < q + size THEN types[q] ELSE types[j]]
    BY <1>4 DEF setRLEArgumentFlagOrPropagateTypes
  <2>2. \A i \in q .. e - 1 : types[i] = types[e - 1]
    BY DEF Encoded
  <2> HIDE DEF size, q
  <2>3. ASSUME NEW j \in DOMAIN types, q < j, j < q + size PROVE types[q] = types[j]
    <3>1. j \in q .. e - 1 /\ q \in q .. e - 1
      BY <1>1, <1>2, <1>3, <2>3
    <3> QED BY <2>2, <3>1
  <2>4. u = types
    BY <2>1, <2>3
  <2> HIDE DEF u
  <2>5. Encoded(types, s, e, 0)
    BY EncodedForget
  <2> QED BY <2>4, <2>5 DEF u, q
<1>5. CASE ~(size < RLE_MINIMUM_SIZE)
  <2>1. u = [[types EXCEPT ![q] = SetRLEBit(@)] EXCEPT ![q + 1] = size]
    BY <1>5 DEF setRLEArgumentFlagOrPropagateTypes
  <2>2. q \in s .. e - 1 /\ q + 1 \in s .. e - 1 /\ q # q + 1
    BY <1>1, <1>3
  <2>3. size \in RLE_MINIMUM_SIZE .. run
    BY <1>1, <1>2, <1>5, RunLengthAssumption
  <2> HIDE DEF size, u
  <2>4. q \in DOMAIN types /\ q + 1 \in DOMAIN types
    BY <2>2
  <2>5. /\ u[q] = SetRLEBit(types[q]) /\ u[q + 1] = size
        /\ \A j \in DOMAIN types : j # q /\ j # q + 1 => u[j] = types[j]
    <3> HIDE DEF q
    <3> QED BY <2>1, <2>2, <2>4
  <2>6. Marks(types, u, s, e, q, size)
    BY <2>5 DEF Marks
  <2>7. Encoded(u, s, e, 0) /\ ReadTypes(u, s, e) = ReadTypes(types, s, e)
    BY <2>3, <2>6, EncodedMarks
  <2>8. \A j \in DOMAIN types : j \notin s .. e - 1 => u[j] = types[j]
    BY <2>2, <2>5
  <2> QED BY <2>7, <2>8 DEF u
<1> QED BY <1>4, <1>5

\* resetTypeRLE on the tags: a run below the minimum is left as it is.
Ended(types, e, run) ==
  IF run >= RLE_MINIMUM_SIZE THEN setRLEArgumentFlagOrPropagateTypes(types, e - run, run) ELSE types

\* So does resetTypeRLE, which leaves a run that is too short as it is; and it
\* touches no other slice.
LEMMA EncodedEnded ==
  ASSUME NEW types, types = [i \in DOMAIN types |-> types[i]], DOMAIN types \subseteq Nat,
         NEW s, NEW e, NEW run, Encoded(types, s, e, run), s .. e - 1 \subseteq DOMAIN types
  PROVE  LET u == Ended(types, e, run) IN
         /\ Encoded(u, s, e, 0) /\ ReadTypes(u, s, e) = ReadTypes(types, s, e)
         /\ \A j \in DOMAIN types : j \notin s .. e - 1 => u[j] = types[j]
<1>1. CASE run >= RLE_MINIMUM_SIZE
  <2>1. Ended(types, e, run) = setRLEArgumentFlagOrPropagateTypes(types, e - run, run)
    BY <1>1 DEF Ended
  <2> QED BY <1>1, <2>1, EncodedReset
<1>2. CASE ~(run >= RLE_MINIMUM_SIZE)
  <2>1. Ended(types, e, run) = types
    BY <1>2 DEF Ended
  <2>2. Encoded(types, s, e, 0)
    BY EncodedForget
  <2> QED BY <2>1, <2>2
<1> QED BY <1>1, <1>2

(***************************************************************************)
(* The tree.  Its nodes are the expressions in the order of their numbers, *)
(* and the path leads from the root to the innermost open one.             *)
(***************************************************************************)

(***************************************************************************)
(* Where the slices of a writer begin and end.                             *)
(***************************************************************************)
\* The expression that the next argument belongs to.
Top(v) == IF v.layer = 0 THEN -1 ELSE v.exprStack[v.layer + 1]

Apart(v) ==
  /\ StackUp(v) /\ \A e \in Ids(v) : SlotsOf(v, e) \subseteq DOMAIN v.types
  /\ \A e, f \in Ids(v) : e # f => SlotsOf(v, e) \cap SlotsOf(v, f) = {}
  /\ \A e \in Ids(v) : e # -1 => e \in DOMAIN v.exprs

\* While a block fills, its slices share no slot.
LEMMA FilledApart ==
  ASSUME NEW k \in Counters, NEW v, NEW n, WriterOK(v), FilledTo(v, k, n)
  PROVE  Apart(v)
<1>1. Used(k, n) \subseteq DOMAIN v.types
  BY UsedIn DEF FilledTo, ShapeOK
<1>2. \A e \in Ids(v) : SlotsOf(v, e) \subseteq Used(k, n)
  BY DEF FilledTo, Sliced
<1>3. \A e \in Ids(v) : e # -1 => e \in DOMAIN v.exprs
  <2>1. v.nextExpr \in Nat /\ k.expressionCount \in Nat /\ DOMAIN v.exprs = 0 .. k.expressionCount - 1
        /\ v.nextExpr <= k.expressionCount
    BY DEF FilledTo, ShapeOK, WriterOK, Writer, Counters
  <2> QED BY <2>1 DEF Ids
<1> QED BY <1>1, <1>2, <1>3 DEF FilledTo, Sliced, Apart

\* The document, an expression on the stack, and one that is closed.
LEMMA Ends ==
  ASSUME NEW v, WriterOK(v), StackUp(v)
  PROVE  /\ StartOf(v, -1) = 0 /\ EndOf(v, -1) = v.argIter[1]
         /\ \A j \in 2 .. v.layer + 1 :
              /\ v.exprStack[j] \in Nat /\ v.exprStack[j] \in DOMAIN v.exprs /\ v.exprStack[j] \in Ids(v)
              /\ v.exprs[v.exprStack[j]].start \in Nat
              /\ StartOf(v, v.exprStack[j]) = v.exprs[v.exprStack[j]].start
              /\ EndOf(v, v.exprStack[j]) = v.exprs[v.exprStack[j]].start + v.argIter[j]
         /\ \A e \in Nat : /\ StartOf(v, e) = v.exprs[e].start
                           /\ (\A j \in 2 .. v.layer + 1 : v.exprStack[j] # e) => EndOf(v, e) = v.exprs[e].end
<1>1. Len(v.exprStack) = v.layer + 1 /\ v.exprStack \in Seq(Nat) /\ v.layer \in Nat /\ v.nextExpr \in Nat
  BY LastOK DEF WriterOK, Writer
<1>2. StartOf(v, -1) = 0 /\ EndOf(v, -1) = v.argIter[1]
  BY DEF StartOf, EndOf
<1>3. ASSUME NEW e \in Nat PROVE StartOf(v, e) = v.exprs[e].start
  BY DEF StartOf
<1>4. ASSUME NEW j \in 2 .. v.layer + 1
      PROVE  /\ v.exprStack[j] \in Nat /\ v.exprStack[j] \in DOMAIN v.exprs /\ v.exprStack[j] \in Ids(v)
             /\ v.exprs[v.exprStack[j]].start \in Nat
             /\ EndOf(v, v.exprStack[j]) = v.exprs[v.exprStack[j]].start + v.argIter[j]
  <2> DEFINE e == v.exprStack[j]
  <2>1. e \in Nat /\ e \in DOMAIN v.exprs /\ v.exprs[e].start \in Nat /\ \A i \in 2 .. v.layer + 1 : v.exprStack[i] \in Nat
    BY SlotsCases
  <2>2. e \in Ids(v)
    <3>1. e < v.nextExpr
      BY DEF StackUp
    <3> HIDE DEF e
    <3> QED BY <1>1, <2>1, <3>1 DEF Ids
  <2>3. OpenIn(v, e) = {j}
    <3>1. ASSUME NEW i \in 2 .. v.layer + 1, v.exprStack[i] = e PROVE i = j
      <4>1. ~(i < j) /\ ~(j < i)
        BY <2>1, <3>1 DEF StackUp
      <4> QED BY <1>1, <4>1
    <3> QED BY <1>1, <3>1 DEF OpenIn
  <2>4. (CHOOSE i \in OpenIn(v, e) : TRUE) = j
    BY <2>3
  <2>5. e # -1 /\ OpenIn(v, e) # {}
    BY <2>1, <2>3
  <2>6. EndOf(v, e) = v.exprs[e].start + v.argIter[j]
    BY <2>4, <2>5 DEF EndOf
  <2> QED BY <2>1, <2>2, <2>6
<1>5. ASSUME NEW e \in Nat, \A j \in 2 .. v.layer + 1 : v.exprStack[j] # e
      PROVE  EndOf(v, e) = v.exprs[e].end
  <2>1. OpenIn(v, e) = {} /\ e # -1
    BY <1>1, <1>5 DEF OpenIn
  <2> QED BY <2>1 DEF EndOf
<1>6. ASSUME NEW j \in 2 .. v.layer + 1 PROVE StartOf(v, v.exprStack[j]) = v.exprs[v.exprStack[j]].start
  BY <1>3, <1>4
<1> QED BY <1>2, <1>3, <1>4, <1>5, <1>6

\* The slice of the innermost open expression ends at its iterator.
LEMMA TopEnds ==
  ASSUME NEW v, WriterOK(v), StackUp(v)
  PROVE  /\ Top(v) \in Ids(v) /\ StartOf(v, Top(v)) \in Nat /\ v.argIter[v.layer + 1] \in Nat
         /\ EndOf(v, Top(v)) = StartOf(v, Top(v)) + v.argIter[v.layer + 1]
         /\ v.layer # 0 => Top(v) = Last(v.exprStack) /\ Top(v) \in DOMAIN v.exprs
         /\ (v.layer = 0 => StartChildOffset(v, Last(v.exprStack)) = 0) => NextArgumentIndex(v) = EndOf(v, Top(v))
<1>1. /\ v.layer \in Nat /\ \A j \in 1 .. v.layer + 1 : v.argIter[j] \in Nat
      /\ Last(v.argIter) = v.argIter[v.layer + 1] /\ Last(v.exprStack) = v.exprStack[v.layer + 1]
  BY ArgIterOK
<1>2. v.layer + 1 \in 1 .. v.layer + 1 /\ (v.layer # 0 => v.layer + 1 \in 2 .. v.layer + 1)
  BY <1>1
<1>3. v.argIter[v.layer + 1] \in Nat
  BY <1>1, <1>2
<1>4. CASE v.layer = 0
  <2>1. Top(v) = -1
    BY <1>4 DEF Top
  <2>2. -1 \in Ids(v)
    BY DEF Ids, WriterOK, Writer
  <2>3. StartOf(v, -1) = 0 /\ EndOf(v, -1) = v.argIter[1] /\ v.layer + 1 = 1
    BY <1>4, Ends
  <2> QED BY <1>1, <1>3, <1>4, <2>1, <2>2, <2>3 DEF NextArgumentIndex
<1>5. CASE v.layer # 0
  <2> DEFINE x == v.exprStack[v.layer + 1]
  <2>1. Top(v) = x
    BY <1>5 DEF Top
  <2>2. /\ x \in DOMAIN v.exprs /\ x \in Ids(v) /\ v.exprs[x].start \in Nat /\ StartOf(v, x) = v.exprs[x].start
        /\ EndOf(v, x) = v.exprs[x].start + v.argIter[v.layer + 1]
    BY <1>2, <1>5, Ends
  <2>3. NextArgumentIndex(v) = v.exprs[x].start + v.argIter[v.layer + 1]
    BY <1>1, <2>2 DEF NextArgumentIndex, StartChildOffset
  <2> QED BY <1>1, <1>3, <1>5, <2>1, <2>2, <2>3
<1> QED BY <1>4, <1>5

\* r has the slices of v, that of T with one more slot.
GrownSlot(v, r, T) ==
  \A e \in Ids(v) : /\ StartOf(r, e) = StartOf(v, e)
                    /\ EndOf(r, e) = IF e = T THEN EndOf(v, e) + 1 ELSE EndOf(v, e)

\* One more argument stored is one slot more of that slice.
LEMMA StoredSlot ==
  ASSUME NEW v, NEW r, WriterOK(v), WriterOK(r), StackUp(v), Stored(v, r)
  PROVE  /\ StackUp(r) /\ Ids(r) = Ids(v) /\ Top(r) = Top(v) /\ GrownSlot(v, r, Top(v))
         /\ r.argIter[r.layer + 1] = v.argIter[v.layer + 1] + 1
<1> DEFINE L == v.layer
<1>1. /\ L \in Nat /\ \A j \in 1 .. L + 1 : v.argIter[j] \in Nat
      /\ Len(v.argIter) = L + 1 /\ v.argIter \in Seq(Nat)
  BY ArgIterOK
<1>2. /\ r.layer = L /\ r.exprStack = v.exprStack /\ r.nextExpr = v.nextExpr /\ r.exprs = v.exprs
      /\ r.argIter = [v.argIter EXCEPT ![L + 1] = @ + 1]
  BY <1>1 DEF Stored, OneStored
<1>3. StackUp(r) /\ Ids(r) = Ids(v) /\ Top(r) = Top(v)
  BY <1>2 DEF StackUp, Ids, Top
<1>4. \A j \in 1 .. L + 1 : r.argIter[j] = IF j = L + 1 THEN v.argIter[j] + 1 ELSE v.argIter[j]
  BY <1>1, <1>2
<1>5. ASSUME NEW e \in Ids(v)
      PROVE  /\ StartOf(r, e) = StartOf(v, e)
             /\ EndOf(r, e) = IF e = Top(v) THEN EndOf(v, e) + 1 ELSE EndOf(v, e)
  <2>1. StartOf(r, e) = StartOf(v, e)
    BY <1>2 DEF StartOf
  <2>2. CASE e = -1
    <3>1. EndOf(r, e) = r.argIter[1] /\ EndOf(v, e) = v.argIter[1] /\ 1 \in 1 .. L + 1
      BY <1>1, <1>3, <2>2, Ends
    <3>2. Top(v) = -1 <=> L = 0
      <4>1. L # 0 => L + 1 \in 2 .. L + 1
        BY <1>1
      <4>2. L # 0 => v.exprStack[L + 1] \in Nat
        BY <4>1, Ends
      <4> QED BY <4>2 DEF Top
    <3> QED BY <1>1, <1>4, <2>1, <2>2, <3>1, <3>2
  <2>3. CASE e # -1 /\ \E j \in 2 .. L + 1 : v.exprStack[j] = e
    <3>1. PICK j \in 2 .. L + 1 : v.exprStack[j] = e
      BY <2>3
    <3>2. EndOf(v, e) = v.exprs[e].start + v.argIter[j] /\ v.exprs[e].start \in Nat
      BY <3>1, Ends
    <3>3. EndOf(r, e) = v.exprs[e].start + r.argIter[j]
      <4>1. j \in 2 .. r.layer + 1 /\ r.exprStack[j] = e
        BY <1>2, <3>1
      <4>2. EndOf(r, e) = r.exprs[e].start + r.argIter[j]
        BY <1>3, <4>1, Ends
      <4> QED BY <1>2, <4>2
    <3>4. e = Top(v) <=> j = L + 1
      <4>1. L # 0 /\ L + 1 \in 2 .. L + 1
        BY <1>1
      <4>2. Top(v) = v.exprStack[L + 1]
        BY <4>1 DEF Top
      <4>3. j # L + 1 => j < L + 1
        BY <1>1
      <4>4. j # L + 1 => v.exprStack[j] < v.exprStack[L + 1]
        BY <4>1, <4>3 DEF StackUp
      <4>5. v.exprStack[j] \in Nat
        BY Ends
      <4> QED BY <3>1, <4>2, <4>4, <4>5
    <3>5. r.argIter[j] = IF j = L + 1 THEN v.argIter[j] + 1 ELSE v.argIter[j]
      <4>1. j \in 1 .. L + 1
        BY <1>1
      <4> HIDE DEF L
      <4> QED BY <1>4, <4>1
    <3>6. v.argIter[j] \in Nat
      BY <1>1
    <3> QED BY <2>1, <3>2, <3>3, <3>4, <3>5, <3>6
  <2>4. CASE e # -1 /\ \A j \in 2 .. L + 1 : v.exprStack[j] # e
    <3>1. e \in Nat
      BY <2>4 DEF Ids
    <3>2. EndOf(v, e) = v.exprs[e].end /\ EndOf(r, e) = v.exprs[e].end
      BY <1>2, <1>3, <2>4, <3>1, Ends
    <3>3. e # Top(v)
      <4>1. L # 0 => L + 1 \in 2 .. L + 1
        BY <1>1
      <4> QED BY <2>4, <4>1 DEF Top
    <3> QED BY <2>1, <3>2, <3>3
  <2> QED BY <2>2, <2>3, <2>4
<1> QED BY <1>1, <1>2, <1>3, <1>4, <1>5 DEF GrownSlot

(***************************************************************************)
(* One more tag in the slice s .. i-1, at slot i.                          *)
(***************************************************************************)
TagAdded(v, r, s, i, tag) ==
  /\ Encoded(r.types, s, i + 1, r.run)
  /\ ReadTypes(r.types, s, i + 1) = [j \in s .. i |-> IF j = i THEN tag ELSE ReadTypes(v.types, s, i)[j]]
  /\ \A j \in DOMAIN v.types : j \notin s .. i => r.types[j] = v.types[j]

RunOff(v) == options.disableRLE => v.run = 0

\* The Type Vector and the run are as the lemmas on runs take them.
LEMMA TypesVector ==
  ASSUME NEW v, WriterOK(v)
  PROVE  /\ v.types \in Vector(Nat) /\ v.types = [j \in DOMAIN v.types |-> v.types[j]]
         /\ DOMAIN v.types \subseteq Nat /\ v.run \in Nat
<1>1. v.types \in Vector(Nat) /\ v.run \in Nat
  BY DEF WriterOK, Writer
<1>2. PICK n \in Nat : v.types \in [0 .. n - 1 -> Nat]
  BY <1>1 DEF Vector
<1> QED BY <1>1, <1>2

\* No more tags, but the run is over.
TagsEnded(v, r, s, i) ==
  /\ Encoded(r.types, s, i, 0) /\ ReadTypes(r.types, s, i) = ReadTypes(v.types, s, i) /\ r.run = 0
  /\ \A j \in DOMAIN v.types : j \notin s .. i - 1 => r.types[j] = v.types[j]

\* resetTypeRLE reads back as before.
LEMMA ResetTags ==
  ASSUME NEW v, WriterOK(v), NEW s, NEW i, Encoded(v.types, s, i, v.run), s .. i - 1 \subseteq DOMAIN v.types
  PROVE  TagsEnded(v, resetTypeRLE(v, i), s, i)
<1> DEFINE r == resetTypeRLE(v, i)
<1>1. v \in Writer
  BY DEF WriterOK
<1>2. r = [v EXCEPT !.types = Ended(v.types, i, v.run), !.run = 0]
  BY <1>1 DEF resetTypeRLE, Ended, Writer
<1> HIDE DEF r
<1>3. r.types = Ended(v.types, i, v.run) /\ r.run = 0
  BY <1>1, <1>2 DEF Writer
<1>4. v.types = [j \in DOMAIN v.types |-> v.types[j]] /\ DOMAIN v.types \subseteq Nat
  BY TypesVector
<1> QED BY <1>3, <1>4, EncodedEnded DEF r, TagsEnded

\* applyTypeRLE, when the tag at slot i is new.
LEMMA ApplyTags ==
  ASSUME NEW v, WriterOK(v), NEW s, NEW i, Encoded(v.types, s, i, v.run), s .. i \subseteq DOMAIN v.types,
         v.types[i] \in Plain, RunOff(v)
  PROVE  TagAdded(v, applyTypeRLE(v, i), s, i, v.types[i]) /\ RunOff(applyTypeRLE(v, i))
<1> DEFINE r == applyTypeRLE(v, i)
           u == resetTypeRLE(v, i)
<1>1. v \in Writer /\ s \in Nat /\ i \in Nat /\ s <= i /\ v.run \in 0 .. i - s
  BY DEF WriterOK, Encoded
<1>2. r = IF options.disableRLE THEN v
          ELSE IF v.run = 0 THEN [v EXCEPT !.run = 1]
          ELSE IF v.types[i - 1] # v.types[i] THEN [u EXCEPT !.run = 1]
          ELSE [v EXCEPT !.run = v.run + 1]
  BY <1>1 DEF applyTypeRLE, Writer
<1> HIDE DEF r
<1>3. ASSUME r.types = v.types, RunAfter(v.types, i, v.run, r.run)
      PROVE  TagAdded(v, r, s, i, v.types[i])
  BY <1>3, EncodedLonger DEF TagAdded
<1>4. CASE options.disableRLE
  <2>1. r = v /\ v.run = 0
    BY <1>2, <1>4 DEF RunOff
  <2> QED BY <1>3, <2>1 DEF RunAfter, RunOff, r
<1>5. CASE ~options.disableRLE /\ v.run = 0
  <2>1. r.types = v.types /\ r.run = 1
    BY <1>1, <1>2, <1>5 DEF Writer
  <2> QED BY <1>3, <1>5, <2>1 DEF RunAfter, RunOff, r
<1>6. CASE ~options.disableRLE /\ v.run # 0 /\ v.types[i - 1] # v.types[i]
  <2>1. s .. i - 1 \subseteq DOMAIN v.types /\ i \in DOMAIN v.types /\ i \notin s .. i - 1
        /\ s .. i - 1 \subseteq s .. i /\ i \in s .. i
    BY <1>1
  <2>2. /\ Encoded(u.types, s, i, 0) /\ ReadTypes(u.types, s, i) = ReadTypes(v.types, s, i)
        /\ \A j \in DOMAIN v.types : j \notin s .. i - 1 => u.types[j] = v.types[j]
    <3>1. TagsEnded(v, u, s, i)
      BY <2>1, ResetTags
    <3> HIDE DEF u
    <3> QED BY <3>1 DEF TagsEnded
  <2>3. u \in Writer
    <3>1. v.run <= i /\ v.run \in Nat
      BY <1>1
    <3> QED BY <1>1, <3>1, ResetOK DEF WriterOK
  <2> HIDE DEF u
  <2>4. r.types = u.types /\ r.run = 1
    BY <1>2, <1>6, <2>3 DEF Writer
  <2>5. u.types[i] = v.types[i]
    BY <2>1, <2>2
  <2>6. RunAfter(u.types, i, 0, 1)
    BY DEF RunAfter
  <2>7. /\ Encoded(u.types, s, i + 1, 1)
        /\ ReadTypes(u.types, s, i + 1) = [j \in s .. i |-> IF j = i THEN u.types[i] ELSE ReadTypes(u.types, s, i)[j]]
    BY <2>2, <2>5, <2>6, EncodedLonger
  <2>8. \A j \in DOMAIN v.types : j \notin s .. i => r.types[j] = v.types[j]
    BY <2>1, <2>2, <2>4
  <2> QED BY <1>6, <2>2, <2>4, <2>5, <2>7, <2>8 DEF TagAdded, RunOff, r
<1>7. CASE ~options.disableRLE /\ v.run # 0 /\ v.types[i - 1] = v.types[i]
  <2>1. r = [v EXCEPT !.run = v.run + 1]
    BY <1>2, <1>7
  <2>2. r.types = v.types /\ r.run = v.run + 1
    BY <1>1, <2>1 DEF Writer
  <2>3. v.run >= 1
    BY <1>1, <1>7
  <2> QED BY <1>3, <1>7, <2>2, <2>3 DEF RunAfter, RunOff, r
<1> QED BY <1>4, <1>5, <1>6, <1>7

PutAt(v, r, s, i, type, value) ==
  /\ WriterOK(r) /\ r.run = v.run /\ r.wild = v.wild /\ r.types[i] = type /\ r.args[i] = value
  /\ r.strings = v.strings /\ DOMAIN r.types = DOMAIN v.types
  /\ \A j \in DOMAIN v.types : j # i => r.types[j] = v.types[j]
  /\ Encoded(r.types, s, i, r.run) /\ ReadTypes(r.types, s, i) = ReadTypes(v.types, s, i)

\* make*Argument on slot i: the slice before it is as it was.
LEMMA PutTags ==
  ASSUME NEW v, WriterOK(v), NEW type \in Plain, NEW value \in Seq(Nat), NEW s, NEW i,
         i = NextArgumentIndex(v), s .. i \subseteq DOMAIN v.types, Encoded(v.types, s, i, v.run)
  PROVE  PutAt(v, PutArgument(v, type, value), s, i, type, value)
<1> DEFINE r == PutArgument(v, type, value)
<1>1. v \in Writer /\ v.types \in Vector(Nat) /\ v.args \in Vector(Seq(Nat)) /\ DOMAIN v.args = DOMAIN v.types
  BY DEF WriterOK, Writer, StacksOK
<1>2. type \in Nat /\ s \in Nat /\ i \in Nat /\ s <= i
  BY Bits DEF Encoded
<1>3. i \in DOMAIN v.types /\ i \notin s .. i - 1 /\ s .. i - 1 \subseteq DOMAIN v.types
  <2>1. i \in s .. i /\ i \notin s .. i - 1 /\ s .. i - 1 \subseteq s .. i
    BY <1>2
  <2> QED BY <2>1
<1>4. r = [v EXCEPT !.types = [v.types EXCEPT ![i] = type], !.args = [v.args EXCEPT ![i] = value],
                    !.argIter = [v.argIter EXCEPT ![Len(v.argIter)] = @ + 1]]
  BY <1>1, <1>3 DEF PutArgument, Writer
<1>5. WriterOK(r) /\ r.run = v.run
  BY <1>2, PutOK
<1> HIDE DEF r
<1>6. /\ r.types = [v.types EXCEPT ![i] = type] /\ r.args = [v.args EXCEPT ![i] = value]
      /\ r.wild = v.wild /\ r.strings = v.strings
  BY <1>1, <1>4 DEF Writer
<1>7. /\ DOMAIN r.types = DOMAIN v.types /\ r.types[i] = type
      /\ \A j \in DOMAIN v.types : j # i => r.types[j] = v.types[j]
  BY <1>1, <1>2, <1>3, <1>6, SetOK
<1>8. r.args[i] = value
  BY <1>1, <1>3, <1>6, SetOK
<1>9. SameSlots(v.types, r.types, s, i)
  BY <1>3, <1>7 DEF SameSlots
<1>10. Encoded(r.types, s, i, v.run) /\ ReadTypes(r.types, s, i) = ReadTypes(v.types, s, i)
  BY <1>9, EncodedSame
<1> QED BY <1>5, <1>6, <1>7, <1>8, <1>10 DEF r, PutAt

\* One more argument: its tag, its value, and no string.
Tagged(v, r, s, i, type, value) ==
  TagAdded(v, r, s, i, type) /\ RunOff(r) /\ r.args[i] = value /\ r.strings = v.strings

\* addLong and addDouble, on the next slot i of the slice from s on.
LEMMA NumberTags ==
  ASSUME NEW v, WriterOK(v), ~v.wild, NEW type \in Plain, NEW value \in Seq(Nat), NEW s, NEW i,
         i = NextArgumentIndex(v), s .. i \subseteq DOMAIN v.types, Encoded(v.types, s, i, v.run), RunOff(v)
  PROVE  Tagged(v, addNumber(v, type, value), s, i, type, value)
<1> DEFINE p == PutArgument(v, type, value)
           r == applyTypeRLE(p, i)
<1>1. /\ WriterOK(p) /\ p.run = v.run /\ p.wild = v.wild /\ p.types[i] = type /\ p.args[i] = value
      /\ p.strings = v.strings /\ DOMAIN p.types = DOMAIN v.types
      /\ \A j \in DOMAIN v.types : j # i => p.types[j] = v.types[j]
      /\ Encoded(p.types, s, i, p.run) /\ ReadTypes(p.types, s, i) = ReadTypes(v.types, s, i)
  <2>1. PutAt(v, p, s, i, type, value)
    BY PutTags
  <2> HIDE DEF p
  <2> QED BY <2>1 DEF PutAt
<1>2. addNumber(v, type, value) = r
  BY <1>1 DEF addNumber
<1>3. s \in Nat /\ i \in Nat /\ i \in s .. i
  BY DEF Encoded
<1> HIDE DEF p
<1>4. RunOff(p)
  BY <1>1 DEF RunOff
<1>5. TagAdded(p, r, s, i, type) /\ RunOff(r)
  <2> HIDE DEF r
  <2> QED BY <1>1, <1>4, ApplyTags DEF r
<1>6. OnlyTypes(p, r)
  <2>1. type \in Nat /\ NextArgumentIndex(v) >= Last(v.argIter) /\ Last(v.argIter) \in Nat
        /\ v.run \in Nat /\ v.run <= Last(v.argIter)
    BY Bits, IndexOK, LastOK
  <2>2. Last(p.argIter) = Last(v.argIter) + 1
    BY <1>1, <2>1, PutOK DEF p
  <2>3. p.run + 1 <= Last(p.argIter) /\ p.run <= i
    BY <1>1, <1>3, <2>1, <2>2
  <2> QED BY <1>1, <1>3, <2>3, ApplyOK
<1> HIDE DEF r
<1>7. r.args[i] = value /\ r.strings = v.strings
  BY <1>1, <1>6 DEF OnlyTypes
<1>8. TagAdded(v, r, s, i, type)
  <2>1. \A j \in DOMAIN v.types : j \notin s .. i => r.types[j] = v.types[j]
    BY <1>1, <1>3, <1>5 DEF TagAdded
  <2> QED BY <1>1, <1>5, <2>1 DEF TagAdded
<1> QED BY <1>2, <1>5, <1>7, <1>8 DEF Tagged

\* An argument whose tag ends the run before it.
LEMMA EndedTags ==
  ASSUME NEW v, WriterOK(v), NEW type \in Plain, NEW value \in Seq(Nat), NEW s, NEW i,
         i = NextArgumentIndex(v), s .. i \subseteq DOMAIN v.types, Encoded(v.types, s, i, v.run)
  PROVE  LET p == PutArgument(v, type, value)
             r == resetTypeRLE(p, i)
         IN /\ p.wild = v.wild /\ TagAdded(v, r, s, i, type) /\ r.run = 0
            /\ r.args[i] = value /\ r.strings = v.strings
<1> DEFINE p == PutArgument(v, type, value)
           r == resetTypeRLE(p, i)
<1>1. /\ WriterOK(p) /\ p.run = v.run /\ p.wild = v.wild /\ p.types[i] = type /\ p.args[i] = value
      /\ p.strings = v.strings /\ DOMAIN p.types = DOMAIN v.types
      /\ \A j \in DOMAIN v.types : j # i => p.types[j] = v.types[j]
      /\ Encoded(p.types, s, i, p.run) /\ ReadTypes(p.types, s, i) = ReadTypes(v.types, s, i)
  <2>1. PutAt(v, p, s, i, type, value)
    BY PutTags
  <2> HIDE DEF p
  <2> QED BY <2>1 DEF PutAt
<1> HIDE DEF p
<1>3. s \in Nat /\ i \in Nat /\ i \in s .. i /\ s .. i - 1 \subseteq s .. i /\ i \notin s .. i - 1
      /\ p.run \in Nat /\ p.run <= i
  BY <1>1 DEF Encoded
<1>4. s .. i - 1 \subseteq DOMAIN p.types
  BY <1>1, <1>3
<1>5. /\ Encoded(r.types, s, i, 0) /\ ReadTypes(r.types, s, i) = ReadTypes(p.types, s, i) /\ r.run = 0
      /\ \A j \in DOMAIN p.types : j \notin s .. i - 1 => r.types[j] = p.types[j]
  <2>1. Encoded(p.types, s, i, p.run) /\ WriterOK(p)
    BY <1>1
  <2>2. TagsEnded(p, r, s, i)
    BY <1>4, <2>1, ResetTags
  <2> HIDE DEF r
  <2> QED BY <2>2 DEF TagsEnded
<1>6. OnlyTypes(p, r)
  BY <1>1, <1>3, ResetOK
<1> HIDE DEF r
<1>7. r.types[i] = type
  BY <1>1, <1>3, <1>5
<1>8. RunAfter(r.types, i, 0, 0)
  BY DEF RunAfter
<1>9. /\ Encoded(r.types, s, i + 1, 0)
      /\ ReadTypes(r.types, s, i + 1) = [j \in s .. i |-> IF j = i THEN type ELSE ReadTypes(v.types, s, i)[j]]
  BY <1>1, <1>5, <1>7, <1>8, EncodedLonger
<1>10. \A j \in DOMAIN v.types : j \notin s .. i => r.types[j] = v.types[j]
  BY <1>1, <1>3, <1>5
<1>11. TagAdded(v, r, s, i, type)
  BY <1>5, <1>9, <1>10 DEF TagAdded
<1>12. r.args[i] = value /\ r.strings = v.strings
  BY <1>1, <1>6 DEF OnlyTypes
<1> QED BY <1>1, <1>5, <1>11, <1>12 DEF p, r

\* addExpression is one.
LEMMA ExpressionTags ==
  ASSUME NEW v, WriterOK(v), ~v.wild, NEW e \in Nat, NEW s, NEW i,
         i = NextArgumentIndex(v), s .. i \subseteq DOMAIN v.types, Encoded(v.types, s, i, v.run)
  PROVE  Tagged(v, addExpression(v, e), s, i, ARGUMENT_TYPE_EXPRESSION, <<e>>) /\ addExpression(v, e).run = 0
<1> DEFINE p == PutArgument(v, ARGUMENT_TYPE_EXPRESSION, <<e>>)
           r == resetTypeRLE(p, i)
<1>1. ARGUMENT_TYPE_EXPRESSION \in Plain /\ <<e>> \in Seq(Nat)
  BY DEF Plain, RLE_BIT, ARGUMENT_TYPE_EXPRESSION
<1>2. /\ p.wild = v.wild /\ TagAdded(v, r, s, i, ARGUMENT_TYPE_EXPRESSION) /\ r.run = 0
      /\ r.args[i] = <<e>> /\ r.strings = v.strings
  <2> DEFINE type == ARGUMENT_TYPE_EXPRESSION
             value == <<e>>
  <2>1. type \in Plain /\ value \in Seq(Nat)
    BY <1>1
  <2> HIDE DEF type, value
  <2>2. LET q == PutArgument(v, type, value)
            t == resetTypeRLE(q, i)
        IN /\ q.wild = v.wild /\ TagAdded(v, t, s, i, type) /\ t.run = 0
           /\ t.args[i] = value /\ t.strings = v.strings
    BY <2>1, EndedTags
  <2> QED BY <2>2 DEF type, value
<1>3. addExpression(v, e) = r
  <2> HIDE DEF r
  <2> QED BY <1>2 DEF addExpression, r
<1>4. RunOff(r)
  BY <1>2 DEF RunOff
<1> QED BY <1>2, <1>3, <1>4 DEF Tagged

(***************************************************************************)
(* Sequences given as functions.                                           *)
(***************************************************************************)
Sequence(s, n) == n \in Nat /\ s = [k \in 1 .. n |-> s[k]]

\* A sequence, and its last element.
LEMMA SequenceLast ==
  ASSUME NEW s, NEW n, Sequence(s, n)
  PROVE  s \in Seq({s[k] : k \in 1 .. n}) /\ Len(s) = n /\ (n > 0 => Last(s) = s[n])
<1> DEFINE V == {s[k] : k \in 1 .. n}
<1>1. n \in Nat /\ s = [k \in 1 .. n |-> s[k]]
  BY DEF Sequence
<1>2. s \in [1 .. n -> V]
  BY <1>1
<1> HIDE DEF V
<1>3. s \in Seq(V) /\ Len(s) = n
  BY <1>1, <1>2
<1> QED BY <1>3 DEF V, Last

\* A sequence that is one longer and otherwise the same is that of Append.
LEMMA SequenceGrows ==
  ASSUME NEW s, NEW n, Sequence(s, n), NEW r, Sequence(r, n + 1), \A k \in 1 .. n : r[k] = s[k]
  PROVE  r = Append(s, r[n + 1])
<1> DEFINE V == {s[k] : k \in 1 .. n}
           W == V \cup {r[n + 1]}
<1>1. n \in Nat /\ r = [k \in 1 .. n + 1 |-> r[k]]
  BY DEF Sequence
<1>2. s \in Seq(V) /\ Len(s) = n
  BY SequenceLast
<1>3. V \subseteq W /\ r[n + 1] \in W
  OBVIOUS
<1> HIDE DEF V, W
<1>4. s \in Seq(W)
  BY <1>2, <1>3
<1> DEFINE a == Append(s, r[n + 1])
<1>5. a \in Seq(W) /\ Len(a) = n + 1 /\ \A k \in 1 .. n + 1 : a[k] = IF k = n + 1 THEN r[n + 1] ELSE s[k]
  BY <1>1, <1>2, <1>3, <1>4
<1> HIDE DEF a
<1>6. a = [k \in 1 .. n + 1 |-> a[k]]
  BY <1>1, <1>5
<1>7. \A k \in 1 .. n + 1 : a[k] = r[k]
  <2> TAKE k \in 1 .. n + 1
  <2>1. k = n + 1 \/ k \in 1 .. n
    BY <1>1
  <2> QED BY <1>5, <2>1
<1> QED BY <1>1, <1>6, <1>7 DEF a

\* One that is shorter by one is that of Front.
LEMMA SequenceFront ==
  ASSUME NEW s, NEW n, Sequence(s, n + 1), n \in Nat, NEW r, Sequence(r, n), \A k \in 1 .. n : r[k] = s[k]
  PROVE  r = Front(s)
<1>1. s \in Seq({s[k] : k \in 1 .. n + 1}) /\ Len(s) = n + 1
  BY SequenceLast
<1>2. Front(s) = [k \in 1 .. n |-> s[k]]
  BY <1>1 DEF Front
<1> QED BY <1>2 DEF Sequence

\* A sequence with an element in front.
LEMMA SequenceHeaded ==
  ASSUME NEW x, NEW s, NEW n, Sequence(s, n)
  PROVE  <<x>> \o s = [k \in 1 .. n + 1 |-> IF k = 1 THEN x ELSE s[k - 1]]
<1> DEFINE V == {s[k] : k \in 1 .. n}
           W == V \cup {x}
           t == <<x>> \o s
<1>1. n \in Nat /\ s \in Seq(V) /\ Len(s) = n
  BY SequenceLast DEF Sequence
<1>2. V \subseteq W /\ x \in W
  OBVIOUS
<1> HIDE DEF V, W
<1>3. s \in Seq(W) /\ <<x>> \in Seq(W) /\ Len(<<x>>) = 1
  BY <1>1, <1>2
<1>4. t \in Seq(W) /\ Len(t) = n + 1
  BY <1>1, <1>3
<1>5. \A k \in 1 .. n + 1 : t[k] = IF k = 1 THEN x ELSE s[k - 1]
  BY <1>1, <1>3
<1> HIDE DEF t
<1>6. t = [k \in 1 .. n + 1 |-> t[k]]
  BY <1>1, <1>4
<1> QED BY <1>5, <1>6 DEF t

(***************************************************************************)
(* The tree that a reader makes of a writer's block, as LoadedTree has it. *)
(***************************************************************************)
ReadsOf(v, e) == ReadTypes(v.types, StartOf(v, e), EndOf(v, e))

Texted == {ARGUMENT_TYPE_STRING, ARGUMENT_TYPE_SYMBOL}
TextOf(v, value) == value # <<>> /\ value[1] < Len(v.strings)
TextsOf(v, e) == \A i \in SlotsOf(v, e) : ReadsOf(v, e)[i] \in Texted => TextOf(v, v.args[i])

ArgumentOf(v, tag, value) ==
  [type |-> TypeName(tag),
   value |-> CASE TypeName(tag) \in {"Long", "Double"}   -> [text |-> "number", at |-> value]
               [] TypeName(tag) \in {"String", "Symbol"} -> v.strings[value[1] + 1]
               [] OTHER -> [text |-> "node", at |-> <<value[1] + 2>>]]
KidAt(v, e, i) == ArgumentOf(v, ReadsOf(v, e)[i], v.args[i])
KidsOf(v, e) == [k \in 1 .. EndOf(v, e) - StartOf(v, e) |-> KidAt(v, e, StartOf(v, e) + k - 1)]

\* The strings of v, and perhaps more.
Kept(v, r) == Len(v.strings) <= Len(r.strings) /\ \A n \in 1 .. Len(v.strings) : r.strings[n] = v.strings[n]

\* What an argument says does not change while the String Buffer grows.
LEMMA ArgumentStays ==
  ASSUME NEW v, NEW r, v.strings \in Seq(String), r.strings \in Seq(String), Kept(v, r),
         NEW tag, NEW value \in Seq(Nat), tag \in Texted => TextOf(v, value)
  PROVE  ArgumentOf(r, tag, value) = ArgumentOf(v, tag, value) /\ (tag \in Texted => TextOf(r, value))
<1>1. Len(v.strings) \in Nat /\ Len(r.strings) \in Nat
  OBVIOUS
<1>2. TypeName(tag) \in {"String", "Symbol"} => tag \in Texted
  BY DEF TypeName, Texted
<1>3. ASSUME tag \in Texted PROVE r.strings[value[1] + 1] = v.strings[value[1] + 1] /\ TextOf(r, value)
  <2>1. value # <<>> /\ value[1] < Len(v.strings)
    BY <1>3 DEF TextOf
  <2>2. value[1] \in Nat
    <3>1. Len(value) > 0
      BY <2>1, EmptySeq
    <3> QED BY <3>1
  <2>3. value[1] + 1 \in 1 .. Len(v.strings) /\ value[1] < Len(r.strings)
    BY <1>1, <2>1, <2>2 DEF Kept
  <2> QED BY <2>1, <2>3 DEF Kept, TextOf
<1>4. CASE TypeName(tag) \in {"String", "Symbol"}
  <2>1. r.strings[value[1] + 1] = v.strings[value[1] + 1]
    BY <1>2, <1>3, <1>4
  <2> QED BY <1>3, <2>1 DEF ArgumentOf
<1>5. CASE TypeName(tag) \notin {"String", "Symbol"}
  <2>1. ArgumentOf(r, tag, value) = ArgumentOf(v, tag, value)
    BY <1>5 DEF ArgumentOf
  <2> QED BY <1>3, <2>1
<1> QED BY <1>4, <1>5

\* Slot i of expression e is read from r as it is from v.
SameKid(v, r, e, i) == ReadsOf(r, e)[i] = ReadsOf(v, e)[i] /\ r.args[i] = v.args[i]
SameSlice(v, r, e) ==
  /\ StartOf(r, e) = StartOf(v, e) /\ EndOf(r, e) = EndOf(v, e)
  /\ \A i \in SlotsOf(v, e) : SameKid(v, r, e, i)
GrownSlice(v, r, e, tag, value) ==
  /\ StartOf(r, e) = StartOf(v, e) /\ EndOf(r, e) = EndOf(v, e) + 1
  /\ \A i \in SlotsOf(v, e) : SameKid(v, r, e, i)
  /\ ReadsOf(r, e)[EndOf(v, e)] = tag /\ r.args[EndOf(v, e)] = value

\* A slice with numbers for its ends.
Bounded(v, e) ==
  StartOf(v, e) \in Nat /\ EndOf(v, e) \in Nat /\ StartOf(v, e) <= EndOf(v, e) /\ SlotsOf(v, e) \subseteq DOMAIN v.types

\* An argument whose slot and tag are left alone says what it said.
LEMMA KidStays ==
  ASSUME NEW v, NEW r, WriterOK(v), WriterOK(r), Kept(v, r), NEW e, Bounded(v, e), TextsOf(v, e),
         NEW i \in SlotsOf(v, e), SameKid(v, r, e, i)
  PROVE  KidAt(r, e, i) = KidAt(v, e, i) /\ (ReadsOf(r, e)[i] \in Texted => TextOf(r, r.args[i]))
<1> DEFINE tag == ReadsOf(v, e)[i]
           value == v.args[i]
<1>1. v.strings \in Seq(String) /\ r.strings \in Seq(String) /\ v.args \in Vector(Seq(Nat)) /\ DOMAIN v.args = DOMAIN v.types
  BY DEF WriterOK, Writer, StacksOK
<1>2. value \in Seq(Nat)
  BY <1>1, VectorOK DEF Bounded
<1>3. tag \in Texted => TextOf(v, value)
  BY DEF TextsOf
<1>4. ReadsOf(r, e)[i] = tag /\ r.args[i] = value
  BY DEF SameKid
<1>5. KidAt(v, e, i) = ArgumentOf(v, tag, value)
  BY DEF KidAt
<1> HIDE DEF tag, value
<1>6. KidAt(r, e, i) = ArgumentOf(r, tag, value)
  BY <1>4 DEF KidAt
<1>7. ArgumentOf(r, tag, value) = ArgumentOf(v, tag, value) /\ (tag \in Texted => TextOf(r, value))
  BY <1>1, <1>2, <1>3, ArgumentStays
<1> QED BY <1>4, <1>5, <1>6, <1>7

\* Kids by their places and kids by their slots.
LEMMA KidPlaces ==
  ASSUME NEW v, NEW e, Bounded(v, e)
  PROVE  LET n == EndOf(v, e) - StartOf(v, e) IN
         /\ n \in Nat /\ Sequence(KidsOf(v, e), n)
         /\ \A k \in 1 .. n : /\ StartOf(v, e) + k - 1 \in SlotsOf(v, e)
                              /\ KidsOf(v, e)[k] = KidAt(v, e, StartOf(v, e) + k - 1)
<1> DEFINE s == StartOf(v, e)
           n == EndOf(v, e) - s
<1>1. s \in Nat /\ EndOf(v, e) \in Nat /\ s <= EndOf(v, e) /\ n \in Nat /\ s + n = EndOf(v, e)
  BY DEF Bounded
<1>2. KidsOf(v, e) = [k \in 1 .. n |-> KidAt(v, e, s + k - 1)]
  BY DEF KidsOf
<1>3. SlotsOf(v, e) = s .. EndOf(v, e) - 1
  BY DEF SlotsOf
<1> HIDE DEF s, n
<1>4. \A k \in 1 .. n : s + k - 1 \in s .. EndOf(v, e) - 1
  BY <1>1
<1>5. Sequence(KidsOf(v, e), n)
  BY <1>1, <1>2 DEF Sequence
<1> QED BY <1>1, <1>2, <1>3, <1>4, <1>5 DEF s, n

\* So do the arguments of an expression whose slice is left alone.
LEMMA KidsStay ==
  ASSUME NEW v, NEW r, WriterOK(v), WriterOK(r), Kept(v, r), NEW e, Bounded(v, e), TextsOf(v, e),
         SameSlice(v, r, e)
  PROVE  KidsOf(r, e) = KidsOf(v, e) /\ TextsOf(r, e)
<1> DEFINE s == StartOf(v, e)
           n == EndOf(v, e) - s
<1>1. StartOf(r, e) = s /\ EndOf(r, e) = EndOf(v, e) /\ SlotsOf(r, e) = SlotsOf(v, e)
  BY DEF SameSlice, SlotsOf
<1>2. \A i \in SlotsOf(v, e) : KidAt(r, e, i) = KidAt(v, e, i) /\ (ReadsOf(r, e)[i] \in Texted => TextOf(r, r.args[i]))
  BY KidStays DEF SameSlice
<1>3. \A k \in 1 .. n : s + k - 1 \in SlotsOf(v, e)
  BY KidPlaces
<1>4. KidsOf(r, e) = [k \in 1 .. n |-> KidAt(r, e, s + k - 1)] /\ KidsOf(v, e) = [k \in 1 .. n |-> KidAt(v, e, s + k - 1)]
  BY <1>1 DEF KidsOf
<1> HIDE DEF s, n
<1>5. KidsOf(r, e) = KidsOf(v, e)
  BY <1>2, <1>3, <1>4
<1>6. TextsOf(r, e)
  BY <1>1, <1>2 DEF TextsOf
<1> QED BY <1>5, <1>6

\* A slice with one slot more has one argument more, the last.
LEMMA KidsGrow ==
  ASSUME NEW v, NEW r, WriterOK(v), WriterOK(r), Kept(v, r), NEW e, Bounded(v, e), TextsOf(v, e),
         NEW tag, NEW value, GrownSlice(v, r, e, tag, value), tag \in Texted => TextOf(r, value)
  PROVE  KidsOf(r, e) = Append(KidsOf(v, e), ArgumentOf(r, tag, value)) /\ TextsOf(r, e)
<1> DEFINE s == StartOf(v, e)
           m == EndOf(v, e)
           n == m - s
<1>1. s \in Nat /\ m \in Nat /\ s <= m /\ n \in Nat /\ (m + 1) - s = n + 1 /\ s + (n + 1) - 1 = m
      /\ s .. (m + 1) - 1 = (s .. m - 1) \cup {m} /\ n + 1 \in 1 .. n + 1
      /\ \A k \in 1 .. n : k \in 1 .. n + 1
  BY DEF Bounded
<1>2. StartOf(r, e) = s /\ EndOf(r, e) = m + 1 /\ SlotsOf(v, e) = s .. m - 1
  BY DEF GrownSlice, SlotsOf
<1>3. SlotsOf(r, e) = SlotsOf(v, e) \cup {m}
  BY <1>1, <1>2 DEF SlotsOf
<1>4. \A i \in SlotsOf(v, e) : KidAt(r, e, i) = KidAt(v, e, i) /\ (ReadsOf(r, e)[i] \in Texted => TextOf(r, r.args[i]))
  BY KidStays DEF GrownSlice
<1>5. ReadsOf(r, e)[m] = tag /\ r.args[m] = value
  BY DEF GrownSlice
<1>6. /\ Sequence(KidsOf(v, e), n)
      /\ \A k \in 1 .. n : s + k - 1 \in SlotsOf(v, e) /\ KidsOf(v, e)[k] = KidAt(v, e, s + k - 1)
  BY KidPlaces
<1>7. KidsOf(r, e) = [k \in 1 .. (m + 1) - s |-> KidAt(r, e, s + k - 1)]
  BY <1>2 DEF KidsOf
<1> HIDE DEF s, m, n
<1>8. KidsOf(r, e) = [k \in 1 .. n + 1 |-> KidAt(r, e, s + k - 1)]
  BY <1>1, <1>7
<1>9. Sequence(KidsOf(r, e), n + 1)
  BY <1>1, <1>8 DEF Sequence
<1>10. KidsOf(r, e)[n + 1] = ArgumentOf(r, tag, value)
  <2>1. KidsOf(r, e)[n + 1] = KidAt(r, e, s + (n + 1) - 1)
    BY <1>1, <1>8
  <2> QED BY <1>1, <1>5, <2>1 DEF KidAt
<1>11. \A k \in 1 .. n : KidsOf(r, e)[k] = KidsOf(v, e)[k]
  BY <1>1, <1>4, <1>6, <1>8
<1>12. KidsOf(r, e) = Append(KidsOf(v, e), ArgumentOf(r, tag, value))
  BY <1>6, <1>9, <1>10, <1>11, SequenceGrows
<1>13. TextsOf(r, e)
  BY <1>3, <1>4, <1>5 DEF TextsOf
<1> QED BY <1>12, <1>13

(***************************************************************************)
(* The nodes of the tree and the path to the open one.                     *)
(***************************************************************************)
HeadAt(v, e) == IF e = -1 THEN [text |-> "document", at |-> <<>>] ELSE v.strings[v.exprs[e].head + 1]
NodeOf(v, e) == [head |-> HeadAt(v, e), kids |-> KidsOf(v, e)]
NodesOf(v) == [n \in 1 .. v.nextExpr + 1 |-> NodeOf(v, n - 2)]
PathOf(v) == [k \in 1 .. v.layer + 1 |-> IF k = 1 THEN 1 ELSE v.exprStack[k] + 2]

\* The nodes of a block by the number of their expression, and its path to
\* the innermost open one.
LEMMA NodePlaces ==
  ASSUME NEW v, WriterOK(v), StackUp(v)
  PROVE  /\ Sequence(NodesOf(v), v.nextExpr + 1) /\ Sequence(PathOf(v), v.layer + 1)
         /\ Len(NodesOf(v)) = v.nextExpr + 1 /\ Last(PathOf(v)) = Top(v) + 2
         /\ Top(v) + 2 \in 1 .. v.nextExpr + 1
         /\ \A e \in Ids(v) : e + 2 \in 1 .. v.nextExpr + 1 /\ NodesOf(v)[e + 2] = NodeOf(v, e)
<1>1. v.layer \in Nat /\ v.nextExpr \in Nat
  BY DEF WriterOK, Writer
<1>2. Sequence(NodesOf(v), v.nextExpr + 1)
  BY <1>1 DEF Sequence, NodesOf
<1>3. Sequence(PathOf(v), v.layer + 1)
  BY <1>1 DEF Sequence, PathOf
<1>4. Len(NodesOf(v)) = v.nextExpr + 1
  BY <1>2, SequenceLast
<1>5. Last(PathOf(v)) = PathOf(v)[v.layer + 1]
  <2>1. v.layer + 1 > 0
    BY <1>1
  <2> QED BY <1>3, <2>1, SequenceLast
<1>6. PathOf(v)[v.layer + 1] = Top(v) + 2
  <2>1. v.layer + 1 \in 1 .. v.layer + 1 /\ (v.layer + 1 = 1 <=> v.layer = 0)
    BY <1>1
  <2>2. PathOf(v)[v.layer + 1] = IF v.layer + 1 = 1 THEN 1 ELSE v.exprStack[v.layer + 1] + 2
    BY <2>1 DEF PathOf
  <2> QED BY <2>1, <2>2 DEF Top
<1>7. ASSUME NEW e \in Ids(v) PROVE e + 2 \in 1 .. v.nextExpr + 1 /\ NodesOf(v)[e + 2] = NodeOf(v, e)
  <2>1. e + 2 \in 1 .. v.nextExpr + 1 /\ (e + 2) - 2 = e
    BY <1>1 DEF Ids
  <2> QED BY <2>1 DEF NodesOf
<1>8. Top(v) + 2 \in 1 .. v.nextExpr + 1
  BY <1>7, TopEnds
<1> QED BY <1>2, <1>3, <1>4, <1>5, <1>6, <1>7, <1>8

\* The document is the first node.
LEMMA NodesHeaded ==
  ASSUME NEW v, WriterOK(v)
  PROVE  <<NodeOf(v, -1)>> \o [k \in 1 .. v.nextExpr |-> NodeOf(v, k - 1)] = NodesOf(v)
<1> DEFINE n == v.nextExpr
           x == NodeOf(v, -1)
           s == [k \in 1 .. n |-> NodeOf(v, k - 1)]
<1>1. n \in Nat
  BY DEF WriterOK, Writer
<1>2. Sequence(s, n) /\ \A k \in 1 .. n : s[k] = NodeOf(v, k - 1)
  BY <1>1 DEF Sequence
<1>3. NodesOf(v) = [m \in 1 .. n + 1 |-> NodeOf(v, m - 2)]
  BY DEF NodesOf
<1>4. x = NodeOf(v, -1)
  OBVIOUS
<1> HIDE DEF x, s, n
<1>5. <<x>> \o s = [m \in 1 .. n + 1 |-> IF m = 1 THEN x ELSE s[m - 1]]
  BY <1>2, SequenceHeaded
<1>6. ASSUME NEW m \in 1 .. n + 1
      PROVE  (IF m = 1 THEN x ELSE s[m - 1]) = NodeOf(v, m - 2)
  <2>1. m = 1 => m - 2 = -1
    OBVIOUS
  <2>2. m # 1 => m - 1 \in 1 .. n /\ (m - 1) - 1 = m - 2
    BY <1>1
  <2> QED BY <1>2, <1>4, <2>1, <2>2
<1>7. <<x>> \o s = NodesOf(v)
  BY <1>3, <1>5, <1>6
<1> QED BY <1>7 DEF x, s, n

\* ReadNodes and the path of LoadedTree are these of its writer.
LEMMA TreeOf ==
  ASSUME WriterOK(w)
  PROVE  /\ ReadNodes = NodesOf(w)
         /\ [k \in 1 .. Len(w.exprStack) |-> IF k = 1 THEN 1 ELSE w.exprStack[k] + 2] = PathOf(w)
<1>1. w.nextExpr \in Nat /\ Len(w.exprStack) = w.layer + 1
  BY DEF WriterOK, Writer, StacksOK
<1>2. \A e : StartSlot(e) = StartOf(w, e) /\ EndSlot(e) = EndOf(w, e)
  BY DEF StartSlot, StartOf, EndSlot, EndOf, OpenAt, OpenIn
<1>3. \A tag, value : ReadArgument(tag, value) = ArgumentOf(w, tag, value)
  BY DEF ReadArgument, ArgumentOf
<1>4. ASSUME NEW e PROVE ReadKids(e) = KidsOf(w, e)
  BY <1>2, <1>3 DEF ReadKids, KidsOf, KidAt, ReadsOf
<1>5. [head |-> [text |-> "document", at |-> <<>>], kids |-> ReadKids(-1)] = NodeOf(w, -1)
  BY <1>4 DEF NodeOf, HeadAt
<1>6. ASSUME NEW k \in 1 .. w.nextExpr
      PROVE  [head |-> w.strings[w.exprs[k - 1].head + 1], kids |-> ReadKids(k - 1)] = NodeOf(w, k - 1)
  <2>1. k - 1 # -1
    OBVIOUS
  <2> QED BY <1>4, <2>1 DEF NodeOf, HeadAt
<1>7. ReadNodes = <<NodeOf(w, -1)>> \o [k \in 1 .. w.nextExpr |-> NodeOf(w, k - 1)]
  BY <1>5, <1>6 DEF ReadNodes
<1>8. ReadNodes = NodesOf(w)
  BY <1>7, NodesHeaded
<1> QED BY <1>1, <1>8 DEF PathOf

(***************************************************************************)
(* The invariant: every slice is encoded, every string it names is there,  *)
(* and the key bits are on the layers of the key expressions.              *)
(***************************************************************************)
\* The run that is not marked yet is at the end of the open slice.
RunIn(v, e) == IF e = Top(v) THEN v.run ELSE 0
EncodedIn(v) == \A e \in Ids(v) : Encoded(v.types, StartOf(v, e), EndOf(v, e), RunIn(v, e))
HeadsIn(v) == \A e \in Ids(v) \ {-1} : v.exprs[e].head < Len(v.strings)
TextsIn(v) == \A e \in Ids(v) : TextsOf(v, e)
KeysIn(v) ==
  \A j \in 2 .. v.layer + 1 :
    j - 1 \in v.keyValue <=> HeadAt(v, v.exprStack[j]).text = "key"
Legible(v) == EncodedIn(v) /\ HeadsIn(v) /\ TextsIn(v) /\ KeysIn(v) /\ RunOff(v)

\* Every slice is inside the vectors.
LEMMA SlicesBounded ==
  ASSUME NEW v, Apart(v), EncodedIn(v)
  PROVE  \A e \in Ids(v) : Bounded(v, e)
<1> TAKE e \in Ids(v)
<1>1. Encoded(v.types, StartOf(v, e), EndOf(v, e), RunIn(v, e)) /\ SlotsOf(v, e) \subseteq DOMAIN v.types
  BY DEF EncodedIn, Apart
<1> QED BY <1>1 DEF Encoded, Bounded

\* The types of the slice, which is all that its encoding depends on.
SliceKept(v, r, e) ==
  /\ StartOf(r, e) = StartOf(v, e) /\ EndOf(r, e) = EndOf(v, e)
  /\ \A i \in SlotsOf(v, e) : r.types[i] = v.types[i] /\ r.args[i] = v.args[i]

\* A slice that is left alone is encoded as it was.
LEMMA SliceReads ==
  ASSUME NEW v, NEW r, NEW e, NEW run, Encoded(v.types, StartOf(v, e), EndOf(v, e), run), SliceKept(v, r, e)
  PROVE  SameSlice(v, r, e) /\ Encoded(r.types, StartOf(r, e), EndOf(r, e), run)
<1> DEFINE s == StartOf(v, e)
           m == EndOf(v, e)
<1>1. SameSlots(v.types, r.types, s, m)
  BY DEF SliceKept, SlotsOf, SameSlots
<1>2. StartOf(r, e) = s /\ EndOf(r, e) = m
  BY DEF SliceKept
<1>3. Encoded(v.types, s, m, run)
  OBVIOUS
<1>4. ReadsOf(v, e) = ReadTypes(v.types, s, m) /\ ReadsOf(r, e) = ReadTypes(r.types, s, m)
  BY <1>2 DEF ReadsOf
<1> HIDE DEF s, m
<1>5. Encoded(r.types, s, m, run) /\ ReadTypes(r.types, s, m) = ReadTypes(v.types, s, m)
  BY <1>1, <1>3, EncodedSame
<1>6. ReadsOf(r, e) = ReadsOf(v, e)
  BY <1>4, <1>5
<1>7. SameSlice(v, r, e)
  BY <1>6 DEF SameSlice, SliceKept, SameKid
<1> QED BY <1>2, <1>5, <1>7

\* The heads of the expressions do not change while the String Buffer grows.
LEMMA KeptHeads ==
  ASSUME NEW v, NEW r, WriterOK(v), WriterOK(r), Kept(v, r), NEW e \in Ids(v), HeadsIn(v),
         e # -1 => e \in DOMAIN v.exprs /\ r.exprs[e].head = v.exprs[e].head
  PROVE  HeadAt(r, e) = HeadAt(v, e) /\ (e # -1 => r.exprs[e].head < Len(r.strings))
<1>1. CASE e = -1
  BY <1>1 DEF HeadAt
<1>2. CASE e # -1
  <2>1. v.exprs[e].head \in Nat /\ Len(v.strings) \in Nat /\ Len(r.strings) \in Nat
    <3>1. v.exprs \in Vector(Expression) /\ v.strings \in Seq(String) /\ r.strings \in Seq(String)
      BY DEF WriterOK, Writer
    <3>2. v.exprs[e] \in Expression
      BY <1>2, <3>1, VectorOK
    <3>3. Len(v.strings) \in Nat /\ Len(r.strings) \in Nat
      BY <3>1
    <3>4. v.exprs[e].head \in Nat
      BY <3>2 DEF Expression
    <3> QED BY <3>3, <3>4
  <2>2. v.exprs[e].head < Len(v.strings) /\ Len(v.strings) <= Len(r.strings)
    BY <1>2 DEF HeadsIn, Kept
  <2>3. v.exprs[e].head + 1 \in 1 .. Len(v.strings)
    BY <2>1, <2>2
  <2>4. r.strings[v.exprs[e].head + 1] = v.strings[v.exprs[e].head + 1]
    BY <2>3 DEF Kept
  <2>5. r.exprs[e].head = v.exprs[e].head
    BY <1>2
  <2>6. HeadAt(r, e) = HeadAt(v, e)
    BY <1>2, <2>4, <2>5, Zenon DEF HeadAt
  <2> QED BY <2>1, <2>2, <2>5, <2>6
<1> QED BY <1>1, <1>2

(***************************************************************************)
(* One more argument of the open node.                                     *)
(***************************************************************************)
Argued(v, r, kid) ==
  /\ NodesOf(r) = [NodesOf(v) EXCEPT ![Last(PathOf(v))].kids = Append(@, kid)]
  /\ PathOf(r) = PathOf(v)

\* One more argument of the innermost open expression, and no other change,
\* is one more kid of the last node on the path.
LEMMA KidArgued ==
  ASSUME NEW v, NEW r, WriterOK(v), StackUp(v), r.nextExpr = v.nextExpr, NEW kid, PathOf(r) = PathOf(v),
         \A e \in Ids(v) : /\ HeadAt(r, e) = HeadAt(v, e)
                           /\ KidsOf(r, e) = IF e = Top(v) THEN Append(KidsOf(v, e), kid) ELSE KidsOf(v, e)
  PROVE  Argued(v, r, kid)
<1> DEFINE n == v.nextExpr
           T == Top(v)
           N == NodesOf(v)
           p == T + 2
           M == [N EXCEPT ![p].kids = Append(@, kid)]
<1>1. n \in Nat /\ T \in Ids(v)
  BY TopEnds DEF WriterOK, Writer
<1>2. N = [m \in 1 .. n + 1 |-> NodeOf(v, m - 2)] /\ NodesOf(r) = [m \in 1 .. n + 1 |-> NodeOf(r, m - 2)]
  BY DEF NodesOf
<1>3. p \in 1 .. n + 1 /\ p - 2 = T /\ Last(PathOf(v)) = p /\ \A m \in 1 .. n + 1 : m - 2 \in Ids(v) /\ (m - 2 = T <=> m = p)
  <2>1. p \in 1 .. n + 1 /\ Last(PathOf(v)) = p
    BY NodePlaces
  <2>2. T \in Int
    BY <1>1 DEF Ids
  <2>3. \A m \in 1 .. n + 1 : m - 2 \in Ids(v)
    BY <1>1 DEF Ids
  <2> HIDE DEF T
  <2> QED BY <2>1, <2>2, <2>3
<1>4. N[p] = NodeOf(v, T)
  BY <1>2, <1>3
<1> HIDE DEF n, N, p, T
<1>5. DOMAIN M = 1 .. n + 1 /\ M = [m \in 1 .. n + 1 |-> M[m]]
  BY <1>2
<1>6. ASSUME NEW m \in 1 .. n + 1 PROVE M[m] = NodeOf(r, m - 2)
  <2>1. CASE m = p
    <3>1. M[m] = [N[p] EXCEPT !.kids = Append(@, kid)]
      BY <1>2, <2>1
    <3>2. N[p] = [head |-> HeadAt(v, T), kids |-> KidsOf(v, T)]
      BY <1>4 DEF NodeOf
    <3>3. M[m] = [head |-> HeadAt(v, T), kids |-> Append(KidsOf(v, T), kid)]
      BY <3>1, <3>2
    <3>4. HeadAt(r, T) = HeadAt(v, T) /\ KidsOf(r, T) = Append(KidsOf(v, T), kid)
      BY <1>1 DEF T
    <3>5. NodeOf(r, T) = [head |-> HeadAt(v, T), kids |-> Append(KidsOf(v, T), kid)]
      BY <3>4 DEF NodeOf
    <3> QED BY <1>3, <2>1, <3>3, <3>5
  <2>2. CASE m # p
    <3>1. M[m] = NodeOf(v, m - 2)
      BY <1>2, <2>2
    <3>2. HeadAt(r, m - 2) = HeadAt(v, m - 2) /\ KidsOf(r, m - 2) = KidsOf(v, m - 2)
      BY <1>3, <2>2 DEF T
    <3> QED BY <3>1, <3>2 DEF NodeOf
  <2> QED BY <2>1, <2>2
<1>7. NodesOf(r) = M
  BY <1>2, <1>5, <1>6
<1> QED BY <1>3, <1>7 DEF Argued, N

\* What happens to the slices when one argument is stored.
LEMMA OthersKept ==
  ASSUME NEW v, NEW r, WriterOK(v), WriterOK(r), Apart(v), Apart(r), Stored(v, r), EncodedIn(v),
         NEW tag, TagAdded(v, r, StartOf(v, Top(v)), NextArgumentIndex(v), tag),
         NextArgumentIndex(v) = EndOf(v, Top(v)), NEW e \in Ids(v), e # Top(v)
  PROVE  SameSlice(v, r, e) /\ Encoded(r.types, StartOf(r, e), EndOf(r, e), RunIn(r, e))
<1> DEFINE T == Top(v)
           i == NextArgumentIndex(v)
           s == StartOf(v, T)
<1>1. StackUp(v) /\ StackUp(r)
  BY DEF Apart
<1>2. Ids(r) = Ids(v) /\ Top(r) = T /\ GrownSlot(v, r, T) /\ T \in Ids(v)
  BY <1>1, StoredSlot, TopEnds
<1>3. /\ StartOf(r, e) = StartOf(v, e) /\ EndOf(r, e) = EndOf(v, e)
      /\ StartOf(r, T) = s /\ EndOf(r, T) = i + 1 /\ EndOf(v, T) = i
  BY <1>2 DEF GrownSlot
<1>4. s \in Nat /\ i \in Nat /\ s <= i
  BY <1>2, <1>3 DEF EncodedIn, Encoded
<1>5. /\ SlotsOf(r, e) = SlotsOf(v, e) /\ SlotsOf(v, e) \subseteq DOMAIN v.types
      /\ SlotsOf(r, e) \cap SlotsOf(r, T) = {}
  BY <1>2, <1>3 DEF Apart, SlotsOf
<1>6. SlotsOf(r, T) = s .. i
  <2>1. SlotsOf(r, T) = s .. (i + 1) - 1
    BY <1>3 DEF SlotsOf
  <2> HIDE DEF s, i
  <2> QED BY <1>4, <2>1
<1>7. \A j \in DOMAIN v.types : j \notin s .. i => r.types[j] = v.types[j]
  BY DEF TagAdded
<1>8. \A j \in DOMAIN v.types : j # i => r.args[j] = v.args[j]
  BY DEF Stored, ArgsElsewhere, WriterOK, StacksOK
<1>9. i \in s .. i
  BY <1>4
<1>10. SliceKept(v, r, e)
  <2> HIDE DEF s, i, T
  <2>1. \A j \in SlotsOf(v, e) : j \notin s .. i
    BY <1>5, <1>6
  <2> QED BY <1>3, <1>5, <1>7, <1>8, <1>9, <2>1 DEF SliceKept
<1>11. RunIn(r, e) = 0 /\ RunIn(v, e) = 0
  BY <1>2 DEF RunIn
<1>12. Encoded(v.types, StartOf(v, e), EndOf(v, e), 0)
  BY <1>11 DEF EncodedIn
<1>13. SameSlice(v, r, e) /\ Encoded(r.types, StartOf(r, e), EndOf(r, e), 0)
  BY <1>10, <1>12, SliceReads
<1> QED BY <1>11, <1>13

\* A tag that is added behind the others extends the slice by one argument.
LEMMA TopGrows ==
  ASSUME NEW v, NEW r, WriterOK(v), WriterOK(r), Apart(v), Stored(v, r), EncodedIn(v),
         NEW tag, TagAdded(v, r, StartOf(v, Top(v)), NextArgumentIndex(v), tag),
         NextArgumentIndex(v) = EndOf(v, Top(v)), NEW value, r.args[NextArgumentIndex(v)] = value
  PROVE  /\ GrownSlice(v, r, Top(v), tag, value)
         /\ Encoded(r.types, StartOf(r, Top(v)), EndOf(r, Top(v)), RunIn(r, Top(v)))
<1> DEFINE T == Top(v)
           i == NextArgumentIndex(v)
           s == StartOf(v, T)
<1>1. StackUp(v)
  BY DEF Apart
<1>2. Top(r) = T /\ GrownSlot(v, r, T) /\ T \in Ids(v)
  BY <1>1, StoredSlot, TopEnds
<1>3. StartOf(r, T) = s /\ EndOf(r, T) = i + 1 /\ EndOf(v, T) = i
  BY <1>2 DEF GrownSlot
<1>4. s \in Nat /\ i \in Nat /\ s <= i /\ SlotsOf(v, T) = s .. i - 1 /\ SlotsOf(v, T) \subseteq DOMAIN v.types
  BY <1>2, <1>3 DEF EncodedIn, Encoded, SlotsOf, Apart
<1>5. /\ Encoded(r.types, s, i + 1, r.run)
      /\ ReadTypes(r.types, s, i + 1) = [j \in s .. i |-> IF j = i THEN tag ELSE ReadTypes(v.types, s, i)[j]]
  BY DEF TagAdded
<1>6. RunIn(r, T) = r.run
  BY <1>2 DEF RunIn
<1>7. ReadsOf(r, T) = ReadTypes(r.types, s, i + 1) /\ ReadsOf(v, T) = ReadTypes(v.types, s, i)
  BY <1>3 DEF ReadsOf
<1>8. \A j \in DOMAIN v.types : j # i => r.args[j] = v.args[j]
  BY DEF Stored, ArgsElsewhere, WriterOK, StacksOK
<1>9. r.args[i] = value
  OBVIOUS
<1>0. Encoded(r.types, StartOf(r, T), EndOf(r, T), RunIn(r, T))
  BY <1>3, <1>5, <1>6
<1> HIDE DEF T, i, s
<1>10. i \in s .. i /\ \A j \in s .. i - 1 : j # i /\ j \in s .. i
  BY <1>4
<1>11. ReadsOf(r, T)[i] = tag
  BY <1>5, <1>7, <1>10
<1>12. \A j \in SlotsOf(v, T) : SameKid(v, r, T, j)
  <2> TAKE j \in SlotsOf(v, T)
  <2>1. j \in s .. i /\ j # i /\ j \in DOMAIN v.types
    BY <1>4, <1>10
  <2>2. ReadsOf(r, T)[j] = ReadsOf(v, T)[j]
    BY <1>5, <1>7, <2>1
  <2> QED BY <1>8, <2>1, <2>2 DEF SameKid
<1>13. GrownSlice(v, r, T, tag, value)
  BY <1>3, <1>9, <1>11, <1>12 DEF GrownSlice, s
<1> QED BY <1>0, <1>13 DEF T

\* The keys that are open stay where they are.
LEMMA KeysKept ==
  ASSUME NEW v, NEW r, WriterOK(v), StackUp(v), KeysIn(v), r.layer = v.layer, r.keyValue = v.keyValue,
         r.exprStack = v.exprStack, \A e \in Ids(v) : HeadAt(r, e) = HeadAt(v, e)
  PROVE  KeysIn(r)
<1>1. ASSUME NEW j \in 2 .. v.layer + 1
      PROVE  j - 1 \in r.keyValue <=> HeadAt(r, r.exprStack[j]).text = "key"
  <2>1. v.exprStack[j] \in Ids(v)
    BY Ends
  <2>2. HeadAt(r, r.exprStack[j]) = HeadAt(v, v.exprStack[j])
    BY <2>1
  <2>3. j - 1 \in v.keyValue <=> HeadAt(v, v.exprStack[j]).text = "key"
    BY DEF KeysIn
  <2> QED BY <2>2, <2>3
<1> QED BY <1>1 DEF KeysIn

\* A stored argument is the next kid of the open node, and the block stays
\* legible.
LEMMA StoreTells ==
  ASSUME NEW v, NEW r, WriterOK(v), WriterOK(r), Apart(v), Apart(r), Stored(v, r), Legible(v), RunOff(r), Kept(v, r),
         NEW tag, TagAdded(v, r, StartOf(v, Top(v)), NextArgumentIndex(v), tag),
         NextArgumentIndex(v) = EndOf(v, Top(v)), NEW value, r.args[NextArgumentIndex(v)] = value,
         tag \in Texted => TextOf(r, value)
  PROVE  Legible(r) /\ Argued(v, r, ArgumentOf(r, tag, value))
<1> DEFINE T == Top(v)
           kid == ArgumentOf(r, tag, value)
<1>1. StackUp(v) /\ EncodedIn(v) /\ HeadsIn(v) /\ TextsIn(v) /\ KeysIn(v)
  BY DEF Apart, Legible
<1>2. /\ Ids(r) = Ids(v) /\ Top(r) = T /\ StackUp(r)
      /\ r.nextExpr = v.nextExpr /\ r.exprs = v.exprs /\ r.layer = v.layer /\ r.keyValue = v.keyValue
      /\ r.exprStack = v.exprStack
  BY <1>1, StoredSlot DEF Stored, OneStored
<1>3. ASSUME NEW e \in Ids(v), e # T
      PROVE  SameSlice(v, r, e) /\ Encoded(r.types, StartOf(r, e), EndOf(r, e), RunIn(r, e))
  BY <1>1, <1>3, OthersKept
<1>4. GrownSlice(v, r, T, tag, value) /\ Encoded(r.types, StartOf(r, T), EndOf(r, T), RunIn(r, T))
  BY <1>1, TopGrows
<1>5. EncodedIn(r)
  BY <1>2, <1>3, <1>4 DEF EncodedIn
<1>6. \A e \in Ids(v) : Bounded(v, e) /\ TextsOf(v, e)
  BY <1>1, SlicesBounded DEF TextsIn
<1>7. ASSUME NEW e \in Ids(v), e # T PROVE KidsOf(r, e) = KidsOf(v, e) /\ TextsOf(r, e)
  BY <1>3, <1>6, <1>7, KidsStay
<1>8. KidsOf(r, T) = Append(KidsOf(v, T), kid) /\ TextsOf(r, T)
  <2>1. T \in Ids(v)
    BY <1>1, TopEnds
  <2>2. Bounded(v, T) /\ TextsOf(v, T)
    BY <1>6, <2>1
  <2> HIDE DEF T
  <2> QED BY <1>4, <2>2, KidsGrow
<1>9. ASSUME NEW e \in Ids(v) PROVE HeadAt(r, e) = HeadAt(v, e) /\ (e # -1 => r.exprs[e].head < Len(r.strings))
  <2>1. e # -1 => e \in DOMAIN v.exprs
    BY DEF Apart
  <2> QED BY <1>1, <1>2, <2>1, KeptHeads
<1>10. HeadsIn(r) /\ TextsIn(r)
  BY <1>2, <1>7, <1>8, <1>9 DEF HeadsIn, TextsIn
<1>11. KeysIn(r)
  BY <1>1, <1>2, <1>9, KeysKept
<1>12. PathOf(r) = PathOf(v)
  BY <1>2 DEF PathOf
<1>13. Argued(v, r, kid)
  BY <1>1, <1>2, <1>7, <1>8, <1>9, <1>12, KidArgued
<1> QED BY <1>5, <1>10, <1>11, <1>13 DEF Legible

(***************************************************************************)
(* The operations of the writer on the tree.                               *)
(***************************************************************************)
\* The next argument goes to the end of the open slice, inside the block.
Ready(v) ==
  /\ WriterOK(v) /\ ~v.wild /\ Apart(v) /\ Legible(v)
  /\ NextArgumentIndex(v) = EndOf(v, Top(v)) /\ NextArgumentIndex(v) \in DOMAIN v.types

\* What a handler that may store relies on: the next slot is inside the block,
\* and the slice in front of it is encoded.
LEMMA ReadyTop ==
  ASSUME NEW v, Ready(v)
  PROVE  LET s == StartOf(v, Top(v))
             i == NextArgumentIndex(v)
         IN /\ s .. i \subseteq DOMAIN v.types /\ Encoded(v.types, s, i, v.run) /\ RunOff(v)
            /\ Top(v) \in Ids(v) /\ StackUp(v)
<1> DEFINE T == Top(v)
           s == StartOf(v, T)
           i == NextArgumentIndex(v)
<1>1. StackUp(v) /\ EncodedIn(v) /\ WriterOK(v) /\ RunOff(v) /\ i = EndOf(v, T) /\ i \in DOMAIN v.types
  BY DEF Ready, Apart, Legible
<1>2. T \in Ids(v)
  BY <1>1, TopEnds
<1>3. Encoded(v.types, s, EndOf(v, T), RunIn(v, T)) /\ SlotsOf(v, T) \subseteq DOMAIN v.types
  BY <1>1, <1>2 DEF EncodedIn, Ready, Apart
<1>4. RunIn(v, T) = v.run
  BY DEF RunIn
<1>5. Encoded(v.types, s, i, v.run)
  BY <1>1, <1>3, <1>4
<1>6. SlotsOf(v, T) = s .. i - 1
  BY <1>1 DEF SlotsOf
<1>7. s \in Nat /\ i \in Nat
  BY <1>5 DEF Encoded
<1> HIDE DEF s, i, T
<1>8. s .. i \subseteq DOMAIN v.types
  BY <1>1, <1>3, <1>6, <1>7
<1> QED BY <1>1, <1>2, <1>5, <1>8 DEF s, i, T

\* addLong and addDouble add the kid that they were given.
LEMMA NumberTells ==
  ASSUME NEW v, Ready(v), NEW type \in Plain, NEW value \in Seq(Nat), type \in Texted => TextOf(v, value),
         WriterOK(addNumber(v, type, value)), Apart(addNumber(v, type, value)), Stored(v, addNumber(v, type, value))
  PROVE  /\ Legible(addNumber(v, type, value))
         /\ Argued(v, addNumber(v, type, value), ArgumentOf(v, type, value))
<1> DEFINE s == StartOf(v, Top(v))
           i == NextArgumentIndex(v)
           r == addNumber(v, type, value)
<1>1. s .. i \subseteq DOMAIN v.types /\ Encoded(v.types, s, i, v.run) /\ RunOff(v) /\ WriterOK(v) /\ ~v.wild
      /\ Apart(v) /\ Legible(v) /\ i = EndOf(v, Top(v))
  BY ReadyTop DEF Ready
<1>2. TagAdded(v, r, s, i, type) /\ RunOff(r) /\ r.args[i] = value /\ r.strings = v.strings
  <2>1. Tagged(v, r, s, i, type, value)
    BY <1>1, NumberTags
  <2> HIDE DEF r, s, i
  <2> QED BY <2>1 DEF Tagged
<1>3. WriterOK(r) /\ Apart(r) /\ Stored(v, r)
  OBVIOUS
<1> HIDE DEF r
<1>4. Kept(v, r)
  <2>1. v.strings \in Seq(String)
    BY <1>1 DEF WriterOK, Writer
  <2> QED BY <1>2, <2>1 DEF Kept
<1>5. ArgumentOf(r, type, value) = ArgumentOf(v, type, value) /\ (type \in Texted => TextOf(r, value))
  BY <1>2 DEF ArgumentOf, TextOf
<1>6. Legible(r) /\ Argued(v, r, ArgumentOf(r, type, value))
  BY <1>1, <1>2, <1>3, <1>4, <1>5, StoreTells
<1> QED BY <1>5, <1>6 DEF r

\* A string more in the String Buffer.
LEMMA StringTells ==
  ASSUME NEW v, WriterOK(v), Apart(v), Legible(v), NEW text \in String
  PROVE  LET u == storeString(v, text) IN
         /\ WriterOK(u) /\ Apart(u) /\ Legible(u) /\ NodesOf(u) = NodesOf(v) /\ PathOf(u) = PathOf(v)
         /\ Top(u) = Top(v) /\ EndOf(u, Top(u)) = EndOf(v, Top(v)) /\ u.types = v.types /\ u.wild = v.wild
         /\ Len(u.strings) = Len(v.strings) + 1 /\ u.strings[Len(v.strings) + 1] = text
<1> DEFINE u == storeString(v, text)
<1>1. WriterOK(u) /\ u = [v EXCEPT !.strings = Append(v.strings, text)]
  BY StoreStringOK
<1>2. v.strings \in Seq(String) /\ Len(v.strings) \in Nat
  BY DEF WriterOK, Writer
<1> HIDE DEF u
<1>3. /\ u.types = v.types /\ u.args = v.args /\ u.exprs = v.exprs /\ u.cumul = v.cumul /\ u.argIter = v.argIter
      /\ u.exprStack = v.exprStack /\ u.nextExpr = v.nextExpr /\ u.layer = v.layer /\ u.run = v.run
      /\ u.keyValue = v.keyValue /\ u.wild = v.wild /\ u.strings = Append(v.strings, text)
  BY <1>1 DEF WriterOK, Writer
<1>4. /\ Len(u.strings) = Len(v.strings) + 1 /\ u.strings[Len(v.strings) + 1] = text
      /\ \A n \in 1 .. Len(v.strings) : u.strings[n] = v.strings[n]
  BY <1>2, <1>3
<1>5. Kept(v, u)
  BY <1>2, <1>4 DEF Kept
<1>6. /\ Ids(u) = Ids(v) /\ Top(u) = Top(v) /\ PathOf(u) = PathOf(v)
      /\ \A e : StartOf(u, e) = StartOf(v, e) /\ EndOf(u, e) = EndOf(v, e) /\ SlotsOf(u, e) = SlotsOf(v, e)
      /\ \A e : RunIn(u, e) = RunIn(v, e)
  BY <1>3 DEF Ids, Top, PathOf, StartOf, EndOf, OpenIn, SlotsOf, RunIn
<1>7. Apart(u)
  BY <1>3, <1>6 DEF Apart, StackUp
<1>8. EncodedIn(u) /\ RunOff(u)
  BY <1>3, <1>6 DEF EncodedIn, Legible, RunOff
<1>9. ASSUME NEW e \in Ids(v)
      PROVE  KidsOf(u, e) = KidsOf(v, e) /\ TextsOf(u, e) /\ HeadAt(u, e) = HeadAt(v, e)
             /\ (e # -1 => u.exprs[e].head < Len(u.strings))
  <2>1. SameSlice(v, u, e)
    BY <1>3, <1>6 DEF SameSlice, SameKid, ReadsOf
  <2>2. Bounded(v, e) /\ TextsOf(v, e) /\ HeadsIn(v)
    BY SlicesBounded DEF Legible, TextsIn
  <2>3. KidsOf(u, e) = KidsOf(v, e) /\ TextsOf(u, e)
    BY <1>1, <1>5, <2>1, <2>2, KidsStay
  <2>4. e # -1 => e \in DOMAIN v.exprs
    BY DEF Apart
  <2> QED BY <1>1, <1>3, <1>5, <2>2, <2>3, <2>4, KeptHeads
<1>10. HeadsIn(u) /\ TextsIn(u)
  BY <1>6, <1>9 DEF HeadsIn, TextsIn
<1>11. KeysIn(u)
  BY <1>3, <1>9, KeysKept DEF Legible, Apart
<1>12. NodesOf(u) = NodesOf(v)
  <2>1. ASSUME NEW n \in 1 .. v.nextExpr + 1 PROVE NodeOf(u, n - 2) = NodeOf(v, n - 2)
    <3>1. v.nextExpr \in Nat
      BY DEF WriterOK, Writer
    <3>2. n - 2 \in Ids(v)
      BY <3>1 DEF Ids
    <3> QED BY <1>9, <3>2 DEF NodeOf
  <2> QED BY <1>3, <2>1 DEF NodesOf
<1>13. Legible(u)
  BY <1>8, <1>10, <1>11 DEF Legible
<1> QED BY <1>1, <1>3, <1>4, <1>6, <1>7, <1>12, <1>13 DEF u

\* addString and addSymbol add the text that they were given, stored or found
\* in the String Buffer.
LEMMA TextTells ==
  ASSUME NEW v, Ready(v), NEW type \in Texted, NEW text \in String,
         Last(v.exprStack) \in DOMAIN v.exprs \/ (text.text # "longstring" /\ v.strings = <<>>),
         WriterOK(addText(v, type, text)), Apart(addText(v, type, text)), Stored(v, addText(v, type, text))
  PROVE  /\ Legible(addText(v, type, text))
         /\ Argued(v, addText(v, type, text), [type |-> TypeName(type), value |-> text])
<1> DEFINE u == storeString(v, text)
           m == Len(v.strings)
           r == addNumber(u, type, <<m>>)
<1>1. WriterOK(v) /\ ~v.wild /\ Apart(v) /\ Legible(v) /\ m \in Nat
      /\ NextArgumentIndex(v) = EndOf(v, Top(v)) /\ NextArgumentIndex(v) \in DOMAIN v.types
  BY DEF Ready, WriterOK, Writer
<1>2. addText(v, type, text) = r
  BY DEF addText
<1>3. NextArgumentIndex(u) = NextArgumentIndex(v)
  BY <1>1, IndexStays
<1>4. Ready(u) /\ NodesOf(u) = NodesOf(v) /\ PathOf(u) = PathOf(v) /\ Len(u.strings) = m + 1 /\ u.strings[m + 1] = text
      /\ WriterOK(u)
  BY <1>1, <1>3, StringTells DEF Ready
<1>5. WriterOK(r) /\ Apart(r)
  BY <1>2
<1>6. Stored(u, r)
  <2>1. type \in Nat /\ <<m>> \in Seq(Nat)
    BY <1>1 DEF Texted, ARGUMENT_TYPE_STRING, ARGUMENT_TYPE_SYMBOL
  <2> HIDE DEF u, m
  <2> QED BY <1>4, <2>1, NumberStores DEF Ready
<1>7. type \in Plain /\ <<m>> \in Seq(Nat) /\ <<m>>[1] = m /\ <<m>> # <<>>
  BY <1>1 DEF Texted, Plain, RLE_BIT, ARGUMENT_TYPE_STRING, ARGUMENT_TYPE_SYMBOL
<1> HIDE DEF u, m
<1>8. TextOf(u, <<m>>)
  BY <1>1, <1>4, <1>7 DEF TextOf
<1>9. Legible(r) /\ Argued(u, r, ArgumentOf(u, type, <<m>>))
  BY <1>4, <1>5, <1>6, <1>7, <1>8, NumberTells
<1>10. ArgumentOf(u, type, <<m>>) = [type |-> TypeName(type), value |-> text]
  <2>1. TypeName(type) \in {"String", "Symbol"} /\ TypeName(type) \notin {"Long", "Double"}
    BY DEF Texted, TypeName, ARGUMENT_TYPE_STRING, ARGUMENT_TYPE_SYMBOL, ARGUMENT_TYPE_LONG, ARGUMENT_TYPE_DOUBLE
  <2>2. u.strings[<<m>>[1] + 1] = text
    BY <1>4, <1>7
  <2> QED BY <2>1, <2>2 DEF ArgumentOf
<1> HIDE DEF r
<1>11. Argued(v, r, [type |-> TypeName(type), value |-> text])
  BY <1>4, <1>9, <1>10 DEF Argued
<1> QED BY <1>2, <1>9, <1>11

\* r has one more expression, headed by head, open on top of those of b.
PushedAs(b, r, head) ==
  /\ r.types = b.types /\ r.args = b.args /\ r.run = b.run /\ r.strings = Append(b.strings, head)
  /\ r.argIter = Append(b.argIter, 0) /\ r.exprStack = Append(b.exprStack, b.nextExpr)
  /\ r.nextExpr = b.nextExpr + 1 /\ r.layer = b.layer + 1 /\ b.nextExpr \in DOMAIN b.exprs
  /\ r.exprs[b.nextExpr].head = Len(b.strings)
  /\ \A e \in DOMAIN b.exprs : e # b.nextExpr => r.exprs[e] = b.exprs[e]

\* Its key bit says whether it is headed by a key.
KeyPushed(b, r, head) ==
  /\ \A l \in 1 .. b.layer : l \in r.keyValue <=> l \in b.keyValue
  /\ b.layer + 1 \in r.keyValue <=> head.text = "key"

\* The places of a stack with one more on it.
LEMMA Appended ==
  ASSUME NEW q \in Seq(Nat), NEW x \in Nat, NEW n \in Nat, Len(q) = n + 1
  PROVE  /\ \A j \in 1 .. n + 1 : Append(q, x)[j] = q[j]
         /\ Append(q, x)[n + 2] = x /\ Len(Append(q, x)) = n + 2
OBVIOUS

\* A pushed expression has an empty slice of its own.
LEMMA PushedEnds ==
  ASSUME NEW b, NEW r, WriterOK(b), WriterOK(r), Apart(b), Apart(r), NEW head, PushedAs(b, r, head)
  PROVE  /\ Ids(r) = Ids(b) \cup {b.nextExpr} /\ b.nextExpr \notin Ids(b) /\ b.nextExpr \in Nat
         /\ Top(r) = b.nextExpr /\ Top(b) \in Ids(b)
         /\ StartOf(r, b.nextExpr) \in Nat /\ EndOf(r, b.nextExpr) = StartOf(r, b.nextExpr)
         /\ \A x \in Ids(b) : StartOf(r, x) = StartOf(b, x) /\ EndOf(r, x) = EndOf(b, x)
<1> DEFINE e == b.nextExpr
           L == b.layer
<1>1. /\ L \in Nat /\ e \in Nat /\ Len(b.exprStack) = L + 1 /\ b.exprStack \in Seq(Nat)
      /\ Len(b.argIter) = L + 1 /\ b.argIter \in Seq(Nat)
  BY ArgIterOK DEF WriterOK, Writer
<1>2. r.nextExpr = e + 1 /\ r.layer = L + 1 /\ r.exprStack = Append(b.exprStack, e) /\ r.argIter = Append(b.argIter, 0)
  BY DEF PushedAs
<1>3. Ids(r) = Ids(b) \cup {e} /\ e \notin Ids(b)
  <2>1. Ids(r) = -1 .. (e + 1) - 1 /\ Ids(b) = -1 .. e - 1
    BY <1>2 DEF Ids
  <2> HIDE DEF e
  <2> QED BY <1>1, <2>1
<1>4. /\ \A j \in 1 .. L + 1 : r.exprStack[j] = b.exprStack[j] /\ r.argIter[j] = b.argIter[j]
      /\ r.exprStack[L + 2] = e /\ r.argIter[L + 2] = 0 /\ Len(r.exprStack) = L + 2
  <2>1. /\ \A j \in 1 .. L + 1 : Append(b.exprStack, e)[j] = b.exprStack[j]
        /\ Append(b.exprStack, e)[L + 2] = e /\ Len(Append(b.exprStack, e)) = L + 2
    <3> HIDE DEF e, L
    <3> QED BY <1>1, Appended
  <2>2. /\ \A j \in 1 .. L + 1 : Append(b.argIter, 0)[j] = b.argIter[j]
        /\ Append(b.argIter, 0)[L + 2] = 0
    <3> HIDE DEF e, L
    <3>1. 0 \in Nat
      OBVIOUS
    <3> QED BY <1>1, <3>1, Appended
  <2> HIDE DEF e, L
  <2> QED BY <1>2, <2>1, <2>2
<1>5. Top(r) = e /\ L + 2 \in 2 .. r.layer + 1
  <2>1. r.layer = L + 1 /\ L \in Nat
    BY <1>1, <1>2
  <2>2. r.layer # 0 /\ r.layer + 1 = L + 2 /\ L + 2 \in 2 .. L + 2
    <3> HIDE DEF L
    <3> QED BY <2>1
  <2> QED BY <1>4, <2>2 DEF Top
<1>6. StartOf(r, e) \in Nat /\ EndOf(r, e) = StartOf(r, e)
  <2>1. StackUp(r)
    BY DEF Apart
  <2>2. /\ r.exprs[e].start \in Nat /\ StartOf(r, e) = r.exprs[e].start
        /\ EndOf(r, e) = r.exprs[e].start + r.argIter[L + 2]
    <3>1. r.exprStack[L + 2] = e /\ L + 2 \in 2 .. r.layer + 1
      BY <1>4, <1>5
    <3> HIDE DEF L, e
    <3> QED BY <2>1, <3>1, Ends
  <2> QED BY <1>4, <2>2
<1>7. ASSUME NEW x \in Ids(b) PROVE StartOf(r, x) = StartOf(b, x) /\ EndOf(r, x) = EndOf(b, x)
  <2>1. x # e
    BY <1>3
  <2>2. OpenIn(r, x) = OpenIn(b, x) /\ OpenIn(b, x) \subseteq 2 .. L + 1
    <3>1. OpenIn(b, x) = {j \in 2 .. L + 1 : b.exprStack[j] = x} /\ OpenIn(r, x) = {j \in 2 .. L + 2 : r.exprStack[j] = x}
      BY <1>1, <1>4 DEF OpenIn
    <3>2. \A j \in 2 .. L + 2 : j = L + 2 \/ j \in 2 .. L + 1
      BY <1>1
    <3>3. \A j \in 2 .. L + 1 : j \in 2 .. L + 2 /\ j \in 1 .. L + 1
      BY <1>1
    <3> HIDE DEF e, L
    <3> QED BY <1>4, <2>1, <3>1, <3>2, <3>3
  <2>3. x # -1 => r.exprs[x] = b.exprs[x]
    BY <2>1 DEF Apart, PushedAs
  <2>4. r.argIter[1] = b.argIter[1]
    BY <1>1, <1>4
  <2>5. ASSUME OpenIn(b, x) # {}
        PROVE  r.argIter[CHOOSE j \in OpenIn(r, x) : TRUE] = b.argIter[CHOOSE j \in OpenIn(b, x) : TRUE]
    <3>1. (CHOOSE j \in OpenIn(b, x) : TRUE) \in OpenIn(b, x)
      BY <2>5
    <3>2. (CHOOSE j \in OpenIn(b, x) : TRUE) \in 1 .. L + 1
      BY <1>1, <2>2, <3>1
    <3> QED BY <1>4, <2>2, <3>2
  <2> QED BY <2>2, <2>3, <2>4, <2>5 DEF StartOf, EndOf
<1>8. Top(b) \in Ids(b)
  BY TopEnds DEF Apart
<1> QED BY <1>1, <1>3, <1>5, <1>6, <1>7, <1>8

\* It is a new node, without kids, at the end of the path.
LEMMA PushTells ==
  ASSUME NEW b, NEW r, WriterOK(b), WriterOK(r), Apart(b), Apart(r), Legible(b), b.run = 0,
         NEW head \in String, PushedAs(b, r, head), KeyPushed(b, r, head)
  PROVE  /\ Legible(r) /\ PathOf(r) = Append(PathOf(b), b.nextExpr + 2)
         /\ NodesOf(r) = Append(NodesOf(b), [head |-> head, kids |-> <<>>])
<1> DEFINE e == b.nextExpr
           L == b.layer
<1>1. /\ Ids(r) = Ids(b) \cup {e} /\ e \notin Ids(b) /\ e \in Nat /\ Top(r) = e /\ Top(b) \in Ids(b)
      /\ StartOf(r, e) \in Nat /\ EndOf(r, e) = StartOf(r, e)
      /\ \A x \in Ids(b) : StartOf(r, x) = StartOf(b, x) /\ EndOf(r, x) = EndOf(b, x)
  BY PushedEnds
<1>2. /\ r.types = b.types /\ r.args = b.args /\ r.run = 0 /\ r.strings = Append(b.strings, head)
      /\ r.exprStack = Append(b.exprStack, e) /\ r.nextExpr = e + 1 /\ r.layer = L + 1
      /\ r.exprs[e].head = Len(b.strings) /\ \A x \in DOMAIN b.exprs : x # e => r.exprs[x] = b.exprs[x]
  BY DEF PushedAs
<1>3. L \in Nat /\ Len(b.exprStack) = L + 1 /\ b.exprStack \in Seq(Nat) /\ b.strings \in Seq(String)
  BY ArgIterOK DEF WriterOK, Writer
<1>4. /\ Len(b.strings) \in Nat /\ Len(r.strings) = Len(b.strings) + 1 /\ r.strings[Len(b.strings) + 1] = head
      /\ \A n \in 1 .. Len(b.strings) : r.strings[n] = b.strings[n]
  BY <1>2, <1>3
<1>5. Kept(b, r)
  BY <1>4 DEF Kept
<1>6. EncodedIn(b) /\ HeadsIn(b) /\ TextsIn(b) /\ KeysIn(b) /\ RunOff(b)
  BY DEF Legible
<1>7. ASSUME NEW x \in Ids(b)
      PROVE  /\ KidsOf(r, x) = KidsOf(b, x) /\ TextsOf(r, x) /\ HeadAt(r, x) = HeadAt(b, x)
             /\ x # -1 => r.exprs[x].head < Len(r.strings)
             /\ Encoded(r.types, StartOf(r, x), EndOf(r, x), RunIn(r, x))
  <2>1. SameSlice(b, r, x)
    BY <1>1, <1>2 DEF SameSlice, SameKid, ReadsOf
  <2>2. Bounded(b, x) /\ TextsOf(b, x)
    BY <1>6, SlicesBounded DEF TextsIn
  <2>3. KidsOf(r, x) = KidsOf(b, x) /\ TextsOf(r, x)
    BY <1>5, <2>1, <2>2, KidsStay
  <2>4. x # -1 => x \in DOMAIN b.exprs /\ r.exprs[x].head = b.exprs[x].head
    <3>1. x # -1 => x \in DOMAIN b.exprs
      BY DEF Apart
    <3> QED BY <1>1, <1>2, <3>1
  <2>5. RunIn(r, x) = 0 /\ RunIn(b, x) = 0
    BY <1>1 DEF RunIn
  <2>6. Encoded(b.types, StartOf(b, x), EndOf(b, x), 0)
    BY <1>6, <2>5 DEF EncodedIn
  <2>7. HeadAt(r, x) = HeadAt(b, x) /\ (x # -1 => r.exprs[x].head < Len(r.strings))
    BY <1>5, <1>6, <2>4, KeptHeads
  <2> QED BY <1>1, <1>2, <2>3, <2>5, <2>6, <2>7
<1>8. HeadAt(r, e) = head /\ r.exprs[e].head < Len(r.strings)
  <2>1. e # -1
    BY <1>1
  <2>2. HeadAt(r, e) = r.strings[r.exprs[e].head + 1]
    BY <2>1 DEF HeadAt
  <2> QED BY <1>2, <1>4, <2>2
<1>9. SlotsOf(r, e) = {} /\ TextsOf(r, e)
  <2>1. SlotsOf(r, e) = {}
    BY <1>1 DEF SlotsOf
  <2> QED BY <2>1 DEF TextsOf
<1>10. KidsOf(r, e) = <<>>
  <2>1. Bounded(r, e)
    BY <1>1, <1>9 DEF Bounded
  <2>2. Sequence(KidsOf(r, e), EndOf(r, e) - StartOf(r, e))
    BY <2>1, KidPlaces
  <2>3. EndOf(r, e) - StartOf(r, e) = 0
    BY <1>1
  <2>4. Sequence(KidsOf(r, e), 0)
    BY <2>2, <2>3
  <2>5. KidsOf(r, e) \in Seq({KidsOf(r, e)[k] : k \in 1 .. 0}) /\ Len(KidsOf(r, e)) = 0
    BY <2>4, SequenceLast
  <2> QED BY <2>5, EmptySeq
<1>11. NodeOf(r, e) = [head |-> head, kids |-> <<>>]
  BY <1>8, <1>10 DEF NodeOf
<1>12. EncodedIn(r)
  <2>1. Encoded(r.types, StartOf(r, e), EndOf(r, e), RunIn(r, e))
    BY <1>1, <1>2, EncodedEmpty DEF RunIn
  <2> QED BY <1>1, <1>7, <2>1 DEF EncodedIn
<1>13. HeadsIn(r) /\ TextsIn(r)
  BY <1>1, <1>7, <1>8, <1>9 DEF HeadsIn, TextsIn
<1>14. KeysIn(r)
  <2>1. /\ \A j \in 1 .. L + 1 : r.exprStack[j] = b.exprStack[j]
        /\ r.exprStack[L + 2] = e
    <3>1. /\ \A j \in 1 .. L + 1 : Append(b.exprStack, e)[j] = b.exprStack[j]
          /\ Append(b.exprStack, e)[L + 2] = e
      <4> HIDE DEF e, L
      <4> QED BY <1>1, <1>3, Appended
    <3> QED BY <1>2, <3>1
  <2>2. ASSUME NEW j \in 2 .. (L + 1) + 1
        PROVE  j - 1 \in r.keyValue <=> HeadAt(r, r.exprStack[j]).text = "key"
    <3>1. CASE j = L + 2
      <4>1. j - 1 = L + 1
        BY <1>3, <3>1
      <4>2. L + 1 \in r.keyValue <=> head.text = "key"
        BY DEF KeyPushed
      <4> QED BY <1>8, <2>1, <3>1, <4>1, <4>2
    <3>2. CASE j # L + 2
      <4>1. j \in 2 .. b.layer + 1 /\ j \in 1 .. L + 1 /\ j - 1 \in 1 .. L
        BY <1>3, <3>2
      <4>2. b.exprStack[j] \in Ids(b)
        BY <4>1, Ends DEF Apart
      <4>3. HeadAt(r, r.exprStack[j]) = HeadAt(b, b.exprStack[j])
        BY <1>7, <2>1, <4>1, <4>2
      <4>4. j - 1 \in b.keyValue <=> HeadAt(b, b.exprStack[j]).text = "key"
        BY <1>6, <4>1 DEF KeysIn
      <4>5. j - 1 \in r.keyValue <=> j - 1 \in b.keyValue
        BY <4>1 DEF KeyPushed
      <4> QED BY <4>3, <4>4, <4>5
    <3> QED BY <3>1, <3>2
  <2> QED BY <1>2, <2>2 DEF KeysIn
<1>15. RunOff(r)
  BY <1>2 DEF RunOff
<1>16. NodesOf(r) = Append(NodesOf(b), [head |-> head, kids |-> <<>>])
  <2>1. Sequence(NodesOf(b), e + 1) /\ Sequence(NodesOf(r), (e + 1) + 1)
    BY <1>2, NodePlaces DEF Apart
  <2>2. /\ \A n \in 1 .. e + 1 : NodesOf(b)[n] = NodeOf(b, n - 2)
        /\ \A n \in 1 .. (e + 1) + 1 : NodesOf(r)[n] = NodeOf(r, n - 2)
    BY <1>2 DEF NodesOf
  <2>3. ASSUME NEW n \in 1 .. e + 1 PROVE NodesOf(r)[n] = NodesOf(b)[n]
    <3>1. n - 2 \in Ids(b) /\ n \in 1 .. (e + 1) + 1
      BY <1>1 DEF Ids
    <3>2. NodeOf(r, n - 2) = NodeOf(b, n - 2)
      BY <1>7, <3>1 DEF NodeOf
    <3> QED BY <2>2, <3>1, <3>2
  <2>4. NodesOf(r)[(e + 1) + 1] = NodeOf(r, e)
    <3>1. (e + 1) + 1 \in 1 .. (e + 1) + 1 /\ ((e + 1) + 1) - 2 = e
      BY <1>1
    <3> QED BY <2>2, <3>1
  <2>5. NodesOf(r) = Append(NodesOf(b), NodesOf(r)[(e + 1) + 1])
    BY <2>1, <2>3, SequenceGrows
  <2> QED BY <1>11, <2>4, <2>5
<1>17. PathOf(r) = Append(PathOf(b), e + 2)
  <2>1. Sequence(PathOf(b), L + 1) /\ Sequence(PathOf(r), (L + 1) + 1)
    BY <1>2, NodePlaces DEF Apart
  <2>2. /\ \A k \in 1 .. L + 1 : PathOf(b)[k] = IF k = 1 THEN 1 ELSE b.exprStack[k] + 2
        /\ \A k \in 1 .. (L + 1) + 1 : PathOf(r)[k] = IF k = 1 THEN 1 ELSE r.exprStack[k] + 2
    BY <1>2 DEF PathOf
  <2>3. \A k \in 1 .. L + 1 : r.exprStack[k] = b.exprStack[k] /\ k \in 1 .. (L + 1) + 1
    BY <1>2, <1>3
  <2>4. \A k \in 1 .. L + 1 : PathOf(r)[k] = PathOf(b)[k]
    BY <2>2, <2>3
  <2>5. r.exprStack[(L + 1) + 1] = e /\ (L + 1) + 1 \in 1 .. (L + 1) + 1 /\ (L + 1) + 1 # 1
    BY <1>2, <1>3
  <2>6. PathOf(r)[(L + 1) + 1] = e + 2
    BY <2>2, <2>5
  <2>7. PathOf(r) = Append(PathOf(b), PathOf(r)[(L + 1) + 1])
    BY <2>1, <2>4, SequenceGrows
  <2> QED BY <2>6, <2>7
<1> QED BY <1>12, <1>13, <1>14, <1>15, <1>16, <1>17 DEF Legible

\* addExpression, field by field.
ExpressionAs(v, b, e, i) ==
  /\ b.types = Ended([v.types EXCEPT ![i] = ARGUMENT_TYPE_EXPRESSION], i, v.run)
  /\ b.args = [v.args EXCEPT ![i] = <<e>>]
  /\ b.argIter = [v.argIter EXCEPT ![Len(v.argIter)] = @ + 1] /\ b.run = 0
  /\ b.exprs = v.exprs /\ b.strings = v.strings /\ b.cumul = v.cumul /\ b.keyValue = v.keyValue
  /\ b.exprStack = v.exprStack /\ b.nextExpr = v.nextExpr /\ b.layer = v.layer /\ ~b.wild
  /\ DOMAIN b = DOMAIN v

\* What addExpression stores.
LEMMA ExpressionParts ==
  ASSUME NEW v \in Writer, ~v.wild, NEW e, NEW i, i = NextArgumentIndex(v), i \in DOMAIN v.types
  PROVE  ExpressionAs(v, addExpression(v, e), e, i)
<1> DEFINE p == PutArgument(v, ARGUMENT_TYPE_EXPRESSION, <<e>>)
           b == addExpression(v, e)
           types == [v.types EXCEPT ![i] = ARGUMENT_TYPE_EXPRESSION]
           args == [v.args EXCEPT ![i] = <<e>>]
           argIter == [v.argIter EXCEPT ![Len(v.argIter)] = @ + 1]
<1>1. p = [v EXCEPT !.types = types, !.args = args, !.argIter = argIter]
  BY DEF PutArgument, Writer
<1> HIDE DEF types, args, argIter
<1>2. ~p.wild
  BY <1>1 DEF Writer
<1>3. b = resetTypeRLE(p, i)
  BY <1>2 DEF addExpression
<1> HIDE DEF p, b
<1>4. b = [p EXCEPT !.types = Ended(p.types, i, p.run), !.run = 0]
  BY <1>1, <1>3 DEF resetTypeRLE, Ended, Writer
<1>5. p.types = types /\ p.run = v.run
  BY <1>1 DEF Writer
<1>6. b = [v EXCEPT !.types = Ended(types, i, v.run), !.args = args, !.argIter = argIter, !.run = 0]
  BY <1>1, <1>4, <1>5 DEF Writer
<1> QED BY <1>6 DEF b, types, args, argIter, Writer, ExpressionAs

\* startExpression is addExpression and a push.
LEMMA StartPushed ==
  ASSUME NEW v, Ready(v), NEW head \in String, v.nextExpr \in DOMAIN v.exprs, v.layer \in DOMAIN v.cumul
  PROVE  /\ PushedAs(addExpression(v, v.nextExpr), startExpression(v, head), head)
         /\ startExpression(v, head).keyValue = v.keyValue
<1> DEFINE e == v.nextExpr
           i == NextArgumentIndex(v)
           u == [v EXCEPT !.nextExpr = e + 1]
           a == addExpression(u, e)
           b == addExpression(v, e)
           s == storeString(a, head)
           x == [head |-> Len(v.strings), start |-> v.cumul[v.layer], end |-> 0]
           r == startExpression(v, head)
<1>1. v \in Writer /\ ~v.wild /\ e \in Nat /\ i \in DOMAIN v.types
  BY DEF Ready, WriterOK, Writer
<1>2. u \in Writer
  <2>1. e + 1 \in Nat
    BY <1>1
  <2> QED BY <1>1, <2>1 DEF Writer
<1>3. /\ u.types = v.types /\ u.args = v.args /\ u.argIter = v.argIter /\ u.exprStack = v.exprStack
      /\ u.exprs = v.exprs /\ u.run = v.run /\ u.layer = v.layer /\ u.keyValue = v.keyValue
      /\ u.cumul = v.cumul /\ u.wild = v.wild /\ u.strings = v.strings /\ u.nextExpr = e + 1
  BY <1>1 DEF Writer
<1>0. r = IF s.wild \/ e \notin DOMAIN v.exprs \/ v.layer \notin DOMAIN v.cumul
          THEN [s EXCEPT !.wild = TRUE]
          ELSE [s EXCEPT !.exprs[e] = x, !.layer = v.layer + 1, !.argIter = Append(@, 0),
                         !.exprStack = Append(@, e)]
  BY DEF startExpression
<1>9. DOMAIN u = DOMAIN v
  BY <1>1 DEF Writer
<1> HIDE DEF u
<1>4. NextArgumentIndex(u) = i
  BY <1>3 DEF NextArgumentIndex, StartChildOffset
<1>5. /\ a.types = Ended([u.types EXCEPT ![i] = ARGUMENT_TYPE_EXPRESSION], i, u.run)
      /\ a.args = [u.args EXCEPT ![i] = <<e>>]
      /\ a.argIter = [u.argIter EXCEPT ![Len(u.argIter)] = @ + 1] /\ a.run = 0
      /\ a.exprs = u.exprs /\ a.strings = u.strings /\ a.cumul = u.cumul /\ a.keyValue = u.keyValue
      /\ a.exprStack = u.exprStack /\ a.nextExpr = u.nextExpr /\ a.layer = u.layer /\ ~a.wild
      /\ DOMAIN a = DOMAIN u
  <2> HIDE DEF i
  <2>1. i = NextArgumentIndex(u) /\ i \in DOMAIN u.types /\ ~u.wild
    BY <1>1, <1>3, <1>4
  <2>2. ExpressionAs(u, a, e, i)
    BY <1>2, <2>1, ExpressionParts
  <2> HIDE DEF a
  <2> QED BY <2>2 DEF ExpressionAs
<1>6. /\ b.types = Ended([v.types EXCEPT ![i] = ARGUMENT_TYPE_EXPRESSION], i, v.run)
      /\ b.args = [v.args EXCEPT ![i] = <<e>>]
      /\ b.argIter = [v.argIter EXCEPT ![Len(v.argIter)] = @ + 1] /\ b.run = 0
      /\ b.exprs = v.exprs /\ b.strings = v.strings
      /\ b.exprStack = v.exprStack /\ b.nextExpr = e /\ b.layer = v.layer
  <2> HIDE DEF i
  <2>1. i = NextArgumentIndex(v)
    BY DEF i
  <2>2. ExpressionAs(v, b, e, i)
    BY <1>1, <2>1, ExpressionParts
  <2> HIDE DEF b
  <2> QED BY <2>2 DEF ExpressionAs
<1> HIDE DEF a, b, i
<1>7. s = [a EXCEPT !.strings = Append(a.strings, head)]
  BY DEF storeString
<1>8. DOMAIN v = {"types", "args", "exprs", "strings", "cumul", "keyValue", "argIter", "exprStack", "nextExpr",
                  "layer", "run", "wild"}
  BY <1>1 DEF Writer
<1>10. DOMAIN a = {"types", "args", "exprs", "strings", "cumul", "keyValue", "argIter", "exprStack", "nextExpr",
                  "layer", "run", "wild"}
  BY <1>5, <1>8, <1>9
<1> HIDE DEF s, x, r
<1>11. /\ s.types = a.types /\ s.args = a.args /\ s.argIter = a.argIter /\ s.run = a.run
       /\ s.exprs = a.exprs /\ s.strings = Append(a.strings, head) /\ s.keyValue = a.keyValue
       /\ s.exprStack = a.exprStack /\ s.nextExpr = a.nextExpr /\ s.layer = a.layer /\ s.wild = a.wild
       /\ DOMAIN s = DOMAIN a
  BY <1>7, <1>10
<1>12. r = [s EXCEPT !.exprs = [s.exprs EXCEPT ![e] = x], !.layer = v.layer + 1, !.argIter = Append(s.argIter, 0),
                     !.exprStack = Append(s.exprStack, e)]
  BY <1>0, <1>5, <1>11
<1>13. /\ r.types = s.types /\ r.args = s.args /\ r.argIter = Append(s.argIter, 0) /\ r.run = s.run
       /\ r.exprs = [s.exprs EXCEPT ![e] = x] /\ r.strings = s.strings /\ r.keyValue = s.keyValue
       /\ r.exprStack = Append(s.exprStack, e) /\ r.nextExpr = s.nextExpr /\ r.layer = v.layer + 1
  BY <1>10, <1>11, <1>12
<1>14. x.head = Len(v.strings)
  BY DEF x
<1>15. /\ r.types = b.types /\ r.args = b.args /\ r.run = b.run /\ r.strings = Append(b.strings, head)
       /\ r.argIter = Append(b.argIter, 0) /\ r.exprStack = Append(b.exprStack, e)
       /\ r.nextExpr = e + 1 /\ r.layer = b.layer + 1 /\ r.exprs = [b.exprs EXCEPT ![e] = x]
       /\ r.keyValue = v.keyValue
  BY <1>3, <1>5, <1>6, <1>11, <1>13
<1>16. e \in DOMAIN b.exprs /\ b.nextExpr = e /\ x.head = Len(b.strings)
  BY <1>6, <1>14
<1>17. PushedAs(b, r, head)
  BY <1>15, <1>16 DEF PushedAs
<1> QED BY <1>15, <1>17 DEF b, r

Opens(v, r, head) ==
  LET n == Len(NodesOf(v)) + 1
      kid == [type |-> "Expression", value |-> [text |-> "node", at |-> <<n>>]]
  IN /\ NodesOf(r) = Append([NodesOf(v) EXCEPT ![Last(PathOf(v))].kids = Append(@, kid)],
                            [head |-> head, kids |-> <<>>])
     /\ PathOf(r) = Append(PathOf(v), n)

\* It adds the node to the kids of the one that it is in, and opens it.
LEMMA StartTells ==
  ASSUME NEW v, Ready(v), NEW r, NEW head \in String, WriterOK(r), Apart(r), Apart(addExpression(v, v.nextExpr)),
         PushedAs(addExpression(v, v.nextExpr), r, head), KeyPushed(v, r, head)
  PROVE  Legible(r) /\ Opens(v, r, head)
<1> DEFINE e == v.nextExpr
           i == NextArgumentIndex(v)
           s == StartOf(v, Top(v))
           b == addExpression(v, e)
           kid == [type |-> "Expression", value |-> [text |-> "node", at |-> <<Len(NodesOf(v)) + 1>>]]
<1>1. /\ WriterOK(v) /\ ~v.wild /\ Apart(v) /\ Legible(v) /\ e \in Nat /\ i \in DOMAIN v.types
      /\ i = EndOf(v, Top(v)) /\ s .. i \subseteq DOMAIN v.types /\ Encoded(v.types, s, i, v.run)
      /\ StackUp(v)
  BY ReadyTop DEF Ready, WriterOK, Writer
<1>2. WriterOK(b) /\ Stored(v, b)
  BY <1>1, AddExpressionOK, ExpressionStores
<1>3. Tagged(v, b, s, i, ARGUMENT_TYPE_EXPRESSION, <<e>>) /\ b.run = 0
  BY <1>1, ExpressionTags
<1>4. Apart(b) /\ PushedAs(b, r, head)
  OBVIOUS
<1> HIDE DEF b, s
<1>5. TagAdded(v, b, s, i, ARGUMENT_TYPE_EXPRESSION) /\ RunOff(b) /\ b.args[i] = <<e>> /\ b.strings = v.strings
  BY <1>3 DEF Tagged
<1>6. Kept(v, b)
  <2>1. v.strings \in Seq(String)
    BY <1>1 DEF WriterOK, Writer
  <2> QED BY <1>5, <2>1 DEF Kept
<1>7. ARGUMENT_TYPE_EXPRESSION \notin Texted
  BY DEF Texted, ARGUMENT_TYPE_STRING, ARGUMENT_TYPE_SYMBOL, ARGUMENT_TYPE_EXPRESSION
<1>8. Legible(b) /\ Argued(v, b, ArgumentOf(b, ARGUMENT_TYPE_EXPRESSION, <<e>>))
  BY <1>1, <1>2, <1>4, <1>5, <1>6, <1>7, StoreTells DEF s
<1>9. Len(NodesOf(v)) + 1 = e + 2
  <2>1. Len(NodesOf(v)) = e + 1
    BY <1>1, NodePlaces
  <2> HIDE DEF e
  <2> QED BY <1>1, <2>1
<1>10. ArgumentOf(b, ARGUMENT_TYPE_EXPRESSION, <<e>>) = kid
  <2>1. TypeName(ARGUMENT_TYPE_EXPRESSION) = "Expression"
    BY DEF TypeName, ARGUMENT_TYPE_STRING, ARGUMENT_TYPE_SYMBOL, ARGUMENT_TYPE_LONG, ARGUMENT_TYPE_DOUBLE,
           ARGUMENT_TYPE_EXPRESSION
  <2>2. <<e>>[1] = e
    OBVIOUS
  <2> HIDE DEF e
  <2> QED BY <1>9, <2>1, <2>2 DEF ArgumentOf
<1>11. b.nextExpr = e /\ b.layer = v.layer /\ b.keyValue = v.keyValue
  BY <1>2 DEF Stored, OneStored
<1>12. KeyPushed(b, r, head)
  BY <1>11 DEF KeyPushed
<1>13. /\ Legible(r) /\ PathOf(r) = Append(PathOf(b), b.nextExpr + 2)
       /\ NodesOf(r) = Append(NodesOf(b), [head |-> head, kids |-> <<>>])
  BY <1>2, <1>3, <1>4, <1>8, <1>12, PushTells
<1>14. PathOf(b) = PathOf(v) /\ NodesOf(b) = [NodesOf(v) EXCEPT ![Last(PathOf(v))].kids = Append(@, kid)]
  BY <1>8, <1>10 DEF Argued
<1>15. PathOf(r) = Append(PathOf(v), Len(NodesOf(v)) + 1)
  BY <1>9, <1>11, <1>13, <1>14
<1> QED BY <1>13, <1>14, <1>15 DEF Opens

\* endExpression, as far as the tree depends on it.
ClosedAs(v, r, T) ==
  /\ r.types = resetTypeRLE(v, EndSlotOf(v)).types /\ r.run = 0
  /\ r.args = v.args /\ r.strings = v.strings /\ r.keyValue = v.keyValue
  /\ r.nextExpr = v.nextExpr /\ r.layer = v.layer - 1
  /\ r.exprStack = Front(v.exprStack) /\ r.argIter = Front(v.argIter)
  /\ DOMAIN r.exprs = DOMAIN v.exprs /\ \A e \in DOMAIN v.exprs : e # T => r.exprs[e] = v.exprs[e]
  /\ r.exprs[T].head = v.exprs[T].head /\ r.exprs[T].start = v.exprs[T].start /\ r.exprs[T].end = EndSlotOf(v)

\* What endExpression stores.
LEMMA EndParts ==
  ASSUME NEW v, WriterOK(v), v.layer >= 1
  PROVE  ClosedAs(v, endExpression(v), Last(v.exprStack)) /\ Last(v.exprStack) \in DOMAIN v.exprs
<1> DEFINE e == Last(v.exprStack)
           end == v.exprs[e].start + Last(v.argIter)
           u == resetTypeRLE(v, end)
           x == [v.exprs[e] EXCEPT !.end = end]
           r == endExpression(v)
<1>1. v \in Writer /\ StacksOK(v) /\ v.layer \in Nat
  BY DEF WriterOK, Writer
<1>2. e \in DOMAIN v.exprs /\ v.exprs[e] \in Expression
  <2>1. Len(v.exprStack) \in 2 .. Len(v.exprStack) /\ e = v.exprStack[Len(v.exprStack)]
    BY <1>1, LastOK
  <2>2. v.exprs \in Vector(Expression)
    BY <1>1 DEF Writer
  <2> HIDE DEF e
  <2>3. e \in DOMAIN v.exprs
    BY <1>1, <2>1 DEF StacksOK
  <2> QED BY <2>2, <2>3, VectorOK
<1>3. end \in Nat /\ v.run <= end
  <2>1. v.exprs[e].start \in Nat
    BY <1>2 DEF Expression
  <2>2. Last(v.argIter) \in Nat /\ v.run \in Nat /\ v.run <= Last(v.argIter)
    BY LastOK
  <2> HIDE DEF e
  <2> QED BY <2>1, <2>2
<1>4. x.head = v.exprs[e].head /\ x.start = v.exprs[e].start /\ x.end = end
  BY <1>2 DEF Expression
<1>5. r = [u EXCEPT !.exprs[e].end = end, !.argIter = Front(@), !.exprStack = Front(@),
                    !.layer = v.layer - 1, !.cumul[v.layer - 1] = end]
  BY DEF endExpression
<1>6. end = EndSlotOf(v)
  BY DEF EndSlotOf
<1>7. WriterOK(u) /\ OnlyTypes(v, u) /\ u.run = 0
  BY <1>3, ResetOK
<1>0. u.types = resetTypeRLE(v, end).types
  OBVIOUS
<1> HIDE DEF u, end, r
<1>8. /\ u \in Writer /\ u.exprs = v.exprs /\ u.argIter = v.argIter /\ u.exprStack = v.exprStack /\ u.cumul = v.cumul
      /\ u.args = v.args /\ u.strings = v.strings /\ u.keyValue = v.keyValue /\ u.nextExpr = v.nextExpr
  BY <1>7 DEF WriterOK, OnlyTypes
<1>9. r = [u EXCEPT !.exprs = [v.exprs EXCEPT ![e] = x], !.argIter = Front(v.argIter),
                    !.exprStack = Front(v.exprStack), !.layer = v.layer - 1,
                    !.cumul = [v.cumul EXCEPT ![v.layer - 1] = end]]
  BY <1>5, <1>8 DEF Writer
<1> HIDE DEF x, e
<1>10. /\ r.exprs = [v.exprs EXCEPT ![e] = x] /\ r.argIter = Front(v.argIter)
       /\ r.exprStack = Front(v.exprStack) /\ r.layer = v.layer - 1
       /\ r.types = u.types /\ r.args = v.args /\ r.strings = v.strings /\ r.run = 0
       /\ r.nextExpr = v.nextExpr /\ r.keyValue = v.keyValue
  BY <1>7, <1>8, <1>9 DEF Writer
<1>11. /\ DOMAIN r.exprs = DOMAIN v.exprs /\ r.exprs[e] = x
       /\ \A f \in DOMAIN v.exprs : f # e => r.exprs[f] = v.exprs[f]
  BY <1>2, <1>10
<1>12. ClosedAs(v, r, e)
  BY <1>0, <1>4, <1>6, <1>10, <1>11 DEF ClosedAs
<1> QED BY <1>2, <1>12 DEF r, e

\* The stack below its top.
LEMMA PopTo ==
  ASSUME NEW s \in Seq(Nat), NEW n \in Nat, Len(s) = n + 1
  PROVE  Len(Front(s)) = n /\ \A j \in 1 .. n : Front(s)[j] = s[j]
<1>1. s # <<>> /\ Len(s) - 1 = n
  OBVIOUS
<1>2. Len(Front(s)) = Len(s) - 1 /\ \A j \in 1 .. Len(s) - 1 : Front(s)[j] = s[j]
  BY <1>1, PopStack
<1> QED BY <1>1, <1>2

\* endExpression records the end of the slice that it had reached.
LEMMA EndEnds ==
  ASSUME NEW v, NEW r, WriterOK(v), WriterOK(r), v.layer >= 1, Apart(v), Apart(r), ClosedAs(v, r, Top(v))
  PROVE  /\ Ids(r) = Ids(v) /\ EndOf(v, Top(v)) = EndSlotOf(v)
         /\ \A x \in Ids(v) : StartOf(r, x) = StartOf(v, x) /\ EndOf(r, x) = EndOf(v, x)
<1> DEFINE T == Top(v)
           L == v.layer
<1>1. /\ L \in Nat /\ L # 0 /\ Len(v.exprStack) = L + 1 /\ v.exprStack \in Seq(Nat)
      /\ Len(v.argIter) = L + 1 /\ v.argIter \in Seq(Nat) /\ Last(v.argIter) = v.argIter[L + 1]
      /\ StackUp(v) /\ StackUp(r)
  BY ArgIterOK DEF Apart
<1>2. /\ r.layer = L - 1 /\ r.exprStack = Front(v.exprStack) /\ r.argIter = Front(v.argIter)
      /\ r.nextExpr = v.nextExpr /\ \A e \in DOMAIN v.exprs : e # T => r.exprs[e] = v.exprs[e]
      /\ r.exprs[T].start = v.exprs[T].start /\ r.exprs[T].end = EndSlotOf(v)
  BY DEF ClosedAs
<1>3. Ids(r) = Ids(v)
  BY <1>2 DEF Ids
<1>4. /\ Len(r.exprStack) = L /\ \A j \in 1 .. L : r.exprStack[j] = v.exprStack[j] /\ r.argIter[j] = v.argIter[j]
      /\ L + 1 \in 2 .. L + 1
  <2>2. L + 1 \in 2 .. L + 1
    BY <1>1
  <2> HIDE DEF L
  <2>3. Len(r.exprStack) = L /\ \A j \in 1 .. L : r.exprStack[j] = v.exprStack[j]
    <3>1. Len(Front(v.exprStack)) = L /\ \A j \in 1 .. L : Front(v.exprStack)[j] = v.exprStack[j]
      BY <1>1, PopTo
    <3> QED BY <1>2, <3>1
  <2>4. \A j \in 1 .. L : r.argIter[j] = v.argIter[j]
    <3>1. \A j \in 1 .. L : Front(v.argIter)[j] = v.argIter[j]
      BY <1>1, PopTo
    <3> QED BY <1>2, <3>1
  <2> QED BY <2>2, <2>3, <2>4
<1>5. T \in Nat /\ T = v.exprStack[L + 1] /\ T = Last(v.exprStack) /\ EndOf(v, T) = EndSlotOf(v)
  <2>1. T = v.exprStack[L + 1]
    BY <1>1 DEF Top
  <2>2. T \in Nat /\ EndOf(v, T) = v.exprs[T].start + v.argIter[L + 1]
    <3>1. L + 1 \in 2 .. v.layer + 1
      BY <1>4
    <3> HIDE DEF L, T
    <3>2. /\ v.exprStack[L + 1] \in Nat
          /\ EndOf(v, v.exprStack[L + 1]) = v.exprs[v.exprStack[L + 1]].start + v.argIter[L + 1]
      BY <1>1, <3>1, Ends
    <3> QED BY <2>1, <3>2
  <2>3. T = Last(v.exprStack)
    BY <1>1, TopEnds
  <2> HIDE DEF T
  <2> QED BY <1>1, <2>1, <2>2, <2>3 DEF EndSlotOf
<1>6. \A j \in 2 .. L : r.exprStack[j] # T
  <2> TAKE j \in 2 .. L
  <2> HIDE DEF L, T
  <2>1. j \in 2 .. L + 1 /\ j < L + 1 /\ j \in 1 .. L
    BY <1>1
  <2>2. v.exprStack[j] < v.exprStack[L + 1] /\ v.exprStack[j] \in Nat
    <3>1. v.exprStack[j] \in Nat
      BY <1>1, <2>1, Ends DEF L
    <3>2. v.exprStack[j] < v.exprStack[L + 1]
      BY <1>1, <1>4, <2>1 DEF L, StackUp
    <3> QED BY <3>1, <3>2
  <2> QED BY <1>4, <1>5, <2>1, <2>2
<1>7. StartOf(r, T) = StartOf(v, T) /\ EndOf(r, T) = EndOf(v, T)
  <2>1. r.layer + 1 = L
    BY <1>1, <1>2
  <2>2. EndOf(r, T) = r.exprs[T].end /\ StartOf(r, T) = r.exprs[T].start /\ StartOf(v, T) = v.exprs[T].start
    BY <1>1, <1>5, <1>6, <2>1, Ends
  <2> QED BY <1>2, <1>5, <2>2
<1>8. ASSUME NEW x \in Ids(v), x # T PROVE StartOf(r, x) = StartOf(v, x) /\ EndOf(r, x) = EndOf(v, x)
  <2>1. OpenIn(r, x) = OpenIn(v, x) /\ OpenIn(v, x) \subseteq 1 .. L
    <3>1. OpenIn(v, x) = {j \in 2 .. L + 1 : v.exprStack[j] = x} /\ OpenIn(r, x) = {j \in 2 .. L : r.exprStack[j] = x}
      BY <1>1, <1>4 DEF OpenIn
    <3>2. \A j \in 2 .. L + 1 : j = L + 1 \/ j \in 2 .. L
      BY <1>1
    <3>3. \A j \in 2 .. L : j \in 2 .. L + 1 /\ j \in 1 .. L
      BY <1>1
    <3> HIDE DEF L, T
    <3> QED BY <1>4, <1>5, <1>8, <3>1, <3>2, <3>3
  <2>2. x # -1 => r.exprs[x] = v.exprs[x]
    BY <1>2, <1>8 DEF Apart
  <2>3. r.argIter[1] = v.argIter[1]
    <3>1. 1 \in 1 .. L
      BY <1>1
    <3> QED BY <1>4, <3>1
  <2>4. ASSUME OpenIn(v, x) # {}
        PROVE  r.argIter[CHOOSE j \in OpenIn(r, x) : TRUE] = v.argIter[CHOOSE j \in OpenIn(v, x) : TRUE]
    <3>1. (CHOOSE j \in OpenIn(v, x) : TRUE) \in OpenIn(v, x)
      BY <2>4
    <3>2. (CHOOSE j \in OpenIn(v, x) : TRUE) \in 1 .. L
      BY <2>1, <3>1
    <3> QED BY <1>4, <2>1, <3>2
  <2> QED BY <2>1, <2>2, <2>3, <2>4 DEF StartOf, EndOf
<1> QED BY <1>3, <1>5, <1>7, <1>8

Shuts(v, r) == NodesOf(r) = NodesOf(v) /\ PathOf(r) = Front(PathOf(v))

\* The bit of the open layer does not matter when it is closed.
KeysUnder(v) ==
  \A j \in 2 .. v.layer : j - 1 \in v.keyValue <=> HeadAt(v, v.exprStack[j]).text = "key"

\* It leaves every node as it is, and takes the last one from the path.
LEMMA EndTells ==
  ASSUME NEW v, WriterOK(v), Apart(v), v.layer >= 1, WriterOK(endExpression(v)), Apart(endExpression(v)),
         EncodedIn(v), HeadsIn(v), TextsIn(v), KeysUnder(v)
  PROVE  Legible(endExpression(v)) /\ Shuts(v, endExpression(v))
<1> DEFINE T == Top(v)
           L == v.layer
           s == StartOf(v, T)
           i == EndSlotOf(v)
           r == endExpression(v)
<1>1. /\ L \in Nat /\ L # 0 /\ Len(v.exprStack) = L + 1 /\ v.exprStack \in Seq(Nat) /\ StackUp(v)
      /\ EncodedIn(v) /\ HeadsIn(v) /\ TextsIn(v) /\ KeysUnder(v)
  BY ArgIterOK DEF Apart
<1>2. T \in Ids(v) /\ T \in DOMAIN v.exprs /\ ClosedAs(v, r, T)
  BY <1>1, TopEnds, EndParts
<1>3. WriterOK(r) /\ Apart(r)
  OBVIOUS
<1>4. r.types = resetTypeRLE(v, i).types
  BY <1>2 DEF ClosedAs
<1> HIDE DEF r
<1>5. /\ r.run = 0
      /\ r.args = v.args /\ r.strings = v.strings /\ r.keyValue = v.keyValue
      /\ r.nextExpr = v.nextExpr /\ r.layer = L - 1 /\ r.exprStack = Front(v.exprStack)
      /\ \A e \in DOMAIN v.exprs : r.exprs[e].head = v.exprs[e].head
  BY <1>2 DEF ClosedAs
<1>6. /\ Ids(r) = Ids(v) /\ EndOf(v, T) = i
      /\ \A x \in Ids(v) : StartOf(r, x) = StartOf(v, x) /\ EndOf(r, x) = EndOf(v, x)
  BY <1>2, <1>3, EndEnds
<1>7. Encoded(v.types, s, i, v.run) /\ s .. i - 1 \subseteq DOMAIN v.types /\ SlotsOf(v, T) = s .. i - 1
  <2>1. Encoded(v.types, s, EndOf(v, T), RunIn(v, T)) /\ SlotsOf(v, T) \subseteq DOMAIN v.types
    BY <1>1, <1>2 DEF EncodedIn, Apart
  <2>2. RunIn(v, T) = v.run
    BY DEF RunIn
  <2> QED BY <1>6, <2>1, <2>2 DEF SlotsOf
<1> HIDE DEF i, s
<1>8. /\ Encoded(r.types, s, i, 0) /\ ReadTypes(r.types, s, i) = ReadTypes(v.types, s, i)
      /\ \A j \in DOMAIN v.types : j \notin s .. i - 1 => r.types[j] = v.types[j]
  <2>1. TagsEnded(v, resetTypeRLE(v, i), s, i)
    BY <1>7, ResetTags
  <2> QED BY <1>4, <2>1 DEF TagsEnded
<1>9. \A x : RunIn(r, x) = 0
  BY <1>5 DEF RunIn
<1>10. ASSUME NEW x \in Ids(v)
       PROVE  SameSlice(v, r, x) /\ Encoded(r.types, StartOf(r, x), EndOf(r, x), 0)
  <2>1. CASE x = T
    <3>1. StartOf(r, x) = s /\ EndOf(r, x) = i /\ StartOf(v, x) = s /\ EndOf(v, x) = i
      BY <1>6, <2>1 DEF s
    <3>2. ReadsOf(r, x) = ReadsOf(v, x)
      BY <1>8, <3>1 DEF ReadsOf
    <3> QED BY <1>5, <1>8, <3>1, <3>2 DEF SameSlice, SameKid
  <2>2. CASE x # T
    <3>1. \A j \in SlotsOf(v, x) : j \in DOMAIN v.types /\ j \notin s .. i - 1
      BY <1>2, <1>7, <2>2 DEF Apart
    <3>2. SliceKept(v, r, x)
      BY <1>5, <1>6, <1>8, <3>1 DEF SliceKept
    <3>3. RunIn(v, x) = 0
      BY <2>2 DEF RunIn
    <3>4. Encoded(v.types, StartOf(v, x), EndOf(v, x), 0)
      BY <1>1, <3>3 DEF EncodedIn
    <3> QED BY <3>2, <3>4, SliceReads
  <2> QED BY <2>1, <2>2
<1>11. EncodedIn(r) /\ RunOff(r)
  BY <1>5, <1>6, <1>9, <1>10 DEF EncodedIn, RunOff
<1>12. Kept(v, r)
  <2>1. v.strings \in Seq(String)
    BY DEF WriterOK, Writer
  <2> QED BY <1>5, <2>1 DEF Kept
<1>13. ASSUME NEW x \in Ids(v)
       PROVE  KidsOf(r, x) = KidsOf(v, x) /\ TextsOf(r, x) /\ HeadAt(r, x) = HeadAt(v, x)
              /\ (x # -1 => r.exprs[x].head < Len(r.strings))
  <2>1. Bounded(v, x) /\ TextsOf(v, x)
    BY <1>1, SlicesBounded DEF TextsIn
  <2>2. KidsOf(r, x) = KidsOf(v, x) /\ TextsOf(r, x)
    BY <1>3, <1>10, <1>12, <2>1, KidsStay
  <2>3. x # -1 => x \in DOMAIN v.exprs /\ r.exprs[x].head = v.exprs[x].head
    BY <1>5 DEF Apart
  <2> QED BY <1>1, <1>3, <1>12, <2>2, <2>3, KeptHeads
<1>14. HeadsIn(r) /\ TextsIn(r)
  BY <1>6, <1>13 DEF HeadsIn, TextsIn
<1>15. \A j \in 1 .. L : r.exprStack[j] = v.exprStack[j]
  <2> HIDE DEF L, T
  <2> QED BY <1>1, <1>5, PopTo
<1>16. KeysIn(r)
  <2>1. ASSUME NEW j \in 2 .. (L - 1) + 1 PROVE j - 1 \in r.keyValue <=> HeadAt(r, r.exprStack[j]).text = "key"
    <3>1. j \in 1 .. L /\ j \in 2 .. L + 1 /\ j \in 2 .. L
      BY <1>1
    <3>2. v.exprStack[j] \in Ids(v)
      BY <1>1, <3>1, Ends
    <3>3. HeadAt(r, r.exprStack[j]) = HeadAt(v, v.exprStack[j])
      BY <1>13, <1>15, <3>1, <3>2
    <3>4. j - 1 \in v.keyValue <=> HeadAt(v, v.exprStack[j]).text = "key"
      BY <1>1, <3>1 DEF KeysUnder
    <3> QED BY <1>5, <3>3, <3>4
  <2> QED BY <1>5, <2>1 DEF KeysIn
<1>17. NodesOf(r) = NodesOf(v)
  <2>1. ASSUME NEW n \in 1 .. v.nextExpr + 1 PROVE NodeOf(r, n - 2) = NodeOf(v, n - 2)
    <3>1. v.nextExpr \in Nat
      BY DEF WriterOK, Writer
    <3>2. n - 2 \in Ids(v)
      BY <3>1 DEF Ids
    <3> QED BY <1>13, <3>2 DEF NodeOf
  <2> QED BY <1>5, <2>1 DEF NodesOf
<1>18. PathOf(r) = Front(PathOf(v))
  <2>1. Sequence(PathOf(v), L + 1)
    BY <1>1, NodePlaces
  <2>2. Sequence(PathOf(r), L)
    <3>1. Sequence(PathOf(r), (L - 1) + 1)
      BY <1>3, <1>5, NodePlaces DEF Apart
    <3>2. (L - 1) + 1 = L
      BY <1>1
    <3> QED BY <3>1, <3>2
  <2>3. \A k \in 1 .. L : PathOf(r)[k] = PathOf(v)[k]
    <3>1. /\ \A k \in 1 .. L + 1 : PathOf(v)[k] = IF k = 1 THEN 1 ELSE v.exprStack[k] + 2
          /\ \A k \in 1 .. (L - 1) + 1 : PathOf(r)[k] = IF k = 1 THEN 1 ELSE r.exprStack[k] + 2
      BY <1>5 DEF PathOf
    <3>2. \A k \in 1 .. L : k \in 1 .. L + 1 /\ k \in 1 .. (L - 1) + 1
      BY <1>1
    <3> QED BY <1>15, <3>1, <3>2
  <2> QED BY <1>1, <2>1, <2>2, <2>3, SequenceFront
<1> QED BY <1>11, <1>14, <1>16, <1>17, <1>18 DEF Legible, Shuts, r

(***************************************************************************)
(* handleKeyValueEnd closes the open node when it is headed by a key.      *)
(***************************************************************************)
Outer(n, tree) == IF tree[Last(n)].head.text = "key" THEN Front(n) ELSE n

\* The key bit of the layer is set just where the open node is a key.
LEMMA TopIsKey ==
  ASSUME NEW v, WriterOK(v), Apart(v), Legible(v), 0 \notin v.keyValue
  PROVE  NodesOf(v)[Last(PathOf(v))].head.text = "key" <=> v.layer \in v.keyValue
<1> DEFINE T == Top(v)
<1>1. /\ v.layer \in Nat /\ Last(PathOf(v)) = T + 2 /\ NodesOf(v)[T + 2] = NodeOf(v, T)
  BY NodePlaces, TopEnds, ArgIterOK DEF Apart
<1>2. NodesOf(v)[Last(PathOf(v))].head = HeadAt(v, T)
  BY <1>1 DEF NodeOf
<1>3. CASE v.layer = 0
  <2>1. HeadAt(v, T).text = "document"
    BY <1>3 DEF Top, HeadAt
  <2> QED BY <1>2, <1>3, <2>1
<1>4. CASE v.layer # 0
  <2>1. v.layer + 1 \in 2 .. v.layer + 1 /\ (v.layer + 1) - 1 = v.layer
    BY <1>1, <1>4
  <2>2. T = v.exprStack[v.layer + 1]
    BY <1>4 DEF Top
  <2>3. v.layer \in v.keyValue <=> HeadAt(v, v.exprStack[v.layer + 1]).text = "key"
    BY <2>1 DEF Legible, KeysIn
  <2> QED BY <1>2, <2>2, <2>3
<1> QED BY <1>3, <1>4

Returns(v, r) == NodesOf(r) = NodesOf(v) /\ PathOf(r) = Outer(PathOf(v), NodesOf(v))

\* handleKeyValueEnd leaves the node of a key, and no other.
LEMMA KeyEndTells ==
  ASSUME NEW v, WriterOK(v), ~v.wild, Apart(v), Legible(v), 0 \notin v.keyValue,
         ~handleKeyValueEnd(v).wild, Apart(handleKeyValueEnd(v))
  PROVE  Legible(handleKeyValueEnd(v)) /\ Returns(v, handleKeyValueEnd(v))
<1> DEFINE r == handleKeyValueEnd(v)
           u == [v EXCEPT !.keyValue = v.keyValue \ {v.layer}]
<1>0. v \in Writer /\ v.layer \in Nat
  BY DEF WriterOK, Writer
<1>1. NodesOf(v)[Last(PathOf(v))].head.text = "key" <=> v.layer \in v.keyValue
  BY TopIsKey
<1>2. CASE v.layer \in v.keyValue
  <2>1. r = endExpression(u) /\ v.layer >= 1
    BY <1>0, <1>2 DEF handleKeyValueEnd
  <2>2. u \in Writer
    BY <1>0 DEF Writer
  <2>3. /\ u.types = v.types /\ u.args = v.args /\ u.exprs = v.exprs /\ u.cumul = v.cumul /\ u.argIter = v.argIter
        /\ u.exprStack = v.exprStack /\ u.nextExpr = v.nextExpr /\ u.layer = v.layer /\ u.run = v.run
        /\ u.wild = v.wild /\ u.strings = v.strings
    BY <1>0 DEF Writer
  <2>4. u.keyValue = v.keyValue \ {v.layer}
    BY <1>0 DEF Writer
  <2> HIDE DEF u
  <2>5. WriterOK(u)
    BY <2>2, <2>3 DEF WriterOK, StacksOK
  <2>6. /\ Ids(u) = Ids(v) /\ Top(u) = Top(v) /\ PathOf(u) = PathOf(v)
        /\ \A e : StartOf(u, e) = StartOf(v, e) /\ EndOf(u, e) = EndOf(v, e) /\ SlotsOf(u, e) = SlotsOf(v, e)
        /\ \A e : RunIn(u, e) = RunIn(v, e) /\ HeadAt(u, e) = HeadAt(v, e)
    BY <2>3 DEF Ids, Top, PathOf, StartOf, EndOf, OpenIn, SlotsOf, RunIn, HeadAt
  <2>7. Apart(u)
    BY <2>3, <2>6 DEF Apart, StackUp
  <2>8. EncodedIn(u) /\ HeadsIn(u) /\ TextsIn(u) /\ RunOff(u)
    <3>1. EncodedIn(u) /\ HeadsIn(u) /\ RunOff(u)
      BY <2>3, <2>6 DEF EncodedIn, HeadsIn, RunOff, Legible
    <3>2. \A e : ReadsOf(u, e) = ReadsOf(v, e)
      BY <2>3, <2>6 DEF ReadsOf
    <3>3. TextsIn(u)
      BY <2>3, <2>6, <3>2 DEF TextsIn, TextsOf, TextOf, Legible
    <3> QED BY <3>1, <3>3
  <2>9. NodesOf(u) = NodesOf(v)
    <3>1. \A e : ReadsOf(u, e) = ReadsOf(v, e)
      BY <2>3, <2>6 DEF ReadsOf
    <3>2. \A tag, value : ArgumentOf(u, tag, value) = ArgumentOf(v, tag, value)
      BY <2>3 DEF ArgumentOf
    <3>3. \A e, j : KidAt(u, e, j) = KidAt(v, e, j)
      BY <2>3, <3>1, <3>2 DEF KidAt
    <3>4. \A e : KidsOf(u, e) = KidsOf(v, e)
      BY <2>6, <3>3 DEF KidsOf
    <3> QED BY <2>3, <2>6, <3>4 DEF NodesOf, NodeOf
  <2>10. KeysUnder(u)
    <3>1. ASSUME NEW j \in 2 .. v.layer PROVE j - 1 \in u.keyValue <=> HeadAt(u, u.exprStack[j]).text = "key"
      <4>1. j \in 2 .. v.layer + 1 /\ j - 1 # v.layer
        BY <1>0
      <4>2. j - 1 \in v.keyValue <=> HeadAt(v, v.exprStack[j]).text = "key"
        BY <4>1 DEF Legible, KeysIn
      <4> QED BY <2>3, <2>4, <2>6, <4>1, <4>2
    <3> QED BY <2>3, <3>1 DEF KeysUnder
  <2>11. WriterOK(endExpression(u)) /\ Apart(endExpression(u))
    BY <2>1, <2>3, <2>5, EndOK
  <2>12. Legible(endExpression(u)) /\ Shuts(u, endExpression(u))
    BY <2>1, <2>3, <2>5, <2>7, <2>8, <2>10, <2>11, EndTells
  <2>13. Shuts(v, r)
    BY <2>1, <2>6, <2>9, <2>12 DEF Shuts
  <2>14. Outer(PathOf(v), NodesOf(v)) = Front(PathOf(v))
    BY <1>1, <1>2 DEF Outer
  <2>15. Legible(r)
    BY <2>1, <2>12
  <2> HIDE DEF r
  <2>16. Legible(r) /\ Returns(v, r)
    BY <2>13, <2>14, <2>15 DEF Returns, Shuts
  <2> QED BY <2>16 DEF r
<1>3. CASE v.layer \notin v.keyValue
  <2>1. r = v
    <3>1. v.layer \in DOMAIN v.cumul
      BY <1>0, <1>3 DEF handleKeyValueEnd, Writer
    <3>2. r = v
      BY <1>0, <1>3, <3>1 DEF handleKeyValueEnd, Writer
    <3> QED BY <3>2
  <2>2. Outer(PathOf(v), NodesOf(v)) = PathOf(v)
    BY <1>1, <1>3 DEF Outer
  <2> HIDE DEF r
  <2>3. Legible(r) /\ Returns(v, r)
    BY <2>1, <2>2 DEF Returns
  <2> QED BY <2>3 DEF r
<1> QED BY <1>2, <1>3

(***************************************************************************)
(* What a handler needs, from the invariant of the block.                  *)
(***************************************************************************)
LEMMA RoomReady ==
  ASSUME NEW k \in Counters, NEW v, NEW n, WriterOK(v), ~v.wild, Legible(v), FilledTo(v, k, n), RoomFor(v, k, n)
  PROVE  Ready(v) /\ NextArgumentIndex(v) \in DOMAIN v.types /\ Apart(v)
<1>1. Apart(v)
  BY FilledApart
<1>2. NextArgumentIndex(v) \in DOMAIN v.types
  BY IndexInBlock DEF RoomFor
<1>3. NextArgumentIndex(v) = EndOf(v, Top(v))
  BY <1>1, TopEnds DEF RoomFor, Apart
<1> QED BY <1>1, <1>2, <1>3 DEF Ready

\* No layer below the open one is a key's.
LEMMA KeysBelow ==
  ASSUME NEW p, ParserOK(p)
  PROVE  \A l \in KeyLayers(p) : l <= Nest(p)
<1>1. Nest(p) \in Nat /\ \A i \in 1 .. Len(p.open) : p.open[i].nest \in Nat /\ p.open[i].nest < Nest(p)
  BY NestOK DEF Frame
<1>2. Keyed(p) \subseteq 1 .. Len(p.open)
  BY DEF Keyed
<1> QED BY <1>1, <1>2 DEF KeyLayers

\* So it does after every value.
LEMMA KeyEndReads ==
  ASSUME NEW k \in Counters, NEW v, NEW n, WriterOK(v), ~v.wild, Legible(v), FilledTo(v, k, n), 0 \notin v.keyValue
  PROVE  /\ Legible(handleKeyValueEnd(v)) /\ Returns(v, handleKeyValueEnd(v)) /\ WriterOK(handleKeyValueEnd(v))
         /\ ~handleKeyValueEnd(v).wild
<1> DEFINE r == handleKeyValueEnd(v)
<1>1. FilledTo(r, k, n) /\ ~r.wild /\ WriterOK(r)
  BY KeyEndFills, KeyEndOK
<1>2. Apart(v) /\ Apart(r)
  <2> HIDE DEF r
  <2> QED BY <1>1, FilledApart
<1> QED BY <1>1, <1>2, KeyEndTells

\* An argument, and the key around it closed.
Leafed(v, r, kid) ==
  /\ NodesOf(r) = [NodesOf(v) EXCEPT ![Last(PathOf(v))].kids = Append(@, kid)]
  /\ PathOf(r) = Outer(PathOf(v), NodesOf(v))

\* A value, and the end of its key.
LEMMA ArguedReturns ==
  ASSUME NEW v, NEW u, NEW r, NEW kid, WriterOK(v), StackUp(v), Argued(v, u, kid), Returns(u, r)
  PROVE  Leafed(v, r, kid)
<1> DEFINE p == Last(PathOf(v))
           N == NodesOf(v)
           M == [N EXCEPT ![p].kids = Append(@, kid)]
<1>1. p = Top(v) + 2 /\ N[p] = NodeOf(v, Top(v)) /\ p \in DOMAIN N
  <2>1. /\ Top(v) \in Ids(v) /\ Last(PathOf(v)) = Top(v) + 2 /\ Top(v) + 2 \in 1 .. v.nextExpr + 1
        /\ NodesOf(v)[Top(v) + 2] = NodeOf(v, Top(v)) /\ DOMAIN NodesOf(v) = 1 .. v.nextExpr + 1
    BY NodePlaces, TopEnds DEF NodesOf
  <2> QED BY <2>1
<1>2. NodesOf(u) = M /\ PathOf(u) = PathOf(v) /\ NodesOf(r) = M /\ PathOf(r) = Outer(PathOf(v), M)
  BY DEF Argued, Returns
<1>3. N[p].head = HeadAt(v, Top(v)) /\ N[p] = [head |-> N[p].head, kids |-> N[p].kids]
  BY <1>1 DEF NodeOf
<1> HIDE DEF N, p
<1>4. M[p] = [N[p] EXCEPT !.kids = Append(@, kid)]
  BY <1>1
<1>5. M[p].head = N[p].head
  BY <1>3, <1>4
<1>6. Outer(PathOf(v), M) = Outer(PathOf(v), N)
  BY <1>5 DEF Outer, p
<1> QED BY <1>2, <1>6 DEF Leafed, N, p

\* endExpression at the end of an object, array, table or column.
LEMMA EndReads ==
  ASSUME NEW k \in Counters, NEW v, NEW n, WriterOK(v), ~v.wild, Legible(v), FilledTo(v, k, n), v.layer >= 1
  PROVE  /\ Legible(endExpression(v)) /\ Shuts(v, endExpression(v)) /\ WriterOK(endExpression(v))
         /\ ~endExpression(v).wild /\ FilledTo(endExpression(v), k, n)
         /\ endExpression(v).keyValue = v.keyValue
<1> DEFINE r == endExpression(v)
<1>1. FilledTo(r, k, n) /\ ~r.wild /\ WriterOK(r) /\ r.keyValue = v.keyValue
  BY EndFills, EndOK
<1>2. Apart(v) /\ Apart(r)
  <2> HIDE DEF r
  <2> QED BY <1>1, FilledApart
<1>3. EncodedIn(v) /\ HeadsIn(v) /\ TextsIn(v) /\ KeysUnder(v)
  <2>1. EncodedIn(v) /\ HeadsIn(v) /\ TextsIn(v) /\ KeysIn(v) /\ v.layer \in Nat
    BY DEF Legible, WriterOK, Writer
  <2>2. \A j \in 2 .. v.layer : j \in 2 .. v.layer + 1
    BY <2>1
  <2> QED BY <2>1, <2>2 DEF KeysIn, KeysUnder
<1> QED BY <1>1, <1>2, <1>3, EndTells

\* A node opened: the key bit of its layer is set or not.
LEMMA StartReads ==
  ASSUME NEW k \in Counters, NEW v, NEW n, WriterOK(v), ~v.wild, Legible(v), FilledTo(v, k, n), RoomFor(v, k, n),
         NEW head \in String, v.layer + 1 \in DOMAIN k.perLayer, v.nextExpr \in DOMAIN v.exprs,
         NEW r, WriterOK(r), Apart(r), NEW keys, r = [startExpression(v, head) EXCEPT !.keyValue = keys],
         \A l \in 1 .. v.layer : l \in keys <=> l \in v.keyValue, v.layer + 1 \in keys <=> head.text = "key"
  PROVE  Legible(r) /\ Opens(v, r, head)
<1> DEFINE b == addExpression(v, v.nextExpr)
           s == startExpression(v, head)
<1>1. Ready(v) /\ NextArgumentIndex(v) \in DOMAIN v.types /\ v.nextExpr \in Nat
  BY RoomReady DEF WriterOK, Writer
<1>2. WriterOK(b) /\ Stored(v, b)
  BY <1>1, AddExpressionOK, ExpressionStores
<1>3. Apart(b)
  <2> HIDE DEF b
  <2>1. FilledTo(b, k, OneMore(n, v.layer))
    BY <1>2, StoreFills
  <2> QED BY <1>2, <2>1, FilledApart
<1>4. s \in Writer /\ ~s.wild /\ v.layer \in DOMAIN v.cumul
  <2>1. WriterOK(s) /\ (~s.wild => v.layer \in DOMAIN v.cumul)
    BY StartOK
  <2>2. ~s.wild
    BY StartFills
  <2> QED BY <2>1, <2>2 DEF WriterOK
<1>5. PushedAs(b, s, head)
  BY <1>1, <1>4, StartPushed
<1> HIDE DEF b, s
<1>6. r = [s EXCEPT !.keyValue = keys]
  BY DEF s
<1>7. /\ r.types = s.types /\ r.args = s.args /\ r.run = s.run /\ r.strings = s.strings /\ r.argIter = s.argIter
      /\ r.exprStack = s.exprStack /\ r.nextExpr = s.nextExpr /\ r.layer = s.layer /\ r.exprs = s.exprs
      /\ r.keyValue = keys
  BY <1>4, <1>6 DEF Writer
<1>8. PushedAs(b, r, head)
  BY <1>5, <1>7 DEF PushedAs
<1>9. KeyPushed(v, r, head)
  BY <1>7 DEF KeyPushed
<1> QED BY <1>1, <1>3, <1>8, <1>9, StartTells DEF b

(***************************************************************************)
(* Columns of a CSV file have the type that holds all their cells.         *)
(***************************************************************************)
LEMMA NoThrow ==
  ASSUME NEW column \in Seq(Cell), NEW T, FirstThrow(T, column) = {}
  PROVE  \A r \in DOMAIN column : ~Throws(T, column[r])
<1> SUFFICES ASSUME NEW r \in DOMAIN column, Throws(T, column[r]) PROVE FALSE
  OBVIOUS
<1> DEFINE S == {q \in DOMAIN column : Throws(T, column[q])}
<1>1. S \in SUBSET Nat /\ S # {}
  OBVIOUS
<1>2. PICK x \in S : \A y \in S : x <= y
  BY <1>1, LeastSlot
<1>3. \A q \in 1 .. x - 1 : q \in DOMAIN column /\ ~(x <= q)
  <2>1. x \in Nat /\ x <= Len(column) /\ DOMAIN column = 1 .. Len(column) /\ Len(column) \in Nat
    BY <1>2
  <2> QED BY <2>1
<1>4. \A q \in 1 .. x - 1 : ~Throws(T, column[q])
  BY <1>2, <1>3
<1>5. x \in FirstThrow(T, column)
  BY <1>2, <1>4 DEF FirstThrow
<1> QED BY <1>5

\* Which cells a column of each type converts, and which it stores as missing.
LEMMA CellTyped ==
  ASSUME NEW cell \in Cell
  PROVE  /\ Throws("int64_t", cell) <=> cell \notin {"empty", "int"}
         /\ Throws("double_t", cell) <=> cell \notin {"empty", "int", "real", "overflow"}
         /\ ConvertCell("int64_t", cell) = "missing" <=> cell = "empty"
         /\ ConvertCell("double_t", cell) = "missing" <=> cell = "empty"
         /\ ConvertCell("string", cell) # "missing"
<1>1. CASE cell = "absent"
  BY <1>1 DEF Throws, ConvertCell
<1>2. CASE cell \in {"empty", "int", "overflow", "real", "huge", "text"}
  BY <1>2 DEF Throws, ConvertCell, AsLong, AsDouble
<1> QED BY <1>1, <1>2 DEF Cell

\* The type of a column fits every cell of it.
LEMMA ColumnTyped ==
  ASSUME NEW column \in Seq(Cell)
  PROVE  LET T == TypeOfCsvColumn(column) IN
         /\ T \in {"int64_t", "double_t", "string", "exception"}
         /\ T = "int64_t" => \A r \in DOMAIN column : column[r] \in {"empty", "int"}
         /\ T = "double_t" => /\ \A r \in DOMAIN column : column[r] \in {"empty", "int", "real", "overflow"}
                              /\ ~ \A r \in DOMAIN column : column[r] \in {"empty", "int"}
         /\ T = "string" => /\ ~ \A r \in DOMAIN column : column[r] \in {"empty", "int", "real", "overflow"}
                            /\ ~ \A r \in DOMAIN column : column[r] \in {"empty", "int"}
<1> DEFINE load(T) == loadCsvData(T, column)
<1>1. \A T : load(T) \in {"exception", "empty", "loaded"}
  BY DEF loadCsvData
<1>2. \A T : load(T) = "loaded" => \A r \in DOMAIN column : ~Throws(T, column[r])
  <2>1. \A T : load(T) = "loaded" => FirstThrow(T, column) = {}
    BY DEF loadCsvData
  <2> QED BY <2>1, NoThrow
<1>3. \A T : load(T) = "empty" /\ column # <<>> => \E r \in DOMAIN column : Throws(T, column[r])
  BY DEF loadCsvData, FirstThrow
<1>4. \A T : load(T) = "loaded" => column # <<>>
  BY DEF loadCsvData
<1>5. \A r \in DOMAIN column : column[r] \in Cell
  OBVIOUS
<1>6. /\ load("int64_t") = "loaded" => \A r \in DOMAIN column : column[r] \in {"empty", "int"}
      /\ load("double_t") = "loaded" => \A r \in DOMAIN column : column[r] \in {"empty", "int", "real", "overflow"}
      /\ load("int64_t") = "empty" /\ column # <<>> => ~ \A r \in DOMAIN column : column[r] \in {"empty", "int"}
      /\ load("double_t") = "empty" /\ column # <<>>
           => ~ \A r \in DOMAIN column : column[r] \in {"empty", "int", "real", "overflow"}
  BY <1>2, <1>3, <1>5, CellTyped
<1>7. TypeOfCsvColumn(column) =
        IF load("int64_t") # "empty" THEN IF load("int64_t") = "loaded" THEN "int64_t" ELSE "exception"
        ELSE IF load("double_t") # "empty" THEN IF load("double_t") = "loaded" THEN "double_t" ELSE "exception"
        ELSE IF load("string") = "loaded" THEN "string" ELSE "exception"
  BY DEF TypeOfCsvColumn
<1> HIDE DEF load
<1> QED BY <1>1, <1>4, <1>6, <1>7
=============================================================================
