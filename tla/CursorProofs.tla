----------------------------- MODULE CursorProofs -----------------------------
(***************************************************************************)
(* Where the writer's cursors stand: every layer has its part of the       *)
(* Argument Vector, and the slots used so far are those that the first     *)
(* traversal had counted.  One lemma per kind of store: an argument, the   *)
(* start of an expression, its end.                                        *)
(***************************************************************************)
EXTENDS LoaderProofs

(***************************************************************************)
(* What the operations do, when nothing leaves the block.                  *)
(***************************************************************************)
ArgsElsewhere(v, r) ==
  \A i \in DOMAIN v.args : i # NextArgumentIndex(v) => r.args[i] = v.args[i]

Stored(v, r) ==
  /\ OneStored(v, r) /\ r.wild = v.wild /\ ArgsElsewhere(v, r)
  /\ r.argIter = [v.argIter EXCEPT ![Len(v.argIter)] = @ + 1]

Opened(v, r) ==
  /\ r.nextExpr = v.nextExpr + 1 /\ r.layer = v.layer + 1 /\ r.wild = v.wild
  /\ r.cumul = v.cumul /\ r.keyValue = v.keyValue /\ DOMAIN r.types = DOMAIN v.types
  /\ r.exprStack = Append(v.exprStack, v.nextExpr)
  /\ r.argIter = Append([v.argIter EXCEPT ![Len(v.argIter)] = @ + 1], 0)
  /\ \E x \in Expression : /\ x.start = v.cumul[v.layer] /\ x.end = 0
                           /\ r.exprs = [v.exprs EXCEPT ![v.nextExpr] = x]
  /\ ArgsElsewhere(v, r)

EndSlotOf(v) == v.exprs[Last(v.exprStack)].start + Last(v.argIter)

Closed(v, r) ==
  /\ r.nextExpr = v.nextExpr /\ r.layer = v.layer - 1 /\ r.wild = v.wild
  /\ r.cumul = [v.cumul EXCEPT ![v.layer - 1] = EndSlotOf(v)]
  /\ r.keyValue = v.keyValue /\ DOMAIN r.types = DOMAIN v.types /\ r.args = v.args
  /\ r.exprStack = Front(v.exprStack) /\ r.argIter = Front(v.argIter)
  /\ \E x \in Expression : /\ x.start = v.exprs[Last(v.exprStack)].start /\ x.end = EndSlotOf(v)
                           /\ r.exprs = [v.exprs EXCEPT ![Last(v.exprStack)] = x]

\* make*Argument in bounds.
LEMMA PutStores ==
  ASSUME NEW v, WriterOK(v), NEW type \in Nat, NEW value \in Seq(Nat),
         NextArgumentIndex(v) \in DOMAIN v.types
  PROVE  Stored(v, PutArgument(v, type, value))
<1> DEFINE i == NextArgumentIndex(v)
           T == [v.types EXCEPT ![i] = type]
           A == [v.args EXCEPT ![i] = value]
           I == [v.argIter EXCEPT ![Len(v.argIter)] = @ + 1]
           r == PutArgument(v, type, value)
<1>1. v \in Writer /\ v.args \in Vector(Seq(Nat))
  BY DEF WriterOK, Writer
<1>2. r = [v EXCEPT !.types = T, !.args = A, !.argIter = I]
  BY <1>1 DEF PutArgument, Writer
<1>3. \A j \in DOMAIN v.args : j # i => A[j] = v.args[j]
  BY <1>1, SetOK
<1>4. OneStored(v, r)
  BY PutOK
<1> HIDE DEF T, A, I, i
<1>5. r.args = A /\ r.argIter = I /\ r.wild = v.wild
  BY <1>1, <1>2 DEF Writer
<1> HIDE DEF r
<1> QED BY <1>3, <1>4, <1>5 DEF Stored, ArgsElsewhere, r, i, I

\* addLong and addDouble in bounds.
LEMMA NumberStores ==
  ASSUME NEW v, WriterOK(v), ~v.wild, NEW type \in Nat, NEW at \in Seq(Nat),
         NextArgumentIndex(v) \in DOMAIN v.types
  PROVE  Stored(v, addNumber(v, type, at))
<1> DEFINE s == PutArgument(v, type, at)
           i == NextArgumentIndex(v)
<1>1. /\ WriterOK(s) /\ OneStored(v, s) /\ s.run = v.run /\ Stored(v, s)
      /\ ~s.wild => Last(s.argIter) = Last(v.argIter) + 1
  BY PutOK, PutStores
<1>2. i \in Nat /\ i >= Last(v.argIter) /\ v.run \in Nat /\ v.run <= Last(v.argIter) /\ Last(v.argIter) \in Nat
  BY IndexOK, LastOK
<1> HIDE DEF s, i
<1>3. ~s.wild
  BY <1>1 DEF Stored
<1>4. addNumber(v, type, at) = applyTypeRLE(s, i)
  BY <1>3 DEF addNumber, s, i
<1>5. s.run + 1 <= Last(s.argIter) /\ s.run <= i
  BY <1>1, <1>2, <1>3
<1>6. OnlyTypes(s, applyTypeRLE(s, i))
  BY <1>1, <1>2, <1>5, ApplyOK
<1>7. Stored(v, applyTypeRLE(s, i))
  BY <1>1, <1>6 DEF Stored, OneStored, OnlyTypes, ArgsElsewhere
<1> QED BY <1>4, <1>7

\* addExpression in bounds.
LEMMA ExpressionStores ==
  ASSUME NEW v, WriterOK(v), ~v.wild, NEW e \in Nat, NextArgumentIndex(v) \in DOMAIN v.types
  PROVE  Stored(v, addExpression(v, e))
<1> DEFINE s == PutArgument(v, ARGUMENT_TYPE_EXPRESSION, <<e>>)
           i == NextArgumentIndex(v)
<1>1. WriterOK(s) /\ s.run = v.run /\ Stored(v, s)
  <2>1. ARGUMENT_TYPE_EXPRESSION \in Nat /\ <<e>> \in Seq(Nat)
    BY DEF ARGUMENT_TYPE_EXPRESSION
  <2> QED BY <2>1, PutOK, PutStores
<1>2. i \in Nat /\ i >= Last(v.argIter) /\ v.run \in Nat /\ v.run <= Last(v.argIter) /\ Last(v.argIter) \in Nat
  BY IndexOK, LastOK
<1> HIDE DEF s, i
<1>3. ~s.wild /\ s.run <= i
  BY <1>1, <1>2 DEF Stored
<1>4. addExpression(v, e) = resetTypeRLE(s, i)
  BY <1>3 DEF addExpression, s, i
<1>5. OnlyTypes(s, resetTypeRLE(s, i))
  BY <1>1, <1>2, <1>3, ResetOK
<1>6. Stored(v, resetTypeRLE(s, i))
  BY <1>1, <1>5 DEF Stored, OneStored, OnlyTypes, ArgsElsewhere
<1> QED BY <1>4, <1>6

\* storeString, which runs first, does not move the next argument: but for a
\* document without expressions, whose index reads the String Buffer.
LEMMA IndexStays ==
  ASSUME NEW v, WriterOK(v), NEW text \in String,
         Last(v.exprStack) \in DOMAIN v.exprs \/ (text.text # "longstring" /\ v.strings = <<>>)
  PROVE  NextArgumentIndex(storeString(v, text)) = NextArgumentIndex(v)
<1> DEFINE s == storeString(v, text)
           e == Last(v.exprStack)
<1>1. v \in Writer /\ s = [v EXCEPT !.strings = Append(v.strings, text)]
  BY StoreStringOK DEF WriterOK
<1> HIDE DEF s
<1>2. /\ s.exprs = v.exprs /\ s.exprStack = v.exprStack /\ s.argIter = v.argIter
      /\ s.strings = Append(v.strings, text)
  BY <1>1 DEF Writer
<1>3. StartChildOffset(s, e) = StartChildOffset(v, e)
  <2>1. CASE e \in DOMAIN v.exprs
    BY <1>2, <2>1 DEF StartChildOffset
  <2>2. CASE e \notin DOMAIN v.exprs
    <3>1. v.strings = <<>> /\ text.text # "longstring"
      BY <2>2
    <3>2. Head(s.strings) = text
      BY <1>2, <3>1
    <3> QED BY <1>2, <2>2, <3>1, <3>2 DEF StartChildOffset
  <2> QED BY <2>1, <2>2
<1> QED BY <1>2, <1>3 DEF NextArgumentIndex, s

\* addString and addSymbol in bounds.
LEMMA TextStores ==
  ASSUME NEW v, WriterOK(v), ~v.wild, NEW type \in Nat, NEW text \in String,
         Last(v.exprStack) \in DOMAIN v.exprs \/ (text.text # "longstring" /\ v.strings = <<>>),
         NextArgumentIndex(v) \in DOMAIN v.types
  PROVE  Stored(v, addText(v, type, text))
<1> DEFINE s == storeString(v, text)
           at == <<Len(v.strings)>>
<1>1. v \in Writer /\ WriterOK(s) /\ s = [v EXCEPT !.strings = Append(v.strings, text)]
  BY StoreStringOK DEF WriterOK
<1>2. NextArgumentIndex(s) = NextArgumentIndex(v)
  BY IndexStays
<1>3. at \in Seq(Nat)
  <2>1. v.strings \in Seq(String)
    BY <1>1 DEF Writer
  <2>2. Len(v.strings) \in Nat
    BY <2>1
  <2> QED BY <2>2
<1>4. addText(v, type, text) = addNumber(s, type, at)
  BY DEF addText
<1> HIDE DEF s, at
<1>5. /\ s.types = v.types /\ s.args = v.args /\ s.exprs = v.exprs /\ s.cumul = v.cumul
      /\ s.keyValue = v.keyValue /\ s.exprStack = v.exprStack /\ s.nextExpr = v.nextExpr
      /\ s.layer = v.layer /\ s.argIter = v.argIter /\ s.wild = v.wild
  BY <1>1 DEF Writer
<1>6. Stored(s, addNumber(s, type, at))
  BY <1>1, <1>2, <1>3, <1>5, NumberStores
<1>7. Stored(v, addNumber(s, type, at))
  BY <1>2, <1>5, <1>6 DEF Stored, OneStored, ArgsElsewhere
<1> QED BY <1>4, <1>7

\* Out of bounds, addNumber and addText are seen to be.
LEMMA NumberLeaves ==
  ASSUME NEW v, NEW type, NEW at, NextArgumentIndex(v) \notin DOMAIN v.types, v \in Writer
  PROVE  addNumber(v, type, at).wild /\ addNumber(v, type, at).args = v.args
<1>1. PutArgument(v, type, at).wild /\ PutArgument(v, type, at).args = v.args
  BY DEF PutArgument, Writer
<1> QED BY <1>1 DEF addNumber

\* startExpression in bounds.
LEMMA StartOpens ==
  ASSUME NEW v, WriterOK(v), ~v.wild, NEW head \in String,
         NextArgumentIndex(v) \in DOMAIN v.types,
         v.nextExpr \in DOMAIN v.exprs, v.layer \in DOMAIN v.cumul
  PROVE  Opened(v, startExpression(v, head))
<1> DEFINE e == v.nextExpr
           u == [v EXCEPT !.nextExpr = e + 1]
           b == addExpression(u, e)
           a == storeString(b, head)
           x == [head |-> Len(v.strings), start |-> v.cumul[v.layer], end |-> 0]
           r == startExpression(v, head)
<1>1. v \in Writer /\ StacksOK(v) /\ e \in Nat
  BY DEF WriterOK, Writer
<1>2. u \in Writer
  <2>1. e + 1 \in Nat
    BY <1>1
  <2> QED BY <1>1, <2>1 DEF Writer
<1>3. /\ u.types = v.types /\ u.args = v.args /\ u.argIter = v.argIter /\ u.exprStack = v.exprStack
      /\ u.exprs = v.exprs /\ u.run = v.run /\ u.layer = v.layer /\ u.keyValue = v.keyValue
      /\ u.cumul = v.cumul /\ u.wild = v.wild /\ u.strings = v.strings /\ u.nextExpr = e + 1
  BY <1>1 DEF Writer
<1>0. r = IF a.wild \/ e \notin DOMAIN v.exprs \/ v.layer \notin DOMAIN v.cumul
          THEN [a EXCEPT !.wild = TRUE]
          ELSE [a EXCEPT !.exprs[e] = x, !.layer = v.layer + 1, !.argIter = Append(@, 0),
                         !.exprStack = Append(@, e)]
  BY DEF startExpression
<1> HIDE DEF u
<1>4. WriterOK(u) /\ NextArgumentIndex(u) = NextArgumentIndex(v)
  BY <1>1, <1>2, <1>3 DEF WriterOK, StacksOK, NextArgumentIndex, StartChildOffset
<1>5. WriterOK(b) /\ Stored(u, b)
  BY <1>1, <1>3, <1>4, AddExpressionOK, ExpressionStores
<1> HIDE DEF b
<1>6. WriterOK(a) /\ a = [b EXCEPT !.strings = Append(b.strings, head)]
  BY <1>5, StoreStringOK
<1> HIDE DEF a
<1>7. /\ DOMAIN a.types = DOMAIN b.types /\ a.args = b.args /\ a.exprs = b.exprs /\ a.cumul = b.cumul
      /\ a.keyValue = b.keyValue /\ a.exprStack = b.exprStack /\ a.nextExpr = b.nextExpr
      /\ a.layer = b.layer /\ a.argIter = b.argIter /\ a.wild = b.wild
  BY <1>5, <1>6 DEF WriterOK, Writer
<1>8. /\ DOMAIN a.types = DOMAIN v.types /\ a.exprs = v.exprs /\ a.cumul = v.cumul
      /\ a.keyValue = v.keyValue /\ a.exprStack = v.exprStack /\ a.nextExpr = e + 1
      /\ a.layer = v.layer /\ a.argIter = [v.argIter EXCEPT ![Len(v.argIter)] = @ + 1]
      /\ a.wild = v.wild /\ ~a.wild
      /\ ArgsElsewhere(v, a)
  BY <1>3, <1>4, <1>5, <1>7 DEF Stored, OneStored, ArgsElsewhere
<1>9. x \in Expression
  <2>1. v.cumul \in Vector(Nat) /\ v.strings \in Seq(String)
    BY <1>1 DEF Writer
  <2>2. v.cumul[v.layer] \in Nat /\ Len(v.strings) \in Nat
    BY <2>1, VectorOK
  <2> QED BY <2>2 DEF Expression
<1>10. x.start = v.cumul[v.layer] /\ x.end = 0
  OBVIOUS
<1> HIDE DEF x, r
<1>11. r = [a EXCEPT !.exprs = [v.exprs EXCEPT ![e] = x], !.layer = v.layer + 1,
                     !.argIter = Append(a.argIter, 0), !.exprStack = Append(a.exprStack, e)]
  BY <1>0, <1>6, <1>8 DEF WriterOK, Writer
<1>12. /\ r.exprs = [v.exprs EXCEPT ![e] = x] /\ r.layer = v.layer + 1
       /\ r.argIter = Append(a.argIter, 0) /\ r.exprStack = Append(a.exprStack, e)
       /\ r.types = a.types /\ r.args = a.args /\ r.cumul = a.cumul /\ r.keyValue = a.keyValue
       /\ r.nextExpr = a.nextExpr /\ r.wild = a.wild
  BY <1>6, <1>11 DEF WriterOK, Writer
<1>13. ArgsElsewhere(v, r)
  BY <1>8, <1>12 DEF ArgsElsewhere
<1>14. \E y \in Expression : /\ y.start = v.cumul[v.layer] /\ y.end = 0
                             /\ r.exprs = [v.exprs EXCEPT ![v.nextExpr] = y]
  BY <1>9, <1>10, <1>12
<1> QED BY <1>8, <1>12, <1>13, <1>14 DEF Opened, r

\* endExpression.
LEMMA EndCloses ==
  ASSUME NEW v, WriterOK(v), v.layer >= 1
  PROVE  Closed(v, endExpression(v))
<1> DEFINE e == Last(v.exprStack)
           end == v.exprs[e].start + Last(v.argIter)
           u == resetTypeRLE(v, end)
           x == [v.exprs[e] EXCEPT !.end = end]
           r == endExpression(v)
<1>1. v \in Writer /\ StacksOK(v) /\ v.layer \in Nat
  BY DEF WriterOK, Writer
<1>2. e \in DOMAIN v.exprs /\ v.exprs[e] \in Expression
  <2>1. Len(v.exprStack) \in 2 .. Len(v.exprStack) /\ e = v.exprStack[Len(v.exprStack)]
    BY <1>1, LastOK
  <2>2. v.exprs \in Vector(Expression)
    BY <1>1 DEF Writer
  <2> HIDE DEF e
  <2>3. e \in DOMAIN v.exprs
    BY <1>1, <2>1 DEF StacksOK
  <2> QED BY <2>2, <2>3, VectorOK
<1>3. end \in Nat /\ v.run <= end
  <2>1. v.exprs[e].start \in Nat
    BY <1>2 DEF Expression
  <2>2. Last(v.argIter) \in Nat /\ v.run \in Nat /\ v.run <= Last(v.argIter)
    BY LastOK
  <2> HIDE DEF e
  <2> QED BY <2>1, <2>2
<1>4. x \in Expression /\ x.start = v.exprs[e].start /\ x.end = end
  BY <1>2, <1>3 DEF Expression
<1>5. r = [u EXCEPT !.exprs[e].end = end, !.argIter = Front(@), !.exprStack = Front(@),
                    !.layer = v.layer - 1, !.cumul[v.layer - 1] = end]
  BY DEF endExpression
<1>6. end = EndSlotOf(v)
  BY DEF EndSlotOf
<1>7. WriterOK(u) /\ OnlyTypes(v, u)
  BY <1>3, ResetOK
<1> HIDE DEF u, end, r
<1>8. u \in Writer /\ u.exprs = v.exprs /\ u.argIter = v.argIter /\ u.exprStack = v.exprStack /\ u.cumul = v.cumul
  BY <1>7 DEF WriterOK, OnlyTypes
<1>9. r = [u EXCEPT !.exprs = [v.exprs EXCEPT ![e] = x], !.argIter = Front(v.argIter),
                    !.exprStack = Front(v.exprStack), !.layer = v.layer - 1,
                    !.cumul = [v.cumul EXCEPT ![v.layer - 1] = end]]
  BY <1>5, <1>8 DEF Writer
<1> HIDE DEF x, e
<1>10. /\ r.exprs = [v.exprs EXCEPT ![e] = x] /\ r.argIter = Front(v.argIter)
       /\ r.exprStack = Front(v.exprStack) /\ r.layer = v.layer - 1
       /\ r.cumul = [v.cumul EXCEPT ![v.layer - 1] = end] /\ r.types = u.types /\ r.args = u.args
       /\ r.nextExpr = u.nextExpr /\ r.keyValue = u.keyValue /\ r.wild = u.wild
  BY <1>8, <1>9 DEF Writer
<1>11. \E y \in Expression : /\ y.start = v.exprs[e].start /\ y.end = end
                             /\ r.exprs = [v.exprs EXCEPT ![e] = y]
  BY <1>4, <1>10
<1> QED BY <1>6, <1>7, <1>10, <1>11 DEF Closed, OnlyTypes, r, e

(***************************************************************************)
(* The parts of the layers in the Argument Vector, from the final counts k *)
(* of the first traversal; n says how many slots of each layer are used.   *)
(***************************************************************************)
Base(k, l) == IF l = 0 THEN 0 ELSE PartialSum(k.perLayer)[l - 1]
Used(k, n) == UNION {Base(k, l) .. Base(k, l) + n[l] - 1 : l \in DOMAIN k.perLayer}
Room(k, n) ==
  n \in [DOMAIN k.perLayer -> Nat] /\ \A l \in DOMAIN k.perLayer : n[l] <= k.perLayer[l]

\* A layer's part ends before the next one's begins.
LEMMA BaseOK ==
  ASSUME NEW k \in Counters
  PROVE  /\ DOMAIN k.perLayer \subseteq Nat /\ Base(k, 0) = 0
         /\ \A l \in DOMAIN k.perLayer : \A j \in Nat : j <= l => j \in DOMAIN k.perLayer
         /\ \A l \in DOMAIN k.perLayer : Base(k, l) \in Nat /\ k.perLayer[l] \in Nat
         /\ \A l, m \in DOMAIN k.perLayer : l < m => Base(k, l) + k.perLayer[l] <= Base(k, m)
<1> DEFINE C == PartialSum(k.perLayer)
<1>1. PICK d \in Nat : k.perLayer \in [0 .. d - 1 -> Nat]
  BY DEF Counters, Layers, Vector
<1>2. /\ C \in [0 .. d - 1 -> Nat] /\ (d > 0 => C[0] = k.perLayer[0])
      /\ \A l \in 1 .. d - 1 : C[l] = C[l - 1] + k.perLayer[l]
      /\ \A l, m \in 0 .. d - 1 : l <= m => C[l] <= C[m]
  BY <1>1, PartialSums
<1>3. \A l : Base(k, l) = IF l = 0 THEN 0 ELSE C[l - 1]
  BY DEF Base
<1> HIDE DEF C
<1>4. DOMAIN k.perLayer = 0 .. d - 1
  BY <1>1
<1>5. \A l \in 0 .. d - 1 : Base(k, l) \in Nat /\ k.perLayer[l] \in Nat /\ Base(k, l) + k.perLayer[l] = C[l]
  <2> TAKE l \in 0 .. d - 1
  <2>1. k.perLayer[l] \in Nat
    BY <1>1
  <2>2. CASE l = 0
    BY <1>2, <1>3, <2>1, <2>2
  <2>3. CASE l # 0
    <3>1. l \in 1 .. d - 1 /\ l - 1 \in 0 .. d - 1
      BY <2>3
    <3>2. C[l - 1] \in Nat /\ C[l] = C[l - 1] + k.perLayer[l]
      BY <1>2, <3>1
    <3>3. Base(k, l) = C[l - 1]
      BY <1>3, <2>3
    <3> QED BY <2>1, <3>2, <3>3
  <2> QED BY <2>2, <2>3
<1>6. \A l, m \in 0 .. d - 1 : l < m => Base(k, l) + k.perLayer[l] <= Base(k, m)
  <2> TAKE l, m \in 0 .. d - 1
  <2> HAVE l < m
  <2>1. m - 1 \in 0 .. d - 1 /\ l <= m - 1 /\ m # 0
    OBVIOUS
  <2>2. C[l] <= C[m - 1]
    BY <1>2, <2>1
  <2> QED BY <1>3, <1>5, <2>1, <2>2
<1> QED BY <1>3, <1>4, <1>5, <1>6

OneMore(n, l) == [n EXCEPT ![l] = @ + 1]

\* One more slot of a layer.
LEMMA UsedGrows ==
  ASSUME NEW k \in Counters, NEW n, Room(k, n), NEW l \in DOMAIN k.perLayer, n[l] < k.perLayer[l]
  PROVE  LET i == Base(k, l) + n[l]
             o == OneMore(n, l)
         IN /\ Room(k, o) /\ Used(k, o) = Used(k, n) \cup {i}
            /\ i \notin Used(k, n) /\ i \in Used(k, k.perLayer)
<1> DEFINE D == DOMAIN k.perLayer
           i == Base(k, l) + n[l]
           o == OneMore(n, l)
<1>1. /\ \A m \in D : m \in Nat /\ Base(k, m) \in Nat /\ k.perLayer[m] \in Nat
      /\ \A m, j \in D : m < j => Base(k, m) + k.perLayer[m] <= Base(k, j)
  BY BaseOK
<1>2. n \in [D -> Nat] /\ \A m \in D : n[m] \in Nat /\ n[m] <= k.perLayer[m]
  BY DEF Room
<1>3. o \in [D -> Nat] /\ \A m \in D : o[m] = IF m = l THEN n[m] + 1 ELSE n[m]
  BY <1>2 DEF OneMore
<1> HIDE DEF o
<1>4. Room(k, o)
  BY <1>1, <1>2, <1>3 DEF Room
<1>5. Base(k, l) .. Base(k, l) + o[l] - 1 = (Base(k, l) .. Base(k, l) + n[l] - 1) \cup {i}
  BY <1>1, <1>2, <1>3
<1>6. Used(k, o) = Used(k, n) \cup {i}
  <2>1. \A m \in D : m # l => o[m] = n[m]
    BY <1>3
  <2>2. ASSUME NEW x \in Used(k, o) PROVE x \in Used(k, n) \cup {i}
    <3>1. PICK m \in D : x \in Base(k, m) .. Base(k, m) + o[m] - 1
      BY DEF Used
    <3>2. CASE m = l
      BY <1>5, <3>1, <3>2 DEF Used
    <3>3. CASE m # l
      BY <2>1, <3>1, <3>3 DEF Used
    <3> QED BY <3>2, <3>3
  <2>3. ASSUME NEW x \in Used(k, n) \cup {i} PROVE x \in Used(k, o)
    <3>1. CASE x = i
      BY <1>5, <3>1 DEF Used
    <3>2. CASE x \in Used(k, n)
      <4>1. PICK m \in D : x \in Base(k, m) .. Base(k, m) + n[m] - 1
        BY <3>2 DEF Used
      <4>2. CASE m = l
        BY <1>5, <4>1, <4>2 DEF Used
      <4>3. CASE m # l
        BY <2>1, <4>1, <4>3 DEF Used
      <4> QED BY <4>2, <4>3
    <3> QED BY <2>3, <3>1, <3>2
  <2> QED BY <2>2, <2>3
<1>7. i \notin Used(k, n)
  <2> SUFFICES ASSUME NEW m \in D, i \in Base(k, m) .. Base(k, m) + n[m] - 1 PROVE FALSE
    BY DEF Used
  <2>1. l \in Nat /\ m \in Nat /\ Base(k, l) \in Nat /\ Base(k, m) \in Nat /\ n[l] \in Nat /\ n[m] \in Nat
        /\ k.perLayer[l] \in Nat /\ k.perLayer[m] \in Nat /\ n[m] <= k.perLayer[m]
    BY <1>1, <1>2
  <2>2. CASE m = l
    BY <2>1, <2>2
  <2>3. CASE m < l
    <3>1. Base(k, m) + k.perLayer[m] <= Base(k, l)
      BY <1>1, <2>3
    <3> QED BY <2>1, <3>1
  <2>4. CASE l < m
    <3>1. Base(k, l) + k.perLayer[l] <= Base(k, m)
      BY <1>1, <2>4
    <3> QED BY <2>1, <3>1
  <2> QED BY <2>1, <2>2, <2>3, <2>4
<1>8. i \in Used(k, k.perLayer)
  <2>1. i \in Base(k, l) .. Base(k, l) + k.perLayer[l] - 1
    BY <1>1, <1>2
  <2> QED BY <2>1 DEF Used
<1> QED BY <1>4, <1>6, <1>7, <1>8 DEF o

(***************************************************************************)
(* The slots of the expressions, as LoadedTree has them, of any writer.    *)
(***************************************************************************)
OpenIn(v, e) == {j \in 2 .. Len(v.exprStack) : v.exprStack[j] = e}
StartOf(v, e) == IF e = -1 THEN 0 ELSE v.exprs[e].start
EndOf(v, e) ==
  IF e = -1 THEN v.argIter[1]
  ELSE IF OpenIn(v, e) = {} THEN v.exprs[e].end
  ELSE v.exprs[e].start + v.argIter[CHOOSE j \in OpenIn(v, e) : TRUE]
SlotsOf(v, e) == StartOf(v, e) .. EndOf(v, e) - 1
Ids(v) == -1 .. v.nextExpr - 1

\* The open expressions, from the outermost on, are of growing index.
StackUp(v) ==
  /\ \A j \in 2 .. v.layer + 1 : v.exprStack[j] < v.nextExpr
  /\ \A i, j \in 2 .. v.layer + 1 : i < j => v.exprStack[i] < v.exprStack[j]

\* The slots of the document, of an open expression, and of a closed one.
LEMMA SlotsCases ==
  ASSUME NEW v, WriterOK(v), StackUp(v)
  PROVE  /\ SlotsOf(v, -1) = 0 .. v.argIter[1] - 1
         /\ \A j \in 2 .. v.layer + 1 :
              /\ v.exprStack[j] \in Nat /\ v.exprStack[j] \in DOMAIN v.exprs
              /\ v.exprs[v.exprStack[j]].start \in Nat
              /\ SlotsOf(v, v.exprStack[j]) = v.exprs[v.exprStack[j]].start
                                              .. (v.exprs[v.exprStack[j]].start + v.argIter[j]) - 1
         /\ \A e \in Nat : (\A j \in 2 .. v.layer + 1 : v.exprStack[j] # e)
                           => SlotsOf(v, e) = v.exprs[e].start .. v.exprs[e].end - 1
<1>1. Len(v.exprStack) = v.layer + 1 /\ v.exprStack \in Seq(Nat) /\ v.layer \in Nat
  BY LastOK
<1>2. SlotsOf(v, -1) = 0 .. v.argIter[1] - 1
  BY DEF SlotsOf, StartOf, EndOf
<1>3. ASSUME NEW j \in 2 .. v.layer + 1
      PROVE  /\ v.exprStack[j] \in Nat /\ v.exprStack[j] \in DOMAIN v.exprs
             /\ v.exprs[v.exprStack[j]].start \in Nat
             /\ SlotsOf(v, v.exprStack[j]) = v.exprs[v.exprStack[j]].start
                                              .. (v.exprs[v.exprStack[j]].start + v.argIter[j]) - 1
  <2> DEFINE e == v.exprStack[j]
  <2>1. e \in Nat /\ \A i \in 2 .. v.layer + 1 : v.exprStack[i] \in Nat
    <3>1. \A i \in 2 .. v.layer + 1 : i \in 1 .. Len(v.exprStack)
      BY <1>1, SMTT(30)
    <3>2. \A i \in 1 .. Len(v.exprStack) : v.exprStack[i] \in Nat
      BY <1>1, SMTT(30)
    <3> QED BY <3>1, <3>2
  <2>2. e \in DOMAIN v.exprs
    BY <1>1 DEF WriterOK, StacksOK
  <2>3. v.exprs[e].start \in Nat
    <3>1. v.exprs \in Vector(Expression)
      BY DEF WriterOK, Writer
    <3>2. v.exprs[e] \in Expression
      BY <2>2, <3>1, VectorOK
    <3> QED BY <3>2 DEF Expression
  <2>4. OpenIn(v, e) = {j}
    <3>1. ASSUME NEW i \in 2 .. v.layer + 1, v.exprStack[i] = e PROVE i = j
      <4>1. ~(i < j) /\ ~(j < i)
        BY <2>1, <3>1 DEF StackUp
      <4> QED BY <1>1, <4>1
    <3> QED BY <1>1, <3>1 DEF OpenIn
  <2>5. (CHOOSE i \in OpenIn(v, e) : TRUE) = j
    BY <2>4
  <2>6. e # -1 /\ OpenIn(v, e) # {}
    BY <2>1, <2>4
  <2>7. StartOf(v, e) = v.exprs[e].start /\ EndOf(v, e) = v.exprs[e].start + v.argIter[j]
    BY <2>5, <2>6 DEF StartOf, EndOf
  <2>8. SlotsOf(v, e) = v.exprs[e].start .. (v.exprs[e].start + v.argIter[j]) - 1
    <3> HIDE DEF e
    <3> QED BY <2>7, Zenon DEF SlotsOf
  <2> QED BY <2>1, <2>2, <2>3, <2>8
<1>4. ASSUME NEW e \in Nat, \A j \in 2 .. v.layer + 1 : v.exprStack[j] # e
      PROVE  SlotsOf(v, e) = v.exprs[e].start .. v.exprs[e].end - 1
  <2>1. OpenIn(v, e) = {} /\ e # -1
    BY <1>1, <1>4 DEF OpenIn
  <2> QED BY <2>1 DEF SlotsOf, StartOf, EndOf
<1> QED BY <1>2, <1>3, <1>4

(***************************************************************************)
(* The next slot of a layer: where the expression that is open on it goes  *)
(* on, or where the next one will begin.                                   *)
(***************************************************************************)
Cursor(v, l) ==
  IF l > v.layer THEN v.cumul[l - 1]
  ELSE (IF l = 0 THEN 0 ELSE v.exprs[v.exprStack[l + 1]].start) + v.argIter[l + 1]

ShapeOK(v, k) ==
  /\ v.layer \in DOMAIN k.perLayer /\ DOMAIN v.cumul = DOMAIN k.perLayer
  /\ DOMAIN v.types = Used(k, k.perLayer) /\ DOMAIN v.exprs = 0 .. k.expressionCount - 1
  /\ v.nextExpr <= k.expressionCount

\* The slots of the expressions I are U, none of them in two expressions.
Sliced(v, I, U) ==
  /\ \A x : x \in U <=> \E e \in I : x \in SlotsOf(v, e)
  /\ \A e, f \in I : e # f => SlotsOf(v, e) \cap SlotsOf(v, f) = {}

FilledTo(v, k, n) ==
  /\ ShapeOK(v, k) /\ Room(k, n) /\ StackUp(v)
  /\ \A l \in DOMAIN k.perLayer : Cursor(v, l) = Base(k, l) + n[l]
  /\ Sliced(v, Ids(v), Used(k, n))

\* Slices stay apart when one of them gets a slot that was not used.
LEMMA SlicedGrows ==
  ASSUME NEW v, NEW r, NEW I, NEW U, NEW i, i \notin U, Sliced(v, I, U), NEW T \in I,
         \A e \in I : SlotsOf(r, e) = IF e = T THEN SlotsOf(v, e) \cup {i} ELSE SlotsOf(v, e)
  PROVE  Sliced(r, I, U \cup {i})
<1>1. \A x : x \in U \cup {i} <=> \E e \in I : x \in SlotsOf(r, e)
  BY DEF Sliced
<1>2. \A e \in I : i \notin SlotsOf(v, e)
  BY DEF Sliced
<1>3. \A e, f \in I : e # f => SlotsOf(r, e) \cap SlotsOf(r, f) = {}
  BY <1>2 DEF Sliced
<1> QED BY <1>1, <1>3 DEF Sliced

\* A slice that ends one slot later has that slot more.
LEMMA IntervalGrows ==
  ASSUME NEW a \in Nat, NEW x \in Nat
  PROVE  a .. (a + (x + 1)) - 1 = (a .. (a + x) - 1) \cup {a + x}
OBVIOUS

\* The two stacks are one higher than the layer, and their tops are Last.
LEMMA ArgIterOK ==
  ASSUME NEW v, WriterOK(v)
  PROVE  /\ v.layer \in Nat /\ Len(v.argIter) = v.layer + 1 /\ v.argIter \in Seq(Nat)
         /\ \A j \in 1 .. v.layer + 1 : v.argIter[j] \in Nat
         /\ Last(v.argIter) = v.argIter[v.layer + 1]
         /\ v.exprStack \in Seq(Nat) /\ Len(v.exprStack) = v.layer + 1
         /\ Last(v.exprStack) = v.exprStack[v.layer + 1]
<1>1. /\ v.argIter \in Seq(Nat) /\ Len(v.argIter) = v.layer + 1 /\ v.layer \in Nat
      /\ Last(v.argIter) = v.argIter[Len(v.argIter)]
      /\ v.exprStack \in Seq(Nat) /\ Len(v.exprStack) = v.layer + 1
      /\ Last(v.exprStack) = v.exprStack[Len(v.exprStack)]
  BY LastOK
<1>2. \A j \in 1 .. v.layer + 1 : v.argIter[j] \in Nat
  BY <1>1, SMTT(30)
<1> QED BY <1>1, <1>2

\* An argument goes to the cursor of its layer, and on it goes.
LEMMA FilledStored ==
  ASSUME NEW k \in Counters, NEW v, NEW r, NEW n, WriterOK(v), WriterOK(r), FilledTo(v, k, n), Stored(v, r),
         n[v.layer] < k.perLayer[v.layer]
  PROVE  FilledTo(r, k, OneMore(n, v.layer))
<1> DEFINE L == v.layer
           i == Base(k, L) + n[L]
           o == OneMore(n, L)
           T == IF L = 0 THEN -1 ELSE v.exprStack[L + 1]
<1>1. /\ L \in Nat /\ Len(v.argIter) = L + 1 /\ v.argIter \in Seq(Nat)
      /\ \A j \in 1 .. L + 1 : v.argIter[j] \in Nat
  BY ArgIterOK
<1>2. /\ r.exprs = v.exprs /\ r.cumul = v.cumul /\ r.exprStack = v.exprStack
      /\ r.nextExpr = v.nextExpr /\ r.layer = L /\ DOMAIN r.types = DOMAIN v.types
  BY DEF Stored, OneStored
<1>3. \A j \in 1 .. L + 1 : r.argIter[j] = IF j = L + 1 THEN v.argIter[j] + 1 ELSE v.argIter[j]
  BY <1>1 DEF Stored
<1>4. L \in DOMAIN k.perLayer /\ DOMAIN k.perLayer \subseteq Nat
  BY BaseOK DEF FilledTo, ShapeOK
<1>5. ShapeOK(r, k) /\ StackUp(r) /\ StackUp(v)
  BY <1>2 DEF FilledTo, ShapeOK, StackUp
<1>6. /\ Room(k, o) /\ Used(k, o) = Used(k, n) \cup {i} /\ i \notin Used(k, n)
  <2>1. Room(k, n)
    BY DEF FilledTo
  <2>2. L \in DOMAIN k.perLayer /\ n[L] < k.perLayer[L]
    BY <1>4
  <2> HIDE DEF L
  <2> QED BY <2>1, <2>2, UsedGrows
<1>7. \A l \in DOMAIN k.perLayer : Cursor(r, l) = Base(k, l) + o[l]
  <2> TAKE l \in DOMAIN k.perLayer
  <2>1. Cursor(v, l) = Base(k, l) + n[l] /\ Base(k, l) \in Nat /\ n[l] \in Nat /\ l \in Nat
    BY BaseOK DEF FilledTo, Room
  <2>2. o[l] = IF l = L THEN n[l] + 1 ELSE n[l]
    BY <1>4 DEF OneMore, FilledTo, Room
  <2>3. CASE l > L
    BY <1>1, <1>2, <2>1, <2>2, <2>3 DEF Cursor
  <2>4. CASE l = L
    <3>1. r.argIter[L + 1] = v.argIter[L + 1] + 1 /\ v.argIter[L + 1] \in Nat
      BY <1>1, <1>3
    <3>2. L # 0 => v.exprs[v.exprStack[L + 1]].start \in Nat
      <4>1. L # 0 => L + 1 \in 2 .. L + 1
        BY <1>1
      <4> QED BY <1>5, <4>1, SlotsCases
    <3>3. Cursor(r, l) = Cursor(v, l) + 1
      <4> DEFINE a == IF l = 0 THEN 0 ELSE v.exprs[v.exprStack[l + 1]].start
      <4>1. a \in Nat /\ ~(l > L)
        BY <1>1, <2>4, <3>2
      <4>2. Cursor(r, l) = a + r.argIter[L + 1] /\ Cursor(v, l) = a + v.argIter[L + 1]
        BY <1>2, <2>4, <4>1 DEF Cursor
      <4> HIDE DEF a
      <4> QED BY <3>1, <4>1, <4>2
    <3> QED BY <2>1, <2>2, <2>4, <3>3
  <2>5. CASE l < L
    <3>1. l + 1 \in 1 .. L + 1 /\ l + 1 # L + 1 /\ ~(l > L)
      BY <1>1, <2>1, <2>5
    <3>2. r.argIter[l + 1] = v.argIter[l + 1]
      BY <1>3, <3>1
    <3> QED BY <1>2, <2>1, <2>2, <2>5, <3>1, <3>2 DEF Cursor
  <2> QED BY <1>1, <2>1, <2>3, <2>4, <2>5
<1>8. i = Cursor(v, L)
  BY <1>4 DEF FilledTo
<1>9. T \in Ids(v)
  <2>1. CASE L = 0
    <3>1. v.nextExpr \in Nat
      BY DEF WriterOK, Writer
    <3> QED BY <2>1, <3>1 DEF Ids
  <2>2. CASE L # 0
    <3>1. L + 1 \in 2 .. L + 1
      BY <1>1, <2>2
    <3>2. v.exprStack[L + 1] \in Nat /\ v.exprStack[L + 1] < v.nextExpr /\ v.nextExpr \in Nat
      BY <1>5, <3>1, SlotsCases DEF StackUp, WriterOK, Writer
    <3> QED BY <2>2, <3>2 DEF Ids
  <2> QED BY <2>1, <2>2
<1>10. \A e \in Ids(v) : SlotsOf(r, e) = IF e = T THEN SlotsOf(v, e) \cup {i} ELSE SlotsOf(v, e)
  <2> TAKE e \in Ids(v)
  <2>0. e = -1 \/ e \in Nat
    <3>1. v.nextExpr \in Nat
      BY DEF WriterOK, Writer
    <3> QED BY <3>1 DEF Ids
  <2>1. CASE e = -1
    <3>1. SlotsOf(v, e) = 0 .. v.argIter[1] - 1 /\ SlotsOf(r, e) = 0 .. r.argIter[1] - 1
      BY <1>5, <2>1, SlotsCases
    <3>2. v.argIter[1] \in Nat /\ r.argIter[1] = IF 1 = L + 1 THEN v.argIter[1] + 1 ELSE v.argIter[1]
      BY <1>1, <1>3
    <3>3. T = -1 <=> L = 0
      <4>1. L # 0 => v.exprStack[L + 1] \in Nat
        <5>1. L # 0 => L + 1 \in 2 .. L + 1
          BY <1>1
        <5> QED BY <1>5, <5>1, SlotsCases
      <4>2. \A x \in Nat : x # -1
        OBVIOUS
      <4> QED BY <4>1, <4>2
    <3>4. CASE L = 0
      <4>1. i = v.argIter[1]
        <5>1. ~(0 > 0) /\ 0 + v.argIter[1] = v.argIter[1] /\ 0 + 1 = 1
          BY <3>2
        <5> QED BY <1>8, <3>4, <5>1 DEF Cursor
      <4>2. 0 .. (v.argIter[1] + 1) - 1 = (0 .. v.argIter[1] - 1) \cup {v.argIter[1]}
        BY <3>2
      <4> QED BY <2>1, <3>1, <3>2, <3>3, <3>4, <4>1, <4>2
    <3>5. CASE L # 0
      <4>1. 1 # L + 1
        BY <1>1, <3>5
      <4> QED BY <2>1, <3>1, <3>2, <3>3, <3>5, <4>1
    <3> QED BY <3>4, <3>5
  <2>2. CASE e \in Nat /\ \E j \in 2 .. L + 1 : v.exprStack[j] = e
    <3>1. PICK j \in 2 .. L + 1 : v.exprStack[j] = e
      BY <2>2
    <3> DEFINE a == v.exprs[e].start
    <3>2. a \in Nat /\ SlotsOf(v, e) = a .. (a + v.argIter[j]) - 1
      BY <1>5, <3>1, SlotsCases
    <3>3. SlotsOf(r, e) = a .. (a + r.argIter[j]) - 1
      <4>1. r.layer = L /\ r.exprStack[j] = e
        BY <1>2, <3>1
      <4>2. \A m \in 2 .. r.layer + 1 : SlotsOf(r, r.exprStack[m]) = r.exprs[r.exprStack[m]].start
                                             .. (r.exprs[r.exprStack[m]].start + r.argIter[m]) - 1
        BY <1>5, SlotsCases
      <4> QED BY <1>2, <4>1, <4>2
    <3>4. j \in 1 .. L + 1 /\ v.argIter[j] \in Nat
      BY <1>1
    <3>5. r.argIter[j] = IF j = L + 1 THEN v.argIter[j] + 1 ELSE v.argIter[j]
      BY <1>3, <3>4
    <3>6. CASE j = L + 1
      <4>1. e = T /\ L # 0
        BY <1>1, <3>1, <3>6
      <4>2. i = a + v.argIter[j]
        <5>1. ~(L > L)
          BY <1>1
        <5> QED BY <1>8, <3>1, <3>6, <4>1, <5>1 DEF Cursor
      <4>3. a .. (a + (v.argIter[j] + 1)) - 1 = (a .. (a + v.argIter[j]) - 1) \cup {a + v.argIter[j]}
        BY <3>2, <3>4, IntervalGrows
      <4> QED BY <3>2, <3>3, <3>5, <3>6, <4>1, <4>2, <4>3
    <3>7. CASE j # L + 1
      <4>1. e # T
        <5>1. L # 0 /\ L + 1 \in 2 .. L + 1 /\ j < L + 1
          BY <1>1, <3>1, <3>7
        <5>2. v.exprStack[j] < v.exprStack[L + 1] /\ v.exprStack[j] \in Nat /\ v.exprStack[L + 1] \in Nat
          BY <1>5, <5>1, SlotsCases DEF StackUp
        <5> QED BY <3>1, <5>1, <5>2
      <4> QED BY <3>2, <3>3, <3>5, <3>7, <4>1
    <3> QED BY <3>6, <3>7
  <2>3. CASE e \in Nat /\ \A j \in 2 .. L + 1 : v.exprStack[j] # e
    <3>1. SlotsOf(v, e) = v.exprs[e].start .. v.exprs[e].end - 1
      BY <1>5, <2>3, SlotsCases
    <3>2. SlotsOf(r, e) = v.exprs[e].start .. v.exprs[e].end - 1
      BY <1>2, <1>5, <2>3, SlotsCases
    <3>3. e # T
      <4>1. L # 0 => L + 1 \in 2 .. L + 1
        BY <1>1
      <4>2. e # -1
        BY <2>3
      <4> QED BY <2>3, <4>1, <4>2
    <3> QED BY <3>1, <3>2, <3>3
  <2> QED BY <2>0, <2>1, <2>2, <2>3
<1>11. Sliced(r, Ids(r), Used(k, o))
  <2>1. Ids(r) = Ids(v)
    BY <1>2 DEF Ids
  <2>2. Sliced(v, Ids(v), Used(k, n))
    BY DEF FilledTo
  <2> HIDE DEF T, i
  <2>3. Sliced(r, Ids(v), Used(k, n) \cup {i})
    BY <1>6, <1>9, <1>10, <2>2, SlicedGrows
  <2> QED BY <1>6, <2>1, <2>3
<1> QED BY <1>5, <1>6, <1>7, <1>11 DEF FilledTo

(***************************************************************************)
(* An expression that begins: it gets an argument in the one around it,    *)
(* and no slots of its own yet.                                            *)
(***************************************************************************)
\* The slot that startExpression takes, in front of the push.
Stepped(v) == [v EXCEPT !.argIter = [v.argIter EXCEPT ![Len(v.argIter)] = @ + 1]]

\* Moving the iterator past a slot that is already stored.
LEMMA SteppedStores ==
  ASSUME NEW v, WriterOK(v)
  PROVE  WriterOK(Stepped(v)) /\ Stored(v, Stepped(v))
<1> DEFINE I == [v.argIter EXCEPT ![Len(v.argIter)] = @ + 1]
           s == Stepped(v)
<1>1. v \in Writer /\ StacksOK(v) /\ v.argIter \in Seq(Nat) /\ v.argIter # <<>>
      /\ Len(v.argIter) = v.layer + 1 /\ v.layer \in Nat /\ v.run \in Nat /\ v.run <= Last(v.argIter)
      /\ Last(v.argIter) = v.argIter[Len(v.argIter)]
  BY LastOK DEF WriterOK
<1>2. I \in Seq(Nat) /\ Len(I) = Len(v.argIter) /\ I[Len(v.argIter)] = v.argIter[Len(v.argIter)] + 1 /\ I # <<>>
  BY <1>1
<1>3. Last(I) = I[Len(I)]
  BY <1>2, PopStack
<1>4. v.argIter[Len(v.argIter)] \in Nat
  BY <1>1
<1>5. v.run <= Last(I)
  BY <1>1, <1>2, <1>3, <1>4
<1>6. s = [v EXCEPT !.argIter = I]
  BY DEF Stepped
<1> HIDE DEF I, s
<1>7. /\ s.types = v.types /\ s.args = v.args /\ s.exprs = v.exprs /\ s.cumul = v.cumul
      /\ s.keyValue = v.keyValue /\ s.exprStack = v.exprStack /\ s.nextExpr = v.nextExpr
      /\ s.layer = v.layer /\ s.argIter = I /\ s.wild = v.wild /\ s.run = v.run
  BY <1>1, <1>6 DEF Writer
<1>8. s \in Writer
  BY <1>1, <1>2, <1>6 DEF Writer
<1>9. WriterOK(s)
  BY <1>1, <1>2, <1>5, <1>7, <1>8 DEF WriterOK, StacksOK
<1>10. Stored(v, s)
  BY <1>7 DEF Stored, OneStored, ArgsElsewhere, I
<1> QED BY <1>9, <1>10 DEF s

\* The push.
Pushes(v, r, x) ==
  /\ r.nextExpr = v.nextExpr + 1 /\ r.layer = v.layer + 1 /\ r.cumul = v.cumul
  /\ DOMAIN r.types = DOMAIN v.types /\ r.exprStack = Append(v.exprStack, v.nextExpr)
  /\ r.argIter = Append(v.argIter, 0) /\ r.exprs = [v.exprs EXCEPT ![v.nextExpr] = x]

\* A slice that is opened empty at the cursor of the layer below it changes
\* no slice and no cursor.
LEMMA FilledPushed ==
  ASSUME NEW k \in Counters, NEW v, NEW r, NEW n, WriterOK(v), WriterOK(r), FilledTo(v, k, n),
         v.layer + 1 \in DOMAIN k.perLayer, v.nextExpr \in DOMAIN v.exprs,
         NEW x \in Expression, x.start = v.cumul[v.layer], Pushes(v, r, x)
  PROVE  FilledTo(r, k, n)
<1> DEFINE L == v.layer
           e == v.nextExpr
<1>1. /\ L \in Nat /\ Len(v.argIter) = L + 1 /\ v.argIter \in Seq(Nat)
      /\ v.exprStack \in Seq(Nat) /\ Len(v.exprStack) = L + 1
      /\ \A j \in 1 .. L + 1 : v.argIter[j] \in Nat
      /\ e \in Nat
  BY ArgIterOK DEF WriterOK, Writer
<1>2. /\ \A j \in 1 .. L + 1 : r.argIter[j] = v.argIter[j] /\ r.exprStack[j] = v.exprStack[j]
      /\ r.argIter[L + 2] = 0 /\ r.exprStack[L + 2] = e
  <2>1. r.argIter = Append(v.argIter, 0) /\ r.exprStack = Append(v.exprStack, e) /\ 0 \in Nat
    BY DEF Pushes
  <2>2. L + 1 + 1 = L + 2
    BY <1>1
  <2> HIDE DEF L, e
  <2> QED BY <1>1, <2>1, <2>2, PushStack
<1>20. r.layer = L + 1 /\ r.nextExpr = e + 1 /\ r.cumul = v.cumul /\ DOMAIN r.types = DOMAIN v.types
  BY DEF Pushes
<1>3. ShapeOK(v, k) /\ StackUp(v) /\ Room(k, n)
  BY DEF FilledTo
<1>4. e \in DOMAIN v.exprs /\ DOMAIN r.exprs = DOMAIN v.exprs /\ r.exprs[e] = x
      /\ \A f \in DOMAIN v.exprs : f # e => r.exprs[f] = v.exprs[f]
  <2>1. v.exprs \in Vector(Expression) /\ r.exprs = [v.exprs EXCEPT ![e] = x]
    BY DEF WriterOK, Writer, Pushes
  <2> HIDE DEF e
  <2> QED BY <2>1, SetOK DEF e
<1>5. ShapeOK(r, k)
  <2>1. k.expressionCount \in Nat
    BY DEF Counters
  <2>2. DOMAIN v.exprs = 0 .. k.expressionCount - 1
    BY <1>3 DEF ShapeOK
  <2>3. r.nextExpr <= k.expressionCount
    BY <1>1, <1>4, <1>20, <2>1, <2>2
  <2> QED BY <1>3, <1>4, <1>20, <2>3 DEF ShapeOK
<1> HIDE DEF L, e
<1>6. \A j \in 2 .. L + 1 : /\ v.exprStack[j] \in Nat /\ v.exprStack[j] < e /\ v.exprStack[j] # e
                            /\ v.exprStack[j] \in DOMAIN v.exprs
  <2>1. \A j \in 2 .. L + 1 : /\ v.exprStack[j] \in Nat /\ v.exprStack[j] < e
                              /\ v.exprStack[j] \in DOMAIN v.exprs
    BY <1>3, SlotsCases DEF StackUp, L, e
  <2> QED BY <1>1, <2>1
<1>7. StackUp(r)
  <2>1. \A j \in 2 .. L + 2 : r.exprStack[j] < e + 1 /\ r.exprStack[j] \in Nat
    <3> TAKE j \in 2 .. L + 2
    <3>1. (j \in 2 .. L + 1 /\ j \in 1 .. L + 1) \/ j = L + 2
      BY <1>1
    <3>2. CASE j = L + 2
      BY <1>1, <1>2, <3>2
    <3>3. CASE j \in 2 .. L + 1 /\ j \in 1 .. L + 1
      <4>1. r.exprStack[j] = v.exprStack[j] /\ v.exprStack[j] \in Nat /\ v.exprStack[j] < e
        BY <1>2, <1>6, <3>3
      <4> QED BY <1>1, <4>1
    <3> QED BY <3>1, <3>2, <3>3
  <2>2. \A i, j \in 2 .. L + 2 : i < j => r.exprStack[i] < r.exprStack[j]
    <3> TAKE i, j \in 2 .. L + 2
    <3> HAVE i < j
    <3>1. i \in 2 .. L + 1 /\ i \in 1 .. L + 1 /\ ((j \in 2 .. L + 1 /\ j \in 1 .. L + 1) \/ j = L + 2)
      BY <1>1
    <3>2. r.exprStack[i] = v.exprStack[i]
      BY <1>2, <3>1
    <3>3. CASE j = L + 2
      BY <1>2, <1>6, <3>1, <3>2, <3>3
    <3>4. CASE j \in 2 .. L + 1 /\ j \in 1 .. L + 1
      <4>1. v.exprStack[i] < v.exprStack[j]
        BY <1>3, <3>1, <3>4 DEF StackUp, L
      <4> QED BY <1>2, <3>2, <3>4, <4>1
    <3> QED BY <3>1, <3>3, <3>4
  <2>3. r.layer + 1 = L + 2
    BY <1>1, <1>20
  <2> QED BY <1>20, <2>1, <2>2, <2>3 DEF StackUp
<1>8. \A l \in DOMAIN k.perLayer : Cursor(r, l) = Cursor(v, l)
  <2> TAKE l \in DOMAIN k.perLayer
  <2>1. l \in Nat
    BY BaseOK
  <2>2. CASE l > L + 1
    <3>1. l > L /\ l > r.layer
      BY <1>1, <1>20, <2>1, <2>2
    <3> QED BY <1>20, <3>1 DEF Cursor, L
  <2>3. CASE l = L + 1
    <3>1. ~(l > r.layer) /\ l > L /\ l # 0 /\ l - 1 = L /\ l + 1 = L + 2
      BY <1>1, <1>20, <2>3
    <3>2. Cursor(r, l) = x.start + 0 /\ Cursor(v, l) = v.cumul[L]
      BY <1>2, <1>4, <3>1 DEF Cursor, L
    <3>3. x.start \in Nat /\ x.start = v.cumul[L]
      BY DEF Expression, L
    <3> QED BY <3>2, <3>3
  <2>4. CASE l <= L
    <3>1. ~(l > r.layer) /\ ~(l > L) /\ l + 1 \in 1 .. L + 1
      BY <1>1, <1>20, <2>1, <2>4
    <3>2. r.argIter[l + 1] = v.argIter[l + 1] /\ r.exprStack[l + 1] = v.exprStack[l + 1]
      BY <1>2, <3>1
    <3>3. l # 0 => r.exprs[r.exprStack[l + 1]] = v.exprs[v.exprStack[l + 1]]
      <4>1. l # 0 => l + 1 \in 2 .. L + 1
        BY <2>1, <3>1
      <4> QED BY <1>4, <1>6, <3>2, <4>1
    <3> QED BY <3>1, <3>2, <3>3 DEF Cursor, L
  <2> QED BY <1>1, <2>1, <2>2, <2>3, <2>4
<1>9. \A f \in Ids(v) : SlotsOf(r, f) = SlotsOf(v, f) /\ f # e
  <2> TAKE f \in Ids(v)
  <2>1. f = -1 \/ f \in Nat
    BY <1>1 DEF Ids, e
  <2>2. f # e
    BY <1>1 DEF Ids, e
  <2>3. CASE f = -1
    <3>1. r.argIter[1] = v.argIter[1]
      BY <1>1, <1>2
    <3> QED BY <1>3, <1>7, <2>2, <2>3, <3>1, SlotsCases
  <2>4. CASE f \in Nat /\ \E j \in 2 .. L + 1 : v.exprStack[j] = f
    <3>1. PICK j \in 2 .. L + 1 : v.exprStack[j] = f
      BY <2>4
    <3>2. j \in 1 .. L + 1 /\ j \in 2 .. r.layer + 1
      BY <1>1, <1>20
    <3>3. r.exprStack[j] = f /\ r.argIter[j] = v.argIter[j] /\ r.exprs[f] = v.exprs[f]
      BY <1>2, <1>4, <1>6, <3>1, <3>2
    <3>4. SlotsOf(v, v.exprStack[j]) = v.exprs[v.exprStack[j]].start .. (v.exprs[v.exprStack[j]].start + v.argIter[j]) - 1
      BY <1>3, SlotsCases DEF L
    <3>5. SlotsOf(r, r.exprStack[j]) = r.exprs[r.exprStack[j]].start .. (r.exprs[r.exprStack[j]].start + r.argIter[j]) - 1
      BY <1>7, <3>2, SlotsCases
    <3> QED BY <2>2, <3>1, <3>3, <3>4, <3>5
  <2>5. CASE f \in Nat /\ \A j \in 2 .. L + 1 : v.exprStack[j] # f
    <3>1. \A j \in 2 .. r.layer + 1 : r.exprStack[j] # f
      <4> TAKE j \in 2 .. r.layer + 1
      <4>1. j = L + 2 \/ (j \in 1 .. L + 1 /\ j \in 2 .. L + 1)
        BY <1>1, <1>20
      <4> QED BY <1>2, <2>2, <2>5, <4>1
    <3>2. f \in DOMAIN v.exprs
      <4>1. f < e /\ v.exprs \in Vector(Expression)
        BY <1>1, <2>5 DEF Ids, WriterOK, Writer, e
      <4> QED BY <1>1, <1>4, <2>5, <4>1, VectorOK
    <3>3. r.exprs[f] = v.exprs[f]
      BY <1>4, <2>2, <3>2
    <3>4. SlotsOf(v, f) = v.exprs[f].start .. v.exprs[f].end - 1
      BY <1>3, <2>5, SlotsCases DEF L
    <3>5. SlotsOf(r, f) = r.exprs[f].start .. r.exprs[f].end - 1
      BY <1>7, <2>5, <3>1, SlotsCases
    <3> QED BY <2>2, <3>3, <3>4, <3>5
  <2> QED BY <2>1, <2>3, <2>4, <2>5
<1>10. Ids(r) = Ids(v) \cup {e} /\ SlotsOf(r, e) = {}
  <2>1. Ids(r) = Ids(v) \cup {e}
    <3>1. Ids(r) = -1 .. (e + 1) - 1 /\ Ids(v) = -1 .. e - 1
      BY <1>20 DEF Ids, e
    <3>2. -1 .. (e + 1) - 1 = (-1 .. e - 1) \cup {e}
      BY <1>1
    <3> QED BY <3>1, <3>2
  <2>2. L + 2 \in 2 .. r.layer + 1
    BY <1>1, <1>20
  <2>3. SlotsOf(r, r.exprStack[L + 2]) = r.exprs[r.exprStack[L + 2]].start
                                         .. (r.exprs[r.exprStack[L + 2]].start + r.argIter[L + 2]) - 1
    BY <1>7, <2>2, SlotsCases
  <2>4. SlotsOf(r, e) = x.start .. (x.start + 0) - 1 /\ x.start \in Nat
    BY <1>2, <1>4, <2>3 DEF Expression
  <2>5. \A a \in Nat : a .. (a + 0) - 1 = {}
    OBVIOUS
  <2> QED BY <2>1, <2>4, <2>5
<1>11. Sliced(r, Ids(r), Used(k, n))
  <2>1. Sliced(v, Ids(v), Used(k, n))
    BY DEF FilledTo
  <2> QED BY <1>9, <1>10, <2>1 DEF Sliced
<1>12. \A l \in DOMAIN k.perLayer : Cursor(r, l) = Base(k, l) + n[l]
  BY <1>8 DEF FilledTo
<1> QED BY <1>3, <1>5, <1>7, <1>11, <1>12 DEF FilledTo

\* startExpression takes one slot of its layer, and opens a slice below.
LEMMA FilledOpened ==
  ASSUME NEW k \in Counters, NEW v, NEW r, NEW n, WriterOK(v), WriterOK(r), FilledTo(v, k, n), Opened(v, r),
         n[v.layer] < k.perLayer[v.layer], v.layer + 1 \in DOMAIN k.perLayer, v.nextExpr \in DOMAIN v.exprs
  PROVE  FilledTo(r, k, OneMore(n, v.layer))
<1> DEFINE s == Stepped(v)
           o == OneMore(n, v.layer)
<1>1. WriterOK(s) /\ Stored(v, s)
  BY SteppedStores
<1>2. FilledTo(s, k, o)
  BY <1>1, FilledStored
<1>3. /\ s.exprs = v.exprs /\ s.cumul = v.cumul /\ s.exprStack = v.exprStack /\ s.nextExpr = v.nextExpr
      /\ s.layer = v.layer /\ DOMAIN s.types = DOMAIN v.types
      /\ s.argIter = [v.argIter EXCEPT ![Len(v.argIter)] = @ + 1]
  BY <1>1 DEF Stored, OneStored
<1> HIDE DEF s, o
<1>4. PICK x \in Expression : x.start = v.cumul[v.layer] /\ r.exprs = [v.exprs EXCEPT ![v.nextExpr] = x]
  BY DEF Opened
<1>5. Pushes(s, r, x)
  BY <1>3, <1>4 DEF Opened, Pushes
<1>6. x.start = s.cumul[s.layer]
  BY <1>3, <1>4
<1>7. s.layer + 1 \in DOMAIN k.perLayer /\ s.nextExpr \in DOMAIN s.exprs
  BY <1>3
<1> QED BY <1>1, <1>2, <1>5, <1>6, <1>7, FilledPushed DEF o

(***************************************************************************)
(* An expression that ends: its slots stay its own, and the next           *)
(* expression of its layer begins behind them.                             *)
(***************************************************************************)
LEMMA LayerBelow ==
  ASSUME NEW L \in Nat, L >= 1
  PROVE  /\ L - 1 \in Nat /\ L - 1 <= L /\ (L + 1) - 1 = L /\ (L - 1) + 1 = L /\ L > L - 1 /\ ~(L > L)
         /\ L + 1 \in 2 .. L + 1 /\ L + 1 \in 1 .. L + 1 /\ 1 \in 1 .. L
         /\ \A j \in 2 .. L : j \in 1 .. L /\ j \in 2 .. L + 1 /\ j < L + 1 /\ j # L + 1
         /\ \A j \in 2 .. L + 1 : j # L + 1 => j \in 2 .. L
         /\ \A l \in Nat : l < L => /\ ~(l > L - 1) /\ ~(l > L) /\ l + 1 \in 1 .. L
                                   /\ (l # 0 => l + 1 \in 2 .. L /\ l + 1 \in 2 .. L + 1)
         /\ \A l \in Nat : l > L => l > L - 1 /\ l - 1 # L - 1 /\ l - 1 \in Nat /\ l - 1 <= l
OBVIOUS

\* endExpression hands the cursor of the slice back to its layer.
LEMMA FilledClosed ==
  ASSUME NEW k \in Counters, NEW v, NEW r, NEW n, WriterOK(v), WriterOK(r), FilledTo(v, k, n), Closed(v, r),
         v.layer >= 1
  PROVE  FilledTo(r, k, n)
<1> DEFINE L == v.layer
           e == v.exprStack[L + 1]
           a == v.exprs[e].start
           m == v.argIter[L + 1]
<1>1. /\ L \in Nat /\ Len(v.argIter) = L + 1 /\ v.argIter \in Seq(Nat)
      /\ v.exprStack \in Seq(Nat) /\ Len(v.exprStack) = L + 1
      /\ \A j \in 1 .. L + 1 : v.argIter[j] \in Nat
      /\ Last(v.exprStack) = e /\ Last(v.argIter) = m
  BY ArgIterOK
<1>2. ShapeOK(v, k) /\ StackUp(v) /\ Room(k, n)
  BY DEF FilledTo
<1>3. /\ L - 1 \in Nat /\ L - 1 <= L /\ (L + 1) - 1 = L /\ (L - 1) + 1 = L /\ L > L - 1 /\ ~(L > L)
      /\ L + 1 \in 2 .. L + 1 /\ L + 1 \in 1 .. L + 1 /\ 1 \in 1 .. L
      /\ \A j \in 2 .. L : j \in 1 .. L /\ j \in 2 .. L + 1 /\ j < L + 1 /\ j # L + 1
      /\ \A j \in 2 .. L + 1 : j # L + 1 => j \in 2 .. L
      /\ \A l \in Nat : l < L => /\ ~(l > L - 1) /\ ~(l > L) /\ l + 1 \in 1 .. L
                                /\ (l # 0 => l + 1 \in 2 .. L /\ l + 1 \in 2 .. L + 1)
      /\ \A l \in Nat : l > L => l > L - 1 /\ l - 1 # L - 1 /\ l - 1 \in Nat /\ l - 1 <= l
  <2>1. L \in Nat /\ L >= 1
    BY <1>1
  <2> HIDE DEF L
  <2> QED BY <2>1, LayerBelow
<1>4. \A j \in 2 .. L + 1 : /\ v.exprStack[j] \in Nat /\ v.exprStack[j] \in DOMAIN v.exprs
                            /\ v.exprs[v.exprStack[j]].start \in Nat
                            /\ SlotsOf(v, v.exprStack[j]) = v.exprs[v.exprStack[j]].start
                                                  .. (v.exprs[v.exprStack[j]].start + v.argIter[j]) - 1
  BY <1>2, SlotsCases
<1>5. EndSlotOf(v) = a + m
  BY <1>1 DEF EndSlotOf
<1>6. PICK x \in Expression : x.start = a /\ x.end = a + m /\ r.exprs = [v.exprs EXCEPT ![e] = x]
  BY <1>1, <1>5 DEF Closed
<1>7. /\ r.layer = L - 1 /\ r.nextExpr = v.nextExpr /\ DOMAIN r.types = DOMAIN v.types
      /\ r.cumul = [v.cumul EXCEPT ![L - 1] = a + m]
  BY <1>5 DEF Closed
<1>8. \A j \in 1 .. L : r.argIter[j] = v.argIter[j] /\ r.exprStack[j] = v.exprStack[j]
  <2>1. v.argIter # <<>> /\ v.exprStack # <<>> /\ r.argIter = Front(v.argIter) /\ r.exprStack = Front(v.exprStack)
    BY LastOK DEF Closed
  <2>2. (L + 1) - 1 = L /\ Len(v.argIter) = L + 1 /\ Len(v.exprStack) = L + 1
        /\ v.argIter \in Seq(Nat) /\ v.exprStack \in Seq(Nat)
    BY <1>1, <1>3
  <2> HIDE DEF L
  <2>5. Len(v.argIter) - 1 = L /\ Len(v.exprStack) - 1 = L
    BY <2>2
  <2>3. \A j \in 1 .. L : Front(v.argIter)[j] = v.argIter[j]
    <3>1. \A j \in 1 .. Len(v.argIter) - 1 : Front(v.argIter)[j] = v.argIter[j]
      BY <2>1, <2>2, PopStack
    <3> QED BY <2>5, <3>1
  <2>4. \A j \in 1 .. L : Front(v.exprStack)[j] = v.exprStack[j]
    <3>1. \A j \in 1 .. Len(v.exprStack) - 1 : Front(v.exprStack)[j] = v.exprStack[j]
      BY <2>1, <2>2, PopStack
    <3> QED BY <2>5, <3>1
  <2> QED BY <2>1, <2>3, <2>4
<1>9. e \in DOMAIN v.exprs /\ e \in Nat /\ a \in Nat /\ m \in Nat
  <2>1. L + 1 \in 2 .. L + 1 /\ L + 1 \in 1 .. L + 1
    BY <1>1, <1>3
  <2> QED BY <1>1, <1>4, <2>1
<1>10. /\ DOMAIN r.exprs = DOMAIN v.exprs /\ r.exprs[e] = x
       /\ \A f \in DOMAIN v.exprs : f # e => r.exprs[f] = v.exprs[f]
  <2>1. v.exprs \in Vector(Expression)
    BY DEF WriterOK, Writer
  <2> HIDE DEF a, m, e
  <2> QED BY <1>6, <1>9, <2>1, SetOK
<1>11. DOMAIN r.cumul = DOMAIN v.cumul /\ \A l \in DOMAIN v.cumul : r.cumul[l] = IF l = L - 1 THEN a + m ELSE v.cumul[l]
  <2>1. v.cumul \in Vector(Nat)
    BY DEF WriterOK, Writer
  <2>2. a + m \in Nat
    BY <1>9
  <2> HIDE DEF a, m, e, L
  <2> QED BY <1>7, <2>1, <2>2, SetOK
<1>12. \A j \in 2 .. L : v.exprStack[j] # e
  <2> TAKE j \in 2 .. L
  <2>1. j \in 2 .. L + 1 /\ L + 1 \in 2 .. L + 1 /\ j < L + 1
    BY <1>3
  <2>2. v.exprStack[j] < e /\ v.exprStack[j] \in Nat
    BY <1>2, <1>4, <2>1 DEF StackUp
  <2> QED BY <1>9, <2>2
<1>13. /\ \A j \in 2 .. L + 1 : v.exprStack[j] < v.nextExpr
       /\ \A i, j \in 2 .. L + 1 : i < j => v.exprStack[i] < v.exprStack[j]
  BY <1>2 DEF StackUp
<1>14. \A l \in DOMAIN k.perLayer : Cursor(v, l) = Base(k, l) + n[l]
  BY DEF FilledTo
<1>15. L \in DOMAIN k.perLayer /\ DOMAIN v.cumul = DOMAIN k.perLayer
  BY <1>2 DEF ShapeOK
<1>16. L - 1 \in DOMAIN k.perLayer
  <2>1. L - 1 \in Nat /\ L - 1 <= L
    BY <1>3
  <2> QED BY <1>15, <2>1, BaseOK
<1>17. ShapeOK(r, k)
  BY <1>2, <1>7, <1>10, <1>11, <1>16 DEF ShapeOK
<1>18. ~(L > L) /\ L # 0 /\ Cursor(v, L) = a + m
  <2>1. ~(L > L) /\ L # 0
    BY <1>1, <1>3
  <2> QED BY <2>1 DEF Cursor
<1>19. /\ \A l \in DOMAIN k.perLayer : l > L => Cursor(v, l) = v.cumul[l - 1]
       /\ \A l \in DOMAIN k.perLayer : ~(l > L) =>
            Cursor(v, l) = (IF l = 0 THEN 0 ELSE v.exprs[v.exprStack[l + 1]].start) + v.argIter[l + 1]
  BY DEF Cursor
<1> DEFINE cursor == \A l \in DOMAIN k.perLayer : Cursor(r, l) = Cursor(v, l)
<1>20. SlotsOf(v, -1) = 0 .. v.argIter[1] - 1
  BY <1>2, SlotsCases
<1>28. \A f \in Nat : (\A j \in 2 .. L + 1 : v.exprStack[j] # f) => SlotsOf(v, f) = v.exprs[f].start .. v.exprs[f].end - 1
  BY <1>2, SlotsCases
<1>21. v.nextExpr \in Nat
  BY DEF WriterOK, Writer
<1> HIDE DEF L, e, a, m
<1>22. r.layer + 1 = L
  BY <1>3, <1>7
<1>23. StackUp(r)
  <2>1. \A j \in 2 .. L : r.exprStack[j] = v.exprStack[j] /\ j \in 2 .. L + 1
    BY <1>3, <1>8
  <2>2. \A j \in 2 .. L : r.exprStack[j] < r.nextExpr
    BY <1>7, <1>13, <2>1
  <2>3. \A i, j \in 2 .. L : i < j => r.exprStack[i] < r.exprStack[j]
    BY <1>13, <2>1
  <2> QED BY <1>22, <2>2, <2>3 DEF StackUp
<1>24. cursor
  <2> SUFFICES ASSUME NEW l \in DOMAIN k.perLayer PROVE Cursor(r, l) = Cursor(v, l)
    OBVIOUS
  <2>1. l \in Nat /\ \A j \in Nat : j <= l => j \in DOMAIN k.perLayer
    BY BaseOK
  <2>2. CASE l > L
    <3>1. l > r.layer /\ l - 1 # L - 1 /\ l - 1 \in Nat /\ l - 1 <= l
      BY <1>3, <1>7, <2>1, <2>2
    <3>2. r.cumul[l - 1] = v.cumul[l - 1]
      BY <1>11, <1>15, <2>1, <3>1
    <3>3. Cursor(v, l) = v.cumul[l - 1]
      BY <1>19, <2>2, Zenon
    <3>4. Cursor(r, l) = r.cumul[l - 1]
      BY <3>1 DEF Cursor
    <3> QED BY <3>2, <3>3, <3>4
  <2>3. CASE l = L
    <3>1. l > r.layer /\ l - 1 = L - 1
      BY <1>3, <1>7, <2>3
    <3>2. r.cumul[l - 1] = a + m
      BY <1>11, <1>15, <1>16, <3>1
    <3> QED BY <1>18, <2>3, <3>1, <3>2 DEF Cursor
  <2>4. CASE l < L
    <3>1. ~(l > r.layer) /\ ~(l > L) /\ l + 1 \in 1 .. L /\ (l # 0 => l + 1 \in 2 .. L /\ l + 1 \in 2 .. L + 1)
      BY <1>3, <1>7, <2>1, <2>4
    <3>2. r.argIter[l + 1] = v.argIter[l + 1] /\ r.exprStack[l + 1] = v.exprStack[l + 1]
      BY <1>8, <3>1
    <3>3. l # 0 => r.exprs[r.exprStack[l + 1]] = v.exprs[v.exprStack[l + 1]]
      BY <1>4, <1>10, <1>12, <3>1, <3>2
    <3>4. Cursor(v, l) = (IF l = 0 THEN 0 ELSE v.exprs[v.exprStack[l + 1]].start) + v.argIter[l + 1]
      BY <1>19, <3>1
    <3> QED BY <3>1, <3>2, <3>3, <3>4 DEF Cursor
  <2> QED BY <1>1, <2>1, <2>2, <2>3, <2>4
<1> HIDE DEF cursor
<1>25. SlotsOf(r, -1) = 0 .. r.argIter[1] - 1
       /\ \A j \in 2 .. L : SlotsOf(r, r.exprStack[j]) = r.exprs[r.exprStack[j]].start
                                                 .. (r.exprs[r.exprStack[j]].start + r.argIter[j]) - 1
  BY <1>22, <1>23, SlotsCases
<1>29. \A f \in Nat : (\A j \in 2 .. L : r.exprStack[j] # f) => SlotsOf(r, f) = r.exprs[f].start .. r.exprs[f].end - 1
  BY <1>22, <1>23, SlotsCases
<1>26. ASSUME NEW f \in Ids(v) PROVE SlotsOf(r, f) = SlotsOf(v, f)
  <2>1. f = -1 \/ (f \in Nat /\ f < v.nextExpr)
    BY <1>21 DEF Ids
  <2>2. CASE f = -1
    <3>1. 1 \in 1 .. L
      BY <1>1, <1>3
    <3>2. r.argIter[1] = v.argIter[1]
      BY <1>8, <3>1
    <3> QED BY <1>20, <1>25, <2>2, <3>2
  <2>3. CASE f = e
    <3>1. \A j \in 2 .. L : r.exprStack[j] # e
      <4>1. \A j \in 2 .. L : j \in 1 .. L
        BY <1>3
      <4> QED BY <1>8, <1>12, <4>1
    <3>2. SlotsOf(r, e) = a .. (a + m) - 1
      <4>1. SlotsOf(r, e) = r.exprs[e].start .. r.exprs[e].end - 1
        BY <1>9, <1>29, <3>1
      <4> QED BY <1>6, <1>10, <4>1
    <3>3. L + 1 \in 2 .. L + 1
      BY <1>1, <1>3
    <3>4. SlotsOf(v, e) = a .. (a + m) - 1
      BY <1>4, <3>3 DEF e, a, m
    <3> QED BY <2>3, <3>2, <3>4
  <2>4. CASE f # e /\ f \in Nat /\ \E j \in 2 .. L + 1 : v.exprStack[j] = f
    <3>1. PICK j \in 2 .. L + 1 : v.exprStack[j] = f
      BY <2>4
    <3>2. j # L + 1
      BY <2>4, <3>1 DEF e
    <3>3. j \in 2 .. L /\ j \in 1 .. L
      BY <1>3, <3>2
    <3>4. r.exprStack[j] = f /\ r.argIter[j] = v.argIter[j]
      BY <1>8, <3>1, <3>3
    <3>5. f \in DOMAIN v.exprs /\ SlotsOf(v, f) = v.exprs[f].start .. (v.exprs[f].start + v.argIter[j]) - 1
      BY <1>4, <3>1
    <3>6. r.exprs[f] = v.exprs[f]
      BY <1>10, <2>4, <3>5
    <3> QED BY <1>25, <3>3, <3>4, <3>5, <3>6
  <2>5. CASE f # e /\ f \in Nat /\ f < v.nextExpr /\ \A j \in 2 .. L + 1 : v.exprStack[j] # f
    <3>1. \A j \in 2 .. L : r.exprStack[j] # f
      <4>1. \A j \in 2 .. L : j \in 1 .. L /\ j \in 2 .. L + 1
        BY <1>3
      <4> QED BY <1>8, <2>5, <4>1
    <3>2. SlotsOf(r, f) = r.exprs[f].start .. r.exprs[f].end - 1
      BY <1>29, <2>5, <3>1
    <3>3. SlotsOf(v, f) = v.exprs[f].start .. v.exprs[f].end - 1
      BY <1>28, <2>5
    <3>4. r.exprs[f] = v.exprs[f]
      <4>1. f \in DOMAIN v.exprs
        <5>1. DOMAIN v.exprs = 0 .. k.expressionCount - 1 /\ v.nextExpr <= k.expressionCount
          BY <1>2 DEF ShapeOK
        <5>2. k.expressionCount \in Nat
          BY DEF Counters
        <5> QED BY <1>21, <2>5, <5>1, <5>2
      <4> QED BY <1>10, <2>5, <4>1
    <3> QED BY <3>2, <3>3, <3>4
  <2> QED BY <2>1, <2>2, <2>3, <2>4, <2>5
<1>27. Sliced(r, Ids(r), Used(k, n))
  <2>1. Sliced(v, Ids(v), Used(k, n))
    BY DEF FilledTo
  <2>2. Ids(r) = Ids(v)
    BY <1>7 DEF Ids
  <2> QED BY <1>26, <2>1, <2>2 DEF Sliced
<1> QED BY <1>2, <1>14, <1>17, <1>23, <1>24, <1>27 DEF FilledTo, cursor

\* Used slots are slots of the block.
LEMMA UsedIn ==
  ASSUME NEW k \in Counters, NEW n, Room(k, n)
  PROVE  Used(k, n) \subseteq Used(k, k.perLayer)
<1> SUFFICES ASSUME NEW x \in Used(k, n) PROVE x \in Used(k, k.perLayer)
  OBVIOUS
<1>1. PICK l \in DOMAIN k.perLayer : x \in Base(k, l) .. Base(k, l) + n[l] - 1
  BY DEF Used
<1>2. Base(k, l) \in Nat /\ k.perLayer[l] \in Nat
  BY BaseOK
<1>3. n[l] \in Nat /\ n[l] <= k.perLayer[l]
  BY DEF Room
<1>4. x \in Base(k, l) .. Base(k, l) + k.perLayer[l] - 1
  BY <1>1, <1>2, <1>3
<1> QED BY <1>4 DEF Used

\* The next argument goes to the cursor of the layer, which is in the block and
\* not used; the arguments in use stay.
LEMMA IndexInBlock ==
  ASSUME NEW k \in Counters, NEW v, NEW n, WriterOK(v), FilledTo(v, k, n), n[v.layer] < k.perLayer[v.layer],
         v.layer = 0 => StartChildOffset(v, Last(v.exprStack)) = 0
  PROVE  /\ NextArgumentIndex(v) \in DOMAIN v.types
         /\ \A r : ArgsElsewhere(v, r) => \A i \in Used(k, n) : r.args[i] = v.args[i]
<1> DEFINE L == v.layer
           i == Base(k, L) + n[L]
<1>1. /\ L \in Nat /\ Last(v.argIter) = v.argIter[L + 1] /\ Last(v.exprStack) = v.exprStack[L + 1]
      /\ \A j \in 1 .. L + 1 : v.argIter[j] \in Nat
  BY ArgIterOK
<1>2. Room(k, n) /\ L \in DOMAIN k.perLayer /\ DOMAIN v.types = Used(k, k.perLayer) /\ StackUp(v)
      /\ Cursor(v, L) = i
  BY DEF FilledTo, ShapeOK
<1>3. i \notin Used(k, n) /\ i \in Used(k, k.perLayer)
  BY <1>2, UsedGrows
<1>4. StartChildOffset(v, Last(v.exprStack)) = IF L = 0 THEN 0 ELSE v.exprs[v.exprStack[L + 1]].start
  <2>1. CASE L = 0
    BY <2>1
  <2>2. CASE L # 0
    <3>1. L + 1 \in 2 .. L + 1
      BY <1>1, <2>2
    <3>2. v.exprStack[L + 1] \in DOMAIN v.exprs
      BY <1>2, <3>1, SlotsCases
    <3> QED BY <1>1, <2>2, <3>2 DEF StartChildOffset
  <2> QED BY <2>1, <2>2
<1>5. NextArgumentIndex(v) = Cursor(v, L)
  <2>1. ~(L > L)
    BY <1>1
  <2> QED BY <1>1, <1>4, <2>1 DEF NextArgumentIndex, Cursor
<1>6. NextArgumentIndex(v) = i
  BY <1>2, <1>5
<1>7. Used(k, n) \subseteq DOMAIN v.args
  <2>1. DOMAIN v.args = DOMAIN v.types
    BY DEF WriterOK, StacksOK
  <2> QED BY <1>2, <2>1, UsedIn
<1> HIDE DEF L, i
<1> QED BY <1>2, <1>3, <1>6, <1>7 DEF ArgsElsewhere

(***************************************************************************)
(* The block that the constructor makes has a part for every layer.        *)
(***************************************************************************)
LEMMA PartsCover ==
  ASSUME NEW k \in Counters, NEW d \in Nat, d > 0, k.perLayer \in [0 .. d - 1 -> Nat]
  PROVE  Used(k, k.perLayer) = 0 .. PartialSum(k.perLayer)[d - 1] - 1
<1> DEFINE C == PartialSum(k.perLayer)
           f == k.perLayer
<1>1. /\ C \in [0 .. d - 1 -> Nat] /\ C[0] = f[0]
      /\ \A l \in 1 .. d - 1 : C[l] = C[l - 1] + f[l]
      /\ \A l, m \in 0 .. d - 1 : l <= m => C[l] <= C[m]
  BY PartialSums
<1>2. /\ Base(k, 0) = 0
      /\ \A l \in 1 .. d - 1 : Base(k, l) = C[l - 1]
  BY DEF Base
<1>3. \A l \in 0 .. d - 1 : f[l] \in Nat /\ C[l] \in Nat
  BY <1>1
<1>4. DOMAIN f = 0 .. d - 1 /\ d - 1 \in 0 .. d - 1 /\ 0 \in 0 .. d - 1
  OBVIOUS
<1>5. Used(k, f) = UNION {Base(k, l) .. Base(k, l) + f[l] - 1 : l \in DOMAIN f}
  BY DEF Used
<1> HIDE DEF C, f
<1>6. \A l \in 0 .. d - 1 : Base(k, l) \in Nat /\ Base(k, l) + f[l] = C[l]
  <2> TAKE l \in 0 .. d - 1
  <2>1. CASE l = 0
    BY <1>1, <1>2, <1>3, <2>1
  <2>2. CASE l # 0
    <3>1. l \in 1 .. d - 1 /\ l - 1 \in 0 .. d - 1
      BY <2>2
    <3>2. C[l - 1] \in Nat /\ f[l] \in Nat /\ Base(k, l) = C[l - 1] /\ C[l] = C[l - 1] + f[l]
      BY <1>1, <1>2, <1>3, <3>1
    <3> QED BY <3>2
  <2> QED BY <2>1, <2>2
<1>7. ASSUME NEW x \in Used(k, f) PROVE x \in 0 .. C[d - 1] - 1
  <2>1. PICK l \in 0 .. d - 1 : x \in Base(k, l) .. Base(k, l) + f[l] - 1
    BY <1>4, <1>5
  <2>2. C[l] <= C[d - 1] /\ C[l] \in Nat /\ C[d - 1] \in Nat
    <3>1. l <= d - 1
      OBVIOUS
    <3> QED BY <1>1, <1>3, <1>4, <3>1
  <2>3. Base(k, l) \in Nat /\ Base(k, l) + f[l] = C[l] /\ f[l] \in Nat
    BY <1>3, <1>6
  <2> QED BY <2>1, <2>2, <2>3
<1>8. ASSUME NEW x \in 0 .. C[d - 1] - 1 PROVE x \in Used(k, f)
  <2> DEFINE T == {l \in 0 .. d - 1 : x < C[l]}
  <2>1. x \in Nat /\ x < C[d - 1]
    BY <1>3, <1>4
  <2>2. T \in SUBSET Nat /\ T # {}
    BY <1>4, <2>1
  <2>3. PICK m \in T : \A y \in T : m <= y
    BY <2>2, LeastNat
  <2>4. m \in 0 .. d - 1 /\ x < C[m]
    BY <2>3
  <2>5. Base(k, m) <= x
    <3>1. CASE m = 0
      BY <1>2, <2>1, <3>1
    <3>2. CASE m # 0
      <4>1. m \in 1 .. d - 1 /\ m - 1 \in 0 .. d - 1 /\ ~(m <= m - 1)
        BY <2>4, <3>2
      <4>2. ~(x < C[m - 1])
        BY <2>3, <4>1
      <4>3. C[m - 1] \in Nat /\ Base(k, m) = C[m - 1]
        BY <1>2, <1>3, <4>1
      <4> QED BY <2>1, <4>2, <4>3
    <3> QED BY <3>1, <3>2
  <2>6. Base(k, m) \in Nat /\ f[m] \in Nat /\ Base(k, m) + f[m] = C[m]
    BY <1>3, <1>6, <2>4
  <2>7. x \in Base(k, m) .. Base(k, m) + f[m] - 1
    BY <2>1, <2>4, <2>5, <2>6
  <2> QED BY <1>4, <1>5, <2>4, <2>7
<1> QED BY <1>7, <1>8 DEF C, f

\* The constructor leaves no slot in use, and every cursor at its base.
LEMMA NewFilled ==
  ASSUME NEW k \in Counters, 0 \in DOMAIN k.perLayer, NEW found, found.expr.start = 0
  PROVE  /\ FilledTo(NewWriter(k, found), k, [l \in DOMAIN k.perLayer |-> 0])
         /\ NewWriter(k, found).nextExpr = 0 /\ NewWriter(k, found).strings = <<>>
         /\ StartChildOffset(NewWriter(k, found), Last(NewWriter(k, found).exprStack)) = 0
<1> DEFINE C == PartialSum(k.perLayer)
           size == C[Cardinality(DOMAIN C) - 1]
           r == NewWriter(k, found)
           D == DOMAIN k.perLayer
           n == [l \in D |-> 0]
<1>1. PICK d \in Nat : k.perLayer \in [0 .. d - 1 -> Nat]
  BY DEF Counters, Layers, Vector
<1>2. d > 0 /\ D = 0 .. d - 1
  BY <1>1
<1>3. C \in [0 .. d - 1 -> Nat] /\ Used(k, k.perLayer) = 0 .. C[d - 1] - 1
  BY <1>1, <1>2, PartialSums, PartsCover
<1>4. size = C[d - 1]
  <2>1. DOMAIN C = 0 .. d - 1
    BY <1>3
  <2>2. Cardinality(0 .. d - 1) = d
    <3>1. 0 \in Int /\ d - 1 \in Int
      OBVIOUS
    <3>2. Cardinality(0 .. d - 1) = IF 0 > d - 1 THEN 0 ELSE d - 1 - 0 + 1
      BY <3>1, FS_Interval
    <3> QED BY <1>2, <3>2
  <2> HIDE DEF C
  <2> QED BY <2>1, <2>2
<1>5. \A l \in D : l # 0 => C[l - 1] = Base(k, l)
  BY DEF Base
<1>6. /\ Base(k, 0) = 0 /\ \A l \in D : l \in Nat /\ Base(k, l) \in Nat /\ k.perLayer[l] \in Nat
  BY BaseOK
<1>7. k.expressionCount \in Nat
  BY DEF Counters
<1> HIDE DEF C, size
<1>8. r = [types |-> Filled(size, found.type), args |-> Filled(size, found.arg),
           exprs |-> Filled(k.expressionCount, found.expr),
           strings |-> <<>>, cumul |-> C, keyValue |-> {}, argIter |-> <<0>>,
           exprStack |-> <<0>>, nextExpr |-> 0, layer |-> 0, run |-> 0, wild |-> FALSE]
  BY DEF NewWriter, C, size
<1> HIDE DEF r
<1>9. /\ DOMAIN r.types = 0 .. size - 1 /\ DOMAIN r.exprs = 0 .. k.expressionCount - 1
      /\ \A e \in DOMAIN r.exprs : r.exprs[e].start = 0
      /\ r.strings = <<>> /\ r.cumul = C /\ r.argIter[1] = 0 /\ Last(r.exprStack) = 0
      /\ r.nextExpr = 0 /\ r.layer = 0
  BY <1>8 DEF Filled, Last
<1>10. ShapeOK(r, k)
  <2>1. DOMAIN C = D
    BY <1>2, <1>3
  <2>2. DOMAIN r.types = Used(k, k.perLayer)
    BY <1>3, <1>4, <1>9
  <2> QED BY <1>7, <1>9, <2>1, <2>2 DEF ShapeOK
<1>11. Room(k, n) /\ \A l \in D : n[l] = 0
  BY <1>6 DEF Room
<1>12. StackUp(r)
  BY <1>9 DEF StackUp
<1>13. \A l \in D : Cursor(r, l) = Base(k, l) + n[l]
  <2> TAKE l \in D
  <2>1. CASE l = 0
    BY <1>6, <1>9, <1>11, <2>1 DEF Cursor
  <2>2. CASE l # 0
    <3>1. l > r.layer
      BY <1>6, <1>9, <2>2
    <3>2. Cursor(r, l) = Base(k, l)
      BY <1>5, <1>9, <2>2, <3>1 DEF Cursor
    <3> QED BY <1>6, <1>11, <3>2
  <2> QED BY <2>1, <2>2
<1> HIDE DEF n
<1>14. Used(k, n) = {}
  <2>1. \A b \in Nat : b .. b + 0 - 1 = {}
    OBVIOUS
  <2>2. \A l \in D : Base(k, l) .. Base(k, l) + n[l] - 1 = {}
    BY <1>6, <1>11, <2>1
  <2> QED BY <2>2 DEF Used
<1>15. Sliced(r, Ids(r), {})
  <2>1. Ids(r) = {-1}
    BY <1>9 DEF Ids
  <2>2. SlotsOf(r, -1) = {}
    BY <1>9 DEF SlotsOf, StartOf, EndOf
  <2> QED BY <2>1, <2>2 DEF Sliced
<1>16. StartChildOffset(r, 0) = 0
  BY <1>9 DEF StartChildOffset
<1>17. FilledTo(r, k, n)
  BY <1>10, <1>11, <1>12, <1>13, <1>14, <1>15 DEF FilledTo
<1> QED BY <1>9, <1>16, <1>17 DEF r, n

(***************************************************************************)
(* The handlers' operations, on a block that is filled up to n.            *)
(***************************************************************************)
\* What is in the slots n stays; the Structure Vector keeps its size.
Keeps(v, r, k, n) ==
  /\ \A i \in Used(k, n) : r.args[i] = v.args[i]
  /\ DOMAIN r.exprs = DOMAIN v.exprs

\* A filled block has room for an argument on the writer's layer.
RoomFor(v, k, n) ==
  /\ n[v.layer] < k.perLayer[v.layer]
  /\ v.layer = 0 => StartChildOffset(v, Last(v.exprStack)) = 0

\* A value takes the next slot of its layer and leaves those in use.
LEMMA StoreFills ==
  ASSUME NEW k \in Counters, NEW v, NEW r, NEW n, WriterOK(v), WriterOK(r), FilledTo(v, k, n), ~v.wild,
         RoomFor(v, k, n), Stored(v, r)
  PROVE  FilledTo(r, k, OneMore(n, v.layer)) /\ ~r.wild /\ r.nextExpr = v.nextExpr /\ Keeps(v, r, k, n)
<1>1. FilledTo(r, k, OneMore(n, v.layer))
  BY FilledStored DEF RoomFor
<1>2. \A i \in Used(k, n) : r.args[i] = v.args[i]
  BY IndexInBlock DEF RoomFor, Stored
<1> QED BY <1>1, <1>2 DEF Stored, OneStored, Keeps

\* So does startExpression, of the layer that it leaves.
LEMMA StartFills ==
  ASSUME NEW k \in Counters, NEW v, NEW head \in String, NEW n, WriterOK(v), FilledTo(v, k, n), ~v.wild,
         RoomFor(v, k, n), v.layer + 1 \in DOMAIN k.perLayer, v.nextExpr \in DOMAIN v.exprs
  PROVE  LET r == startExpression(v, head) IN
         /\ FilledTo(r, k, OneMore(n, v.layer)) /\ ~r.wild /\ r.nextExpr = v.nextExpr + 1 /\ Keeps(v, r, k, n)
         /\ r.layer \in DOMAIN v.cumul
<1> DEFINE r == startExpression(v, head)
<1>1. v.layer \in DOMAIN v.cumul /\ DOMAIN v.cumul = DOMAIN k.perLayer
  BY DEF FilledTo, ShapeOK
<1>2. NextArgumentIndex(v) \in DOMAIN v.types
  BY IndexInBlock DEF RoomFor
<1>3. Opened(v, r) /\ WriterOK(r)
  BY <1>1, <1>2, StartOpens, StartOK
<1> HIDE DEF r
<1>4. FilledTo(r, k, OneMore(n, v.layer))
  BY <1>3, FilledOpened DEF RoomFor
<1>5. \A i \in Used(k, n) : r.args[i] = v.args[i]
  BY <1>3, IndexInBlock DEF RoomFor, Opened
<1>6. DOMAIN r.exprs = DOMAIN v.exprs
  BY <1>3 DEF Opened
<1> QED BY <1>1, <1>3, <1>4, <1>5, <1>6 DEF Opened, Keeps, r

\* endExpression takes no slot.
LEMMA EndFills ==
  ASSUME NEW k \in Counters, NEW v, NEW n, WriterOK(v), FilledTo(v, k, n), v.layer >= 1
  PROVE  LET r == endExpression(v) IN
         /\ FilledTo(r, k, n) /\ r.wild = v.wild /\ r.nextExpr = v.nextExpr /\ r.args = v.args
         /\ DOMAIN r.exprs = DOMAIN v.exprs
<1> DEFINE r == endExpression(v)
<1>1. Closed(v, r) /\ WriterOK(r)
  BY EndCloses, EndOK
<1> HIDE DEF r
<1>2. FilledTo(r, k, n)
  BY <1>1, FilledClosed
<1> QED BY <1>1, <1>2 DEF Closed, r

\* Nothing of this depends on the key bits.
LEMMA FilledSame ==
  ASSUME NEW k, NEW v, NEW r, NEW n, FilledTo(v, k, n),
         r.types = v.types, r.exprs = v.exprs, r.cumul = v.cumul, r.argIter = v.argIter,
         r.exprStack = v.exprStack, r.nextExpr = v.nextExpr, r.layer = v.layer
  PROVE  FilledTo(r, k, n)
<1>1. \A l : Cursor(r, l) = Cursor(v, l)
  BY DEF Cursor
<1>2. \A e : SlotsOf(r, e) = SlotsOf(v, e)
  BY DEF SlotsOf, StartOf, EndOf, OpenIn
<1>3. Ids(r) = Ids(v) /\ (ShapeOK(v, k) => ShapeOK(r, k)) /\ (StackUp(v) => StackUp(r))
  BY DEF Ids, ShapeOK, StackUp
<1>4. Sliced(v, Ids(v), Used(k, n)) => Sliced(r, Ids(r), Used(k, n))
  BY <1>2, <1>3 DEF Sliced
<1> QED BY <1>1, <1>3, <1>4 DEF FilledTo

\* Nor does handleKeyValueEnd, whether it closes a key or not.
LEMMA KeyEndFills ==
  ASSUME NEW k \in Counters, NEW v, NEW n, WriterOK(v), FilledTo(v, k, n), ~v.wild, 0 \notin v.keyValue
  PROVE  LET r == handleKeyValueEnd(v) IN
         /\ FilledTo(r, k, n) /\ ~r.wild /\ r.nextExpr = v.nextExpr /\ r.args = v.args
         /\ DOMAIN r.exprs = DOMAIN v.exprs
<1> DEFINE r == handleKeyValueEnd(v)
<1>1. v \in Writer /\ StacksOK(v) /\ v.layer \in Nat /\ v.wild \in BOOLEAN
  BY DEF WriterOK, Writer
<1>2. CASE v.layer \in v.keyValue
  <2> DEFINE u == [v EXCEPT !.keyValue = v.keyValue \ {v.layer}]
  <2>1. r = endExpression(u)
    BY <1>2 DEF handleKeyValueEnd
  <2>2. /\ u.types = v.types /\ u.args = v.args /\ u.argIter = v.argIter /\ u.exprStack = v.exprStack
        /\ u.exprs = v.exprs /\ u.run = v.run /\ u.layer = v.layer /\ u.wild = v.wild
        /\ u.cumul = v.cumul /\ u.nextExpr = v.nextExpr
    BY <1>1 DEF Writer
  <2>3. v.keyValue \ {v.layer} \in SUBSET Nat
    BY <1>1 DEF Writer
  <2>4. u \in Writer
    BY <1>1, <2>3 DEF Writer
  <2> HIDE DEF u, r
  <2>5. WriterOK(u)
    BY <1>1, <2>2, <2>4 DEF WriterOK, StacksOK
  <2>6. FilledTo(u, k, n)
    BY <2>2, FilledSame
  <2>7. u.layer >= 1
    BY <1>1, <1>2, <2>2
  <2>8. /\ FilledTo(r, k, n) /\ r.wild = u.wild /\ r.nextExpr = u.nextExpr /\ r.args = u.args
        /\ DOMAIN r.exprs = DOMAIN u.exprs
    BY <2>1, <2>5, <2>6, <2>7, EndFills
  <2> QED BY <2>2, <2>8 DEF r
<1>3. CASE v.layer \notin v.keyValue
  <2>1. v.layer \in DOMAIN v.cumul
    BY DEF FilledTo, ShapeOK
  <2>2. r = [v EXCEPT !.wild = FALSE]
    BY <1>1, <1>3, <2>1 DEF handleKeyValueEnd, Writer
  <2> HIDE DEF r
  <2>3. r = v
    BY <1>1, <2>2 DEF Writer
  <2> QED BY <2>3 DEF r
<1> QED BY <1>2, <1>3

\* Once a store has left the block, nothing follows.
LEMMA KeyEndWild ==
  ASSUME NEW v \in Writer, v.wild
  PROVE  handleKeyValueEnd(v).wild /\ handleKeyValueEnd(v).args = v.args /\ handleKeyValueEnd(v).exprs = v.exprs
BY DEF handleKeyValueEnd, Writer
=============================================================================
