----------------------------- MODULE BlockProofs ------------------------------
(***************************************************************************)
(* The writer fills the block that the first traversal counted: theorems   *)
(* about the stores of wisent::serializer::load, for every document, every *)
(* CSV file and all its options.                                           *)
(***************************************************************************)
EXTENDS CursorProofs

(***************************************************************************)
(* The slots in use at event i, in column col and row row of its CSV file: *)
(* what the first traversal had counted before it, and of the file the     *)
(* table, the columns begun and the cells written.                         *)
(***************************************************************************)
Begun(col, row) == IF row = 0 THEN col - 1 ELSE col
Cells(i, col, row) ==
  (col - 1) * RowCount(file[i].table) + (IF row = 0 THEN 0 ELSE row - 1)
Layered(l, L, tables, columns, cells) ==
  (IF l = L THEN tables ELSE 0) + (IF l = L + 1 THEN columns ELSE 0) + (IF l = L + 2 THEN cells ELSE 0)
Tabled(i, col, row, l) ==
  IF col = 0 THEN 0
  ELSE Layered(l, Nest(At(i).parser), 1, Begun(col, row), Cells(i, col, row))
UsedAt(i, col, row) ==
  [l \in DOMAIN c.perLayer |-> Count(At(i).c.perLayer, l) + Tabled(i, col, row, l)]
ExpressionsAt(i, col, row) ==
  At(i).c.expressionCount + (IF col = 0 THEN 0 ELSE 1 + Begun(col, row))

Built == stage \in {"write", "done"} \/ (stage = "failed" /\ csv.col > 0)

FillOK ==
  /\ ~Built => w = NoBlock
  /\ Built => /\ DOMAIN w.exprs = 0 .. c.expressionCount - 1
              /\ c.expressionCount > 0 => ~w.wild
              /\ ~w.wild => /\ FilledTo(w, c, UsedAt(pos, csv.col, csv.row))
                            /\ w.nextExpr = ExpressionsAt(pos, csv.col, csv.row)
  /\ stage = "write" /\ csv.col > 0 =>
       /\ csv.col <= Len(file[pos].table) + 1
       /\ csv.row > 0 => csv.col <= Len(file[pos].table) /\ csv.row <= RowCount(file[pos].table) + 1
  /\ stage = "write" /\ pos = 1 /\ csv.col = 0 => w = NewWriter(c, leftover) /\ CleanRoot
  /\ stage = "done" => ~w.wild /\ pos = Len(file) + 1 /\ csv.col = 0

(***************************************************************************)
(* The counts of the first traversal, event by event.                      *)
(***************************************************************************)
\* A document that is complete: where its counts end, and what bounds them.
LEMMA Counted ==
  ASSUME HistoryOK, Complete
  PROVE  /\ c \in Counters /\ At(Len(file) + 1) = [parser |-> parser, c |-> c] /\ parser = Blank
         /\ Len(file) \in Nat /\ Len(file) > 0
         /\ \A i \in 1 .. Len(file) + 1 :
              /\ At(i).c \in Counters /\ Nest(At(i).parser) \in Nat /\ Below(At(i).c, c)
              /\ \A l \in Nat : Count(At(i).c.perLayer, l) \in Nat
         /\ \A l \in DOMAIN c.perLayer : l \in Nat /\ c.perLayer[l] \in Nat /\ Count(c.perLayer, l) = c.perLayer[l]
<1>1. file \in Seq(Token) /\ file # <<>> /\ parser = Blank
  BY DEF HistoryOK, Complete, Blank
<1>2. Len(file) \in Nat /\ Len(file) > 0
  BY <1>1, EmptySeq
<1>3. Len(file) + 1 \in 1 .. Len(file) + 1 /\ ~(Len(file) + 1 <= Len(file))
  BY <1>2
<1>4. At(Len(file) + 1) = [parser |-> parser, c |-> c]
  BY <1>3 DEF At
<1>5. \A i \in 1 .. Len(file) + 1 :
        /\ At(i).c \in Counters /\ Nest(At(i).parser) \in Nat /\ Below(At(i).c, c)
        /\ \A l \in Nat : Count(At(i).c.perLayer, l) \in Nat
  <2> TAKE i \in 1 .. Len(file) + 1
  <2>1. ParserOK(At(i).parser) /\ At(i).c \in Counters /\ Below(At(i).c, c)
    BY DEF HistoryOK, CountersOK
  <2>2. At(i).c.perLayer \in Layers
    BY <2>1 DEF Counters
  <2> QED BY <2>1, <2>2, NestOK, ResizeOK
<1>6. c \in Counters
  <2>1. At(Len(file) + 1).c \in Counters
    BY <1>3, <1>5
  <2>2. At(Len(file) + 1).c = c
    BY <1>4
  <2> QED BY <2>1, <2>2
<1>7. \A l \in DOMAIN c.perLayer : l \in Nat /\ c.perLayer[l] \in Nat /\ Count(c.perLayer, l) = c.perLayer[l]
  BY <1>6, BaseOK DEF Count
<1> QED BY <1>1, <1>2, <1>4, <1>5, <1>6, <1>7

\* An event adds to the counts of its layer; those of the whole document are
\* no less, and have the layers that it writes on.
LEMMA EventCounts ==
  ASSUME HistoryOK, Complete, NEW i \in 1 .. Len(file)
  PROVE  LET t == file[i]
             L == Nest(At(i).parser)
         IN /\ t \in Token /\ L \in Nat /\ L \in DOMAIN c.perLayer
            /\ IsCsv(t) => L + 1 \in DOMAIN c.perLayer /\ L + 2 \in DOMAIN c.perLayer
            /\ t.event \in {"key", "object", "array"} => L + 1 \in DOMAIN c.perLayer
            /\ \A l \in DOMAIN c.perLayer :
                 /\ Count(At(i + 1).c.perLayer, l) = Count(At(i).c.perLayer, l) + Adds(t, IsCsv(t), L, l)
                 /\ Count(At(i + 1).c.perLayer, l) <= c.perLayer[l]
            /\ At(i + 1).c.expressionCount = At(i).c.expressionCount + AddsExpressions(t, IsCsv(t))
            /\ At(i + 1).c.expressionCount <= c.expressionCount
            /\ At(i).c.expressionCount \in Nat /\ c.expressionCount \in Nat
<1> DEFINE t == file[i]
           L == Nest(At(i).parser)
<1>1. /\ c \in Counters /\ Len(file) \in Nat /\ parser = Blank /\ At(Len(file) + 1).parser = Blank
      /\ \A j \in 1 .. Len(file) + 1 :
           At(j).c \in Counters /\ Nest(At(j).parser) \in Nat /\ Below(At(j).c, c)
      /\ \A l \in DOMAIN c.perLayer : l \in Nat /\ c.perLayer[l] \in Nat /\ Count(c.perLayer, l) = c.perLayer[l]
  BY Counted
<1>2. i \in 1 .. Len(file) + 1 /\ i + 1 \in 1 .. Len(file) + 1
  BY <1>1
<1>3. t \in Token /\ ParserOK(At(i).parser) /\ Legal(At(i).parser, t) /\ At(i + 1).parser = After(At(i).parser, t)
      /\ Grew(At(i).c, At(i + 1).c, t, IsCsv(t), L)
  BY <1>2 DEF HistoryOK
<1>4. L \in Nat /\ Below(At(i + 1).c, c) /\ At(i).c \in Counters
  BY <1>1, <1>2
<1>5. L \in DOMAIN c.perLayer
  <2>1. L \in 0 .. L
    BY <1>4
  <2> QED BY <1>3, <1>4, <2>1 DEF Grew, Below
<1>6. IsCsv(t) => L + 1 \in DOMAIN c.perLayer /\ L + 2 \in DOMAIN c.perLayer
  <2>1. L + 1 \in 0 .. L + 2 /\ L + 2 \in 0 .. L + 2
    BY <1>4
  <2> QED BY <1>3, <1>4, <2>1 DEF Grew, Below
<1>7. ASSUME t.event \in {"key", "object", "array"} PROVE L + 1 \in DOMAIN c.perLayer
  <2>1. Nest(At(i + 1).parser) = L + 1
    BY <1>3, <1>7, ParserStep
  <2>2. At(i + 1).parser # Blank
    <3>1. Nest(Blank) = 0
      BY DEF Nest, Blank
    <3> QED BY <1>4, <2>1, <3>1
  <2>3. i + 1 \in 1 .. Len(file)
    BY <1>1, <1>2, <2>2
  <2>4. i + 2 \in 1 .. Len(file) + 1 /\ i + 1 + 1 = i + 2
    BY <1>1, <2>3
  <2>5. Grew(At(i + 1).c, At(i + 2).c, file[i + 1], IsCsv(file[i + 1]), L + 1)
    BY <2>1, <2>3, <2>4 DEF HistoryOK
  <2>6. Below(At(i + 2).c, c)
    BY <1>1, <2>4
  <2>7. L + 1 \in 0 .. L + 1
    BY <1>4
  <2> QED BY <2>5, <2>6, <2>7 DEF Grew, Below
<1>8. ASSUME NEW l \in DOMAIN c.perLayer
      PROVE  /\ Count(At(i + 1).c.perLayer, l) = Count(At(i).c.perLayer, l) + Adds(t, IsCsv(t), L, l)
             /\ Count(At(i + 1).c.perLayer, l) <= c.perLayer[l]
  <2>1. l \in Nat /\ Count(c.perLayer, l) = c.perLayer[l]
    BY <1>1
  <2>2. Count(At(i + 1).c.perLayer, l) = Count(At(i).c.perLayer, l) + Adds(t, IsCsv(t), L, l)
    BY <1>3, <2>1 DEF Grew
  <2>3. Count(At(i + 1).c.perLayer, l) <= Count(c.perLayer, l)
    BY <1>4, <2>1 DEF Below
  <2> QED BY <2>1, <2>2, <2>3
<1>9. /\ At(i + 1).c.expressionCount = At(i).c.expressionCount + AddsExpressions(t, IsCsv(t))
      /\ At(i + 1).c.expressionCount <= c.expressionCount
  BY <1>3, <1>4 DEF Grew, Below
<1>10. At(i).c.expressionCount \in Nat /\ c.expressionCount \in Nat
  BY <1>1, <1>4 DEF Counters
<1> QED BY <1>3, <1>4, <1>5, <1>6, <1>7, <1>8, <1>9, <1>10

(***************************************************************************)
(* The slots in use, from one store to the next.                           *)
(***************************************************************************)
LEMMA UsedNext ==
  ASSUME NEW i, NEW col, NEW row, NEW j, NEW k, NEW m, NEW L \in DOMAIN c.perLayer,
         \A l \in DOMAIN c.perLayer :
           Count(At(j).c.perLayer, l) + Tabled(j, k, m, l)
           = IF l = L THEN Count(At(i).c.perLayer, l) + Tabled(i, col, row, l) + 1
             ELSE Count(At(i).c.perLayer, l) + Tabled(i, col, row, l)
  PROVE  UsedAt(j, k, m) = OneMore(UsedAt(i, col, row), L)
BY DEF UsedAt, OneMore

\* No slot more.
LEMMA UsedSame ==
  ASSUME NEW i, NEW col, NEW row, NEW j, NEW k, NEW m,
         \A l \in DOMAIN c.perLayer :
           Count(At(j).c.perLayer, l) + Tabled(j, k, m, l) = Count(At(i).c.perLayer, l) + Tabled(i, col, row, l)
  PROVE  UsedAt(j, k, m) = UsedAt(i, col, row)
BY DEF UsedAt

\* An event outside CSV files.
LEMMA EventSlots ==
  ASSUME HistoryOK, Complete, NEW i \in 1 .. Len(file), ~IsCsv(file[i])
  PROVE  LET t == file[i]
             L == Nest(At(i).parser)
             n == UsedAt(i, 0, 0)
             new == t.event \in {"key", "object", "array"}
         IN /\ t.event # "end" => UsedAt(i + 1, 0, 0) = OneMore(n, L) /\ n[L] < c.perLayer[L]
            /\ t.event = "end" => UsedAt(i + 1, 0, 0) = n
            /\ ExpressionsAt(i + 1, 0, 0) = ExpressionsAt(i, 0, 0) + (IF new THEN 1 ELSE 0)
            /\ new => ExpressionsAt(i, 0, 0) < c.expressionCount
            /\ ExpressionsAt(i, 0, 0) \in Nat
<1> DEFINE t == file[i]
           L == Nest(At(i).parser)
           D == DOMAIN c.perLayer
           a(l) == Count(At(i).c.perLayer, l)
           b(l) == Count(At(i + 1).c.perLayer, l)
           new == t.event \in {"key", "object", "array"}
<1>1. /\ t \in Token /\ L \in Nat /\ L \in D
      /\ \A l \in D : b(l) = a(l) + Adds(t, IsCsv(t), L, l) /\ b(l) <= c.perLayer[l]
      /\ At(i + 1).c.expressionCount = At(i).c.expressionCount + AddsExpressions(t, IsCsv(t))
      /\ At(i + 1).c.expressionCount <= c.expressionCount
      /\ At(i).c.expressionCount \in Nat /\ c.expressionCount \in Nat
  BY EventCounts
<1>2. /\ Len(file) \in Nat
      /\ \A j \in 1 .. Len(file) + 1 : \A l \in Nat : Count(At(j).c.perLayer, l) \in Nat
      /\ \A l \in D : l \in Nat /\ c.perLayer[l] \in Nat
  BY Counted
<1>3. i \in 1 .. Len(file) + 1 /\ i + 1 \in 1 .. Len(file) + 1
  BY <1>2
<1>4. \A l \in D : a(l) \in Nat /\ b(l) \in Nat
  BY <1>2, <1>3
<1>5. \A l \in D : b(l) = a(l) + (IF l = L /\ t.event # "end" THEN 1 ELSE 0)
  BY <1>1, <1>2, AddsOf
<1>6. \A j, l : Tabled(j, 0, 0, l) = 0
  BY DEF Tabled
<1>7. ASSUME t.event # "end" PROVE UsedAt(i + 1, 0, 0) = OneMore(UsedAt(i, 0, 0), L) /\ UsedAt(i, 0, 0)[L] < c.perLayer[L]
  <2>1. \A l \in D : b(l) + Tabled(i + 1, 0, 0, l) = IF l = L THEN a(l) + Tabled(i, 0, 0, l) + 1
                                                             ELSE a(l) + Tabled(i, 0, 0, l)
    BY <1>4, <1>5, <1>6, <1>7
  <2>2. UsedAt(i, 0, 0)[L] = a(L)
    BY <1>1, <1>4, <1>6 DEF UsedAt
  <2>3. a(L) < c.perLayer[L]
    BY <1>1, <1>2, <1>4, <1>5, <1>7
  <2> QED BY <1>1, <2>1, <2>2, <2>3, UsedNext
<1>8. ASSUME t.event = "end" PROVE UsedAt(i + 1, 0, 0) = UsedAt(i, 0, 0)
  <2>1. \A l \in D : b(l) + Tabled(i + 1, 0, 0, l) = a(l) + Tabled(i, 0, 0, l)
    BY <1>4, <1>5, <1>6, <1>8
  <2> QED BY <2>1, UsedSame
<1>9. AddsExpressions(t, IsCsv(t)) = IF new THEN 1 ELSE 0
  BY DEF AddsExpressions
<1>10. /\ ExpressionsAt(i + 1, 0, 0) = ExpressionsAt(i, 0, 0) + (IF new THEN 1 ELSE 0)
       /\ new => ExpressionsAt(i, 0, 0) < c.expressionCount
       /\ ExpressionsAt(i, 0, 0) \in Nat
  <2>1. ExpressionsAt(i, 0, 0) = At(i).c.expressionCount
    BY <1>1 DEF ExpressionsAt
  <2>2. ExpressionsAt(i + 1, 0, 0) = At(i + 1).c.expressionCount
    BY <1>1, <1>9 DEF ExpressionsAt
  <2> QED BY <1>1, <1>9, <2>1, <2>2
<1> QED BY <1>7, <1>8, <1>10

\* The cells of the columns before col, and of a table.
LEMMA CellsFit ==
  ASSUME NEW N \in Nat, NEW R \in Nat, NEW col \in 1 .. N
  PROVE  /\ (col - 1) * R \in Nat /\ N * R \in Nat
         /\ ((col + 1) - 1) * R = (col - 1) * R + R
         /\ (col - 1) * R + R <= N * R
<1>1. \A x, y \in Nat : x * y \in Nat
  OBVIOUS
<1>2. PICK x \in Nat : x = col - 1
  OBVIOUS
<1>3. PICK y \in Nat : y = N - col
  OBVIOUS
<1>4. (col + 1) - 1 = x + 1 /\ N = x + 1 + y
  BY <1>2, <1>3
<1>5. (x + 1) * R = x * R + R /\ (x + 1 + y) * R = x * R + R + y * R
  OBVIOUS
<1>6. x * R \in Nat /\ y * R \in Nat
  BY <1>1
<1>7. x * R + R <= x * R + R + y * R
  BY <1>6
<1> QED BY <1>1, <1>2, <1>4, <1>5, <1>6, <1>7

\* A CSV file counts on three layers.
LEMMA LayeredAt ==
  ASSUME NEW L \in Nat, NEW q \in Nat, NEW r \in Nat
  PROVE  Layered(L, L, 1, q, r) = 1 /\ Layered(L + 1, L, 1, q, r) = q /\ Layered(L + 2, L, 1, q, r) = r
BY DEF Layered

\* The stages of a CSV file: its table, its columns, their cells.
LEMMA TableSlots ==
  ASSUME HistoryOK, Complete, NEW i \in 1 .. Len(file), IsCsv(file[i])
  PROVE  LET L == Nest(At(i).parser)
             N == Len(file[i].table)
             R == RowCount(file[i].table)
             d == c.perLayer
         IN /\ N \in Nat /\ R \in Nat /\ L \in Nat /\ {L, L + 1, L + 2} \subseteq DOMAIN d
            /\ UsedAt(i, 1, 0) = OneMore(UsedAt(i, 0, 0), L) /\ UsedAt(i, 0, 0)[L] < d[L]
            /\ \A col \in 1 .. N :
                 /\ UsedAt(i, col, 1) = OneMore(UsedAt(i, col, 0), L + 1) /\ UsedAt(i, col, 0)[L + 1] < d[L + 1]
                 /\ UsedAt(i, col + 1, 0) = UsedAt(i, col, R + 1)
            /\ \A col \in 1 .. N : \A row \in 1 .. R :
                 /\ UsedAt(i, col, row + 1) = OneMore(UsedAt(i, col, row), L + 2)
                 /\ UsedAt(i, col, row)[L + 2] < d[L + 2]
            /\ UsedAt(i + 1, 0, 0) = UsedAt(i, N + 1, 0)
<1> DEFINE t == file[i]
           L == Nest(At(i).parser)
           N == Len(t.table)
           R == RowCount(t.table)
           D == DOMAIN c.perLayer
           y == N * R
           a(l) == Count(At(i).c.perLayer, l)
           b(l) == Count(At(i + 1).c.perLayer, l)
<1>1. /\ t \in Token /\ L \in Nat /\ L \in D /\ L + 1 \in D /\ L + 2 \in D
      /\ \A l \in D : b(l) = a(l) + Adds(t, IsCsv(t), L, l) /\ b(l) <= c.perLayer[l]
  BY EventCounts
<1>2. /\ Len(file) \in Nat
      /\ \A j \in 1 .. Len(file) + 1 : \A l \in Nat : Count(At(j).c.perLayer, l) \in Nat
      /\ \A l \in D : l \in Nat /\ c.perLayer[l] \in Nat
  BY Counted
<1>3. i \in 1 .. Len(file) + 1 /\ i + 1 \in 1 .. Len(file) + 1
  BY <1>2
<1>4. \A l \in D : l \in Nat /\ a(l) \in Nat /\ b(l) \in Nat /\ c.perLayer[l] \in Nat
  BY <1>2, <1>3
<1>5. N \in Nat /\ R \in Nat /\ y \in Nat /\ t.event # "end"
  BY <1>1, TableOK DEF IsCsv
<1>6. \A l \in D : b(l) = a(l) + Layered(l, L, 1, N, y)
  <2> TAKE l \in D
  <2>1. Adds(t, IsCsv(t), L, l) = Layered(l, L, 1, N, y)
    BY <1>5 DEF Adds, Layered
  <2> QED BY <1>1, <2>1
<1>7. /\ \A j, l : Tabled(j, 0, 0, l) = 0
      /\ \A col, row \in Nat : \A l : col # 0 =>
           Tabled(i, col, row, l) = Layered(l, L, 1, Begun(col, row), Cells(i, col, row))
  BY DEF Tabled
<1>8. \A col, row \in Nat : Cells(i, col, row) = (col - 1) * R + (IF row = 0 THEN 0 ELSE row - 1)
  BY DEF Cells
<1>9. \A j, col, row : \A l \in D : UsedAt(j, col, row)[l] = Count(At(j).c.perLayer, l) + Tabled(j, col, row, l)
  BY DEF UsedAt
<1>10. \A col \in 1 .. N : /\ (col - 1) * R \in Nat
                           /\ ((col + 1) - 1) * R = (col - 1) * R + R
                           /\ (col - 1) * R + R <= y
  BY <1>5, CellsFit
<1>11. N * R = y
  OBVIOUS
<1>20. L \in Nat /\ L \in D /\ L + 1 \in D /\ L + 2 \in D
  BY <1>1
<1>21. \A l \in D : b(l) <= c.perLayer[l]
  BY <1>1
<1> HIDE DEF t, L, N, R, D, a, b, y
<1>12. UsedAt(i, 1, 0) = OneMore(UsedAt(i, 0, 0), L) /\ UsedAt(i, 0, 0)[L] < c.perLayer[L]
  <2>1. Begun(1, 0) = 0 /\ Cells(i, 1, 0) = 0
    <3>1. (1 - 1) * R = 0
      BY <1>5
    <3>2. Cells(i, 1, 0) = (1 - 1) * R + 0
      BY <1>8
    <3> QED BY <3>1, <3>2 DEF Begun
  <2>2. \A l \in D : Tabled(i, 1, 0, l) = Layered(l, L, 1, 0, 0)
    <3>1. 1 \in Nat /\ 0 \in Nat /\ 1 # 0
      OBVIOUS
    <3> QED BY <1>7, <2>1, <3>1
  <2>3. \A l \in D : a(l) + Tabled(i, 1, 0, l) = IF l = L THEN a(l) + Tabled(i, 0, 0, l) + 1
                                                        ELSE a(l) + Tabled(i, 0, 0, l)
    <3> TAKE l \in D
    <3> DEFINE A == a(l)
    <3>0. A \in Nat /\ l \in Nat /\ 0 \in Nat
      BY <1>4
    <3> HIDE DEF A
    <3>1. A + Layered(l, L, 1, 0, 0) = IF l = L THEN A + 1 ELSE A
      BY <1>20, <3>0 DEF Layered
    <3>2. a(l) + Tabled(i, 0, 0, l) = a(l)
      BY <1>4, <1>7
    <3> QED BY <2>2, <3>1, <3>2 DEF A
  <2>4. UsedAt(i, 0, 0)[L] = a(L) + 0
    BY <1>1, <1>7, <1>9 DEF a
  <2>5. b(L) = a(L) + 1
    <3>1. Layered(L, L, 1, N, y) = 1
      BY <1>5, <1>20, LayeredAt
    <3> QED BY <1>6, <1>20, <3>1
  <2>6. a(L) \in Nat /\ b(L) <= c.perLayer[L] /\ c.perLayer[L] \in Nat
    BY <1>4, <1>20, <1>21
  <2>7. UsedAt(i, 1, 0) = OneMore(UsedAt(i, 0, 0), L)
    BY <1>20, <2>3, UsedNext DEF a, D
  <2> QED BY <2>4, <2>5, <2>6, <2>7
<1>13. ASSUME NEW col \in 1 .. N
       PROVE  /\ UsedAt(i, col, 1) = OneMore(UsedAt(i, col, 0), L + 1)
              /\ UsedAt(i, col, 0)[L + 1] < c.perLayer[L + 1]
              /\ UsedAt(i, col + 1, 0) = UsedAt(i, col, R + 1)
  <2> DEFINE x == (col - 1) * R
  <2>0. col \in Nat /\ col # 0 /\ col + 1 \in Nat /\ col + 1 # 0 /\ col <= N /\ R + 1 # 0 /\ R + 1 \in Nat
    BY <1>5
  <2>1. /\ Begun(col, 0) = col - 1 /\ Begun(col, 1) = col /\ Begun(col + 1, 0) = col /\ Begun(col, R + 1) = col
    BY <2>0 DEF Begun
  <2>2. x \in Nat /\ ((col + 1) - 1) * R = x + R
    BY <1>10
  <2>3. Cells(i, col, 0) = x + 0 /\ Cells(i, col, 1) = x + (1 - 1)
    BY <1>8, <2>0
  <2>4. Cells(i, col + 1, 0) = (x + R) + 0 /\ Cells(i, col, R + 1) = x + ((R + 1) - 1)
    BY <1>8, <2>0, <2>2
  <2> HIDE DEF x
  <2>5. /\ Cells(i, col, 0) = x /\ Cells(i, col, 1) = x /\ Cells(i, col + 1, 0) = x + R
        /\ Cells(i, col, R + 1) = x + R
    BY <1>5, <2>2, <2>3, <2>4
  <2>6. col - 1 \in Nat /\ (col - 1) + 1 = col /\ x + R \in Nat
    BY <1>5, <2>2
  <2>7. \A l \in D : /\ Tabled(i, col, 0, l) = Layered(l, L, 1, col - 1, x)
                     /\ Tabled(i, col, 1, l) = Layered(l, L, 1, (col - 1) + 1, x)
                     /\ Tabled(i, col + 1, 0, l) = Layered(l, L, 1, col, x + R)
                     /\ Tabled(i, col, R + 1, l) = Layered(l, L, 1, col, x + R)
    <3>1. 0 \in Nat /\ 1 \in Nat
      OBVIOUS
    <3> QED BY <1>7, <2>0, <2>1, <2>5, <2>6, <3>1
  <2>8. \A l \in D : a(l) + Tabled(i, col, 1, l) = IF l = L + 1 THEN a(l) + Tabled(i, col, 0, l) + 1
                                                          ELSE a(l) + Tabled(i, col, 0, l)
    <3> TAKE l \in D
    <3> DEFINE A == a(l)
               q == col - 1
    <3>0. A \in Nat /\ l \in Nat /\ q \in Nat /\ x \in Nat
      BY <1>4, <2>2, <2>6
    <3> HIDE DEF A, q
    <3>1. A + Layered(l, L, 1, q + 1, x) = IF l = L + 1 THEN A + Layered(l, L, 1, q, x) + 1
                                                        ELSE A + Layered(l, L, 1, q, x)
      BY <1>20, <3>0 DEF Layered
    <3> QED BY <2>7, <3>1 DEF A, q
  <2>9. \A l \in D : a(l) + Tabled(i, col + 1, 0, l) = a(l) + Tabled(i, col, R + 1, l)
    BY <2>7
  <2>10. UsedAt(i, col, 0)[L + 1] < c.perLayer[L + 1]
    <3>1. UsedAt(i, col, 0)[L + 1] = a(L + 1) + (col - 1)
      <4>1. Layered(L + 1, L, 1, col - 1, x) = col - 1
        BY <1>20, <2>2, <2>6, LayeredAt
      <4> QED BY <1>9, <1>20, <2>7, <4>1 DEF a
    <3>2. b(L + 1) = a(L + 1) + N
      <4>1. Layered(L + 1, L, 1, N, y) = N
        BY <1>5, <1>20, LayeredAt
      <4> QED BY <1>6, <1>20, <4>1
    <3>3. a(L + 1) \in Nat /\ b(L + 1) <= c.perLayer[L + 1] /\ c.perLayer[L + 1] \in Nat
      BY <1>4, <1>20, <1>21
    <3>4. N \in Nat
      BY <1>5
    <3> QED BY <2>0, <3>1, <3>2, <3>3, <3>4
  <2>11. UsedAt(i, col, 1) = OneMore(UsedAt(i, col, 0), L + 1)
    BY <1>20, <2>8, UsedNext DEF a, D
  <2>12. UsedAt(i, col + 1, 0) = UsedAt(i, col, R + 1)
    BY <2>9, UsedSame DEF a, D
  <2> QED BY <2>10, <2>11, <2>12
<1>14. ASSUME NEW col \in 1 .. N, NEW row \in 1 .. R
       PROVE  /\ UsedAt(i, col, row + 1) = OneMore(UsedAt(i, col, row), L + 2)
              /\ UsedAt(i, col, row)[L + 2] < c.perLayer[L + 2]
  <2> DEFINE x == (col - 1) * R
  <2>0. /\ col \in Nat /\ col # 0 /\ row \in Nat /\ row # 0 /\ row <= R /\ row + 1 \in Nat /\ row + 1 # 0
        /\ row - 1 \in Nat
    BY <1>5
  <2>1. Begun(col, row) = col /\ Begun(col, row + 1) = col
    BY <2>0 DEF Begun
  <2>2. x \in Nat /\ x + R <= y
    BY <1>10
  <2>3. Cells(i, col, row) = x + (row - 1) /\ Cells(i, col, row + 1) = x + ((row + 1) - 1)
    BY <1>8, <2>0
  <2> HIDE DEF x
  <2> DEFINE z == x + (row - 1)
  <2>5. z \in Nat /\ Cells(i, col, row) = z /\ Cells(i, col, row + 1) = z + 1
    BY <2>0, <2>2, <2>3
  <2>6. z < y
    BY <1>5, <2>0, <2>2
  <2> HIDE DEF z
  <2>7. \A l \in D : /\ Tabled(i, col, row, l) = Layered(l, L, 1, col, z)
                     /\ Tabled(i, col, row + 1, l) = Layered(l, L, 1, col, z + 1)
    BY <1>7, <2>0, <2>1, <2>5
  <2>8. \A l \in D : a(l) + Tabled(i, col, row + 1, l) = IF l = L + 2 THEN a(l) + Tabled(i, col, row, l) + 1
                                                               ELSE a(l) + Tabled(i, col, row, l)
    <3> TAKE l \in D
    <3> DEFINE A == a(l)
    <3>0. A \in Nat /\ l \in Nat /\ col \in Nat /\ z \in Nat
      BY <1>4, <2>0, <2>5
    <3> HIDE DEF A
    <3>1. A + Layered(l, L, 1, col, z + 1) = IF l = L + 2 THEN A + Layered(l, L, 1, col, z) + 1
                                                          ELSE A + Layered(l, L, 1, col, z)
      BY <1>20, <3>0 DEF Layered
    <3> QED BY <2>7, <3>1 DEF A
  <2>9. UsedAt(i, col, row)[L + 2] < c.perLayer[L + 2]
    <3>1. UsedAt(i, col, row)[L + 2] = a(L + 2) + z
      <4>1. Layered(L + 2, L, 1, col, z) = z
        BY <1>20, <2>0, <2>5, LayeredAt
      <4> QED BY <1>9, <1>20, <2>7, <4>1 DEF a
    <3>2. b(L + 2) = a(L + 2) + y
      <4>1. Layered(L + 2, L, 1, N, y) = y
        BY <1>5, <1>20, LayeredAt
      <4> QED BY <1>6, <1>20, <4>1
    <3>3. a(L + 2) \in Nat /\ b(L + 2) <= c.perLayer[L + 2] /\ c.perLayer[L + 2] \in Nat
      BY <1>4, <1>20, <1>21
    <3>4. y \in Nat
      BY <1>5
    <3> QED BY <2>5, <2>6, <3>1, <3>2, <3>3, <3>4
  <2>10. UsedAt(i, col, row + 1) = OneMore(UsedAt(i, col, row), L + 2)
    BY <1>20, <2>8, UsedNext DEF a, D
  <2> QED BY <2>9, <2>10
<1>15. UsedAt(i + 1, 0, 0) = UsedAt(i, N + 1, 0)
  <2>0. N + 1 \in Nat /\ N + 1 # 0 /\ (N + 1) - 1 = N /\ 0 \in Nat
    BY <1>5
  <2>1. Begun(N + 1, 0) = N
    BY <2>0 DEF Begun
  <2>2. Cells(i, N + 1, 0) = y + 0
    BY <1>8, <1>11, <2>0
  <2>3. Cells(i, N + 1, 0) = y
    BY <1>5, <2>2
  <2>4. \A l \in D : Tabled(i, N + 1, 0, l) = Layered(l, L, 1, N, y)
    BY <1>7, <2>0, <2>1, <2>3
  <2>5. \A l \in D : b(l) + Tabled(i + 1, 0, 0, l) = a(l) + Tabled(i, N + 1, 0, l)
    <3> TAKE l \in D
    <3>1. b(l) + Tabled(i + 1, 0, 0, l) = b(l)
      BY <1>4, <1>7
    <3> QED BY <1>6, <2>4, <3>1
  <2> QED BY <2>5, UsedSame DEF a, b, D
<1> QED BY <1>5, <1>20, <1>12, <1>13, <1>14, <1>15 DEF t, L, N, R, D

\* Its expressions: the table, and its columns.
LEMMA TableExpressions ==
  ASSUME HistoryOK, Complete, NEW i \in 1 .. Len(file), IsCsv(file[i])
  PROVE  LET N == Len(file[i].table)
             R == RowCount(file[i].table)
             k == c.expressionCount
         IN /\ ExpressionsAt(i, 1, 0) = ExpressionsAt(i, 0, 0) + 1 /\ ExpressionsAt(i, 0, 0) < k
            /\ \A col \in 1 .. N :
                 /\ ExpressionsAt(i, col, 1) = ExpressionsAt(i, col, 0) + 1 /\ ExpressionsAt(i, col, 0) < k
                 /\ ExpressionsAt(i, col + 1, 0) = ExpressionsAt(i, col, R + 1)
            /\ \A col \in 1 .. N : \A row \in 1 .. R :
                 ExpressionsAt(i, col, row + 1) = ExpressionsAt(i, col, row)
            /\ ExpressionsAt(i + 1, 0, 0) = ExpressionsAt(i, N + 1, 0)
            /\ ExpressionsAt(i, 0, 0) \in Nat /\ k > 0
            /\ \A col \in 1 .. N : ExpressionsAt(i, col, 0) \in Nat
<1> DEFINE t == file[i]
           N == Len(t.table)
           R == RowCount(t.table)
           k == c.expressionCount
           e == At(i).c.expressionCount
           f == At(i + 1).c.expressionCount
<1>1. t \in Token /\ f = e + AddsExpressions(t, IsCsv(t)) /\ f <= k /\ e \in Nat /\ k \in Nat
  BY EventCounts
<1>2. N \in Nat /\ R \in Nat /\ AddsExpressions(t, IsCsv(t)) = 1 + N
  BY <1>1, TableOK DEF AddsExpressions, IsCsv
<1>3. /\ ExpressionsAt(i, 0, 0) = e + 0 /\ ExpressionsAt(i + 1, 0, 0) = f + 0
      /\ \A col, row : col # 0 => ExpressionsAt(i, col, row) = e + (1 + Begun(col, row))
  BY DEF ExpressionsAt
<1>4. \A col, row : Begun(col, row) = IF row = 0 THEN col - 1 ELSE col
  BY DEF Begun
<1> HIDE DEF t, N, R, k, e, f
<1>5. f = e + (1 + N)
  BY <1>1, <1>2
<1>6. ExpressionsAt(i, 1, 0) = e + (1 + (1 - 1))
  BY <1>3, <1>4
<1>7. ASSUME NEW col \in 1 .. N
      PROVE  /\ ExpressionsAt(i, col, 0) = e + (1 + (col - 1)) /\ ExpressionsAt(i, col, 1) = e + (1 + col)
             /\ ExpressionsAt(i, col + 1, 0) = e + (1 + ((col + 1) - 1))
             /\ ExpressionsAt(i, col, R + 1) = e + (1 + col)
  <2>1. col # 0 /\ col + 1 # 0 /\ R + 1 # 0
    BY <1>2
  <2> QED BY <1>3, <1>4, <2>1
<1>8. ASSUME NEW col \in 1 .. N, NEW row \in 1 .. R
      PROVE  ExpressionsAt(i, col, row + 1) = ExpressionsAt(i, col, row)
  <2>1. col # 0 /\ row # 0 /\ row + 1 # 0
    BY <1>2
  <2> QED BY <1>3, <1>4, <2>1
<1>9. ExpressionsAt(i, N + 1, 0) = e + (1 + ((N + 1) - 1))
  <2>1. N + 1 # 0
    BY <1>2
  <2> QED BY <1>3, <1>4, <2>1
<1>10. ASSUME NEW col \in 1 .. N
       PROVE  /\ ExpressionsAt(i, col, 1) = ExpressionsAt(i, col, 0) + 1 /\ ExpressionsAt(i, col, 0) < k
              /\ ExpressionsAt(i, col + 1, 0) = ExpressionsAt(i, col, R + 1)
              /\ ExpressionsAt(i, col, 0) \in Nat
  BY <1>1, <1>2, <1>5, <1>7
<1>11. ExpressionsAt(i + 1, 0, 0) = ExpressionsAt(i, N + 1, 0)
  BY <1>1, <1>2, <1>3, <1>5, <1>9
<1>12. /\ ExpressionsAt(i, 1, 0) = ExpressionsAt(i, 0, 0) + 1 /\ ExpressionsAt(i, 0, 0) < k
       /\ ExpressionsAt(i, 0, 0) \in Nat /\ k > 0
  BY <1>1, <1>2, <1>3, <1>5, <1>6
<1> QED BY <1>8, <1>10, <1>11, <1>12 DEF t, N, R, k

(***************************************************************************)
(* The writer, between two stores.                                         *)
(***************************************************************************)
LEMMA Placed ==
  ASSUME IInv, FillOK, stage = "write", ~w.wild, pos <= Len(file)
  PROVE  /\ HistoryOK /\ Complete /\ pos \in 1 .. Len(file) /\ WriterOK(w) /\ c \in Counters
         /\ FilledTo(w, c, UsedAt(pos, csv.col, csv.row))
         /\ w.nextExpr = ExpressionsAt(pos, csv.col, csv.row)
         /\ DOMAIN w.exprs = 0 .. c.expressionCount - 1
         /\ w.layer = 0 => /\ csv.col = 0 /\ pos = 1 /\ w.strings = <<>>
                           /\ StartChildOffset(w, Last(w.exprStack)) = 0
<1>1. HistoryOK /\ Complete /\ WriterOK(w) /\ pos \in 1 .. Len(file)
  BY AtEvent DEF IInv, PlaceOK
<1>2. c \in Counters
  BY <1>1, Counted
<1>3. Built
  BY DEF Built
<1>4. /\ FilledTo(w, c, UsedAt(pos, csv.col, csv.row)) /\ w.nextExpr = ExpressionsAt(pos, csv.col, csv.row)
      /\ DOMAIN w.exprs = 0 .. c.expressionCount - 1
  BY <1>3 DEF FillOK
<1>5. ASSUME w.layer = 0
      PROVE  csv.col = 0 /\ pos = 1 /\ w.strings = <<>> /\ StartChildOffset(w, Last(w.exprStack)) = 0
  <2>1. w.layer = Nest(At(pos).parser) + Inside
    BY DEF IInv, PlaceOK
  <2>2. Nest(At(pos).parser) \in Nat /\ (Nest(At(pos).parser) = 0 => At(pos).parser = Blank)
    BY AtEvent, NestOK
  <2>3. Inside \in {0, 1, 2} /\ (Inside = 0 => csv.col = 0)
    BY DEF Inside
  <2>4. csv.col = 0 /\ At(pos).parser = Blank
    BY <1>5, <2>1, <2>2, <2>3
  <2>5. pos = 1
    <3>1. pos \notin 2 .. Len(file)
      BY <1>1, <2>4 DEF HistoryOK
    <3>2. Len(file) \in Nat
      BY <1>1, Counted
    <3> QED BY <1>1, <3>1, <3>2
  <2>6. w = NewWriter(c, leftover) /\ leftover.expr.start = 0
    BY <2>4, <2>5 DEF FillOK, CleanRoot
  <2>7. 0 \in DOMAIN c.perLayer
    BY <1>4, <1>5 DEF FilledTo, ShapeOK
  <2> QED BY <1>2, <2>4, <2>5, <2>6, <2>7, NewFilled
<1> QED BY <1>1, <1>2, <1>4, <1>5

\* The arguments in use stay.
UsedStay == ~w.wild => \A i \in Used(c, UsedAt(pos, csv.col, csv.row)) : w'.args[i] = w.args[i]

\* A handler that returns with the slots of the next event in use.
LEMMA ReturnsFilled ==
  ASSUME FillOK, stage = "write", pos \in 1 .. Len(file), UNCHANGED <<options, leftover>>, NEW v, HandlerReturns(v),
         Complete, HistoryOK,
         DOMAIN v.exprs = 0 .. c.expressionCount - 1, c.expressionCount > 0 => ~v.wild,
         ~v.wild => FilledTo(v, c, UsedAt(pos + 1, 0, 0)) /\ v.nextExpr = ExpressionsAt(pos + 1, 0, 0)
  PROVE  FillOK'
<1>1. /\ w' = v /\ pos' = pos + 1 /\ csv' = [col |-> 0, row |-> 0]
      /\ stage' = "write" /\ file' = file /\ parser' = parser /\ c' = c /\ seen' = seen
  BY DEF HandlerReturns
<1>2. csv'.col = 0 /\ csv'.row = 0
  BY <1>1
<1>3. UsedAt(pos, csv.col, csv.row)' = UsedAt(pos + 1, 0, 0)
  BY <1>1, <1>2 DEF UsedAt, Tabled, Begun, Cells, At
<1>4. ExpressionsAt(pos, csv.col, csv.row)' = ExpressionsAt(pos + 1, 0, 0)
  BY <1>1, <1>2 DEF ExpressionsAt, Begun, At
<1>5. pos' # 1 /\ ~(csv'.col > 0)
  BY <1>1, <1>2, Counted
<1>6. Built'
  BY <1>1 DEF Built
<1> QED BY <1>1, <1>2, <1>3, <1>4, <1>5, <1>6 DEF FillOK

\* A stage of handleCsvFile that goes on to the next one.
LEMMA GoesOnFilled ==
  ASSUME FillOK, stage = "write", pos \in 1 .. Len(file), UNCHANGED <<options, leftover>>, NEW v,
         NEW col \in Nat \ {0}, NEW row \in Nat, HandlerGoesOn(col, row, v),
         col <= Len(file[pos].table) + 1,
         row > 0 => col <= Len(file[pos].table) /\ row <= RowCount(file[pos].table) + 1,
         DOMAIN v.exprs = 0 .. c.expressionCount - 1, ~v.wild,
         FilledTo(v, c, UsedAt(pos, col, row)), v.nextExpr = ExpressionsAt(pos, col, row)
  PROVE  FillOK'
<1>1. /\ w' = v /\ csv' = [col |-> col, row |-> row] /\ pos' = pos
      /\ stage' = "write" /\ file' = file /\ parser' = parser /\ c' = c /\ seen' = seen
  BY DEF HandlerGoesOn
<1>2. csv'.col = col /\ csv'.row = row /\ csv'.col # 0
  BY <1>1
<1>3. UsedAt(pos, csv.col, csv.row)' = UsedAt(pos, col, row)
  BY <1>1, <1>2 DEF UsedAt, Tabled, Begun, Cells, At
<1>4. ExpressionsAt(pos, csv.col, csv.row)' = ExpressionsAt(pos, col, row)
  BY <1>1, <1>2 DEF ExpressionsAt, Begun, At
<1>6. Built'
  BY <1>1 DEF Built
<1> QED BY <1>1, <1>2, <1>3, <1>4, <1>6 DEF FillOK

\* A handler of an event starts with the slots that were counted before it.
LEMMA EventPlaced ==
  ASSUME IInv, FillOK, NEW events, Event(events)
  PROVE  LET n == UsedAt(pos, 0, 0) IN
         /\ HistoryOK /\ Complete /\ pos \in 1 .. Len(file) /\ WriterOK(w) /\ c \in Counters
         /\ stage = "write" /\ ~w.wild /\ file[pos].event \in events /\ file[pos] \in Token
         /\ UsedAt(pos, csv.col, csv.row) = n /\ FilledTo(w, c, n) /\ w.nextExpr = ExpressionsAt(pos, 0, 0)
         /\ w.layer = Nest(At(pos).parser) /\ 0 \notin w.keyValue
         /\ DOMAIN w.exprs = 0 .. c.expressionCount - 1
         /\ w.layer = 0 => pos = 1 /\ w.strings = <<>> /\ StartChildOffset(w, Last(w.exprStack)) = 0
<1>1. stage = "write" /\ ~w.wild /\ pos <= Len(file) /\ csv.col = 0
  BY DEF Event
<1>2. UsedAt(pos, csv.col, csv.row) = UsedAt(pos, 0, 0)
  BY <1>1 DEF UsedAt, Tabled
<1>3. ExpressionsAt(pos, csv.col, csv.row) = ExpressionsAt(pos, 0, 0)
  BY <1>1 DEF ExpressionsAt
<1>4. file[pos].event \in events /\ w.layer = Nest(At(pos).parser) /\ 0 \notin w.keyValue
  BY EventOK
<1>5. file[pos] \in Token
  BY <1>1, AtEvent
<1> QED BY <1>1, <1>2, <1>3, <1>4, <1>5, Placed

\* A document that is one value, and no CSV file, has no expression.
LEMMA LoneValue ==
  ASSUME HistoryOK, Complete, NEW i \in 1 .. Len(file), i = 1, ~IsCsv(file[i]),
         file[i].event \notin {"key", "object", "array", "end"}
  PROVE  c.expressionCount = 0
<1>1. Len(file) \in Nat /\ Len(file) > 0 /\ At(Len(file) + 1).c = c
  BY Counted
<1>2. At(1).parser = Blank /\ At(1).c = InitCounters /\ At(2).parser = After(Blank, file[1])
  <2>1. 1 + 1 = 2 /\ 1 \in 1 .. Len(file)
    BY <1>1
  <2> QED BY <2>1 DEF HistoryOK
<1>3. At(2).parser = Blank
  BY <1>2 DEF After, Blank
<1>4. Len(file) = 1
  <2>1. 2 \notin 2 .. Len(file)
    BY <1>3 DEF HistoryOK
  <2> DEFINE m == Len(file)
  <2>2. m \in Nat /\ m > 0 /\ 2 \notin 2 .. m
    BY <1>1, <2>1
  <2> HIDE DEF m
  <2>3. m = 1
    BY <2>2
  <2> QED BY <2>3 DEF m
<1>5. At(i + 1).c.expressionCount = At(i).c.expressionCount + AddsExpressions(file[i], IsCsv(file[i]))
  BY EventCounts
<1>6. AddsExpressions(file[i], IsCsv(file[i])) = 0
  BY DEF AddsExpressions
<1>7. InitCounters.expressionCount = 0
  BY DEF InitCounters
<1>8. At(i + 1).c.expressionCount = 0 + 0
  BY <1>2, <1>5, <1>6, <1>7
<1> QED BY <1>1, <1>4, <1>8

\* A value that is no expression is stored in the block; or it is all of the
\* document, and there is nothing to read it from.
LEMMA NumberFits ==
  ASSUME IInv, FillOK, NEW events, Event(events), events \cap {"key", "object", "array", "end"} = {},
         ~IsCsv(file[pos]), NEW type \in Nat, NEW at \in Seq(Nat)
  PROVE  Stored(w, addNumber(w, type, at))
<1> DEFINE n == UsedAt(pos, 0, 0)
<1>1. /\ HistoryOK /\ Complete /\ pos \in 1 .. Len(file) /\ WriterOK(w) /\ c \in Counters /\ ~w.wild
      /\ file[pos].event \in events /\ FilledTo(w, c, n) /\ w.layer = Nest(At(pos).parser)
      /\ w.layer = 0 => StartChildOffset(w, Last(w.exprStack)) = 0
  BY EventPlaced
<1>2. n[w.layer] < c.perLayer[w.layer]
  BY <1>1, EventSlots
<1>3. NextArgumentIndex(w) \in DOMAIN w.types
  BY <1>1, <1>2, IndexInBlock
<1> QED BY <1>1, <1>3, NumberStores

\* A string is stored in the block likewise.
LEMMA TextFits ==
  ASSUME IInv, FillOK, NEW events, Event(events), events \cap {"key", "object", "array", "end"} = {},
         ~IsCsv(file[pos]), NEW type \in Nat, NEW text \in String
  PROVE  \/ /\ Stored(w, addText(w, type, text))
            /\ Last(w.exprStack) \in DOMAIN w.exprs \/ (text.text # "longstring" /\ w.strings = <<>>)
         \/ c.expressionCount = 0 /\ addText(w, type, text).wild /\ addText(w, type, text).args = w.args
<1> DEFINE n == UsedAt(pos, 0, 0)
           e == Last(w.exprStack)
<1>1. /\ HistoryOK /\ Complete /\ pos \in 1 .. Len(file) /\ WriterOK(w) /\ c \in Counters /\ ~w.wild
      /\ file[pos].event \in events /\ FilledTo(w, c, n) /\ w.layer = Nest(At(pos).parser)
      /\ DOMAIN w.exprs = 0 .. c.expressionCount - 1
      /\ w.layer = 0 => pos = 1 /\ w.strings = <<>> /\ StartChildOffset(w, Last(w.exprStack)) = 0
  BY EventPlaced
<1>2. n[w.layer] < c.perLayer[w.layer]
  BY <1>1, EventSlots
<1>3. NextArgumentIndex(w) \in DOMAIN w.types
  BY <1>1, <1>2, IndexInBlock
<1>4. CASE w.layer # 0
  <2>1. w.layer \in Nat /\ e = w.exprStack[w.layer + 1]
    BY <1>1, ArgIterOK
  <2>2. w.layer + 1 \in 2 .. w.layer + 1
    BY <1>4, <2>1
  <2>3. e \in DOMAIN w.exprs
    BY <1>1, <2>1, <2>2, SlotsCases DEF FilledTo
  <2>4. WriterOK(w) /\ ~w.wild
    BY <1>1
  <2>5. Stored(w, addText(w, type, text))
    BY <1>3, <2>3, <2>4, TextStores, Zenon
  <2> QED BY <2>3, <2>5
<1>5. CASE w.layer = 0 /\ text.text # "longstring"
  BY <1>1, <1>3, <1>5, TextStores
<1>6. CASE w.layer = 0 /\ text.text = "longstring"
  <2> DEFINE s == storeString(w, text)
  <2>1. c.expressionCount = 0
    BY <1>1, <1>6, LoneValue
  <2>2. /\ WriterOK(s) /\ s.strings = Append(w.strings, text) /\ s.exprs = w.exprs /\ s.types = w.types
        /\ s.args = w.args
    <3>1. WriterOK(s) /\ w \in Writer /\ s = [w EXCEPT !.strings = Append(w.strings, text)]
      BY <1>1, StoreStringOK DEF WriterOK
    <3> HIDE DEF s
    <3> QED BY <3>1 DEF Writer
  <2>3. addText(w, type, text) = addNumber(s, type, <<Len(w.strings)>>)
    BY DEF addText
  <2> HIDE DEF s
  <2>4. s.strings # <<>> /\ Head(s.strings) = text
    BY <1>1, <1>6, <2>2
  <2>5. \A x : x \notin DOMAIN s.exprs
    BY <1>1, <2>1, <2>2
  <2>6. StartChildOffset(s, Last(s.exprStack)) = Cardinality(DOMAIN s.types)
    BY <1>6, <2>4, <2>5 DEF StartChildOffset
  <2>7. Last(s.argIter) \in Nat
    BY <2>2, LastOK
  <2>8. NextArgumentIndex(s) \notin DOMAIN s.types
    <3>1. s.types \in Vector(Nat)
      BY <2>2 DEF WriterOK, Writer
    <3>2. PICK m \in Nat : s.types \in [0 .. m - 1 -> Nat]
      BY <3>1 DEF Vector
    <3>3. Cardinality(0 .. m - 1) = m
      <4>1. 0 \in Int /\ m - 1 \in Int
        OBVIOUS
      <4>2. Cardinality(0 .. m - 1) = IF 0 > m - 1 THEN 0 ELSE m - 1 - 0 + 1
        BY <4>1, FS_Interval
      <4> QED BY <4>2
    <3>4. DOMAIN s.types = 0 .. m - 1
      BY <3>2
    <3>5. NextArgumentIndex(s) = m + Last(s.argIter)
      BY <2>6, <3>3, <3>4 DEF NextArgumentIndex
    <3> QED BY <2>7, <3>4, <3>5
  <2>9. s \in Writer
    BY <2>2 DEF WriterOK
  <2> QED BY <2>1, <2>2, <2>3, <2>8, <2>9, NumberLeaves
<1> QED BY <1>4, <1>5, <1>6

\* A handler that stores one value and leaves its key.
LEMMA ValueFilled ==
  ASSUME IInv, FillOK, UNCHANGED <<options, leftover>>, NEW events, Event(events),
         events \cap {"key", "object", "array", "end"} = {}, ~IsCsv(file[pos]),
         NEW u, WriterOK(u), OneStored(w, u), HandlerReturns(handleKeyValueEnd(u)),
         Stored(w, u) \/ (c.expressionCount = 0 /\ u.wild /\ u.args = w.args)
  PROVE  FillOK' /\ UsedStay
<1> DEFINE n == UsedAt(pos, 0, 0)
           o == UsedAt(pos + 1, 0, 0)
           v == handleKeyValueEnd(u)
<1>1. /\ HistoryOK /\ Complete /\ pos \in 1 .. Len(file) /\ WriterOK(w) /\ c \in Counters /\ ~w.wild
      /\ stage = "write" /\ UsedAt(pos, csv.col, csv.row) = n
      /\ file[pos].event \in events /\ FilledTo(w, c, n) /\ w.layer = Nest(At(pos).parser)
      /\ w.nextExpr = ExpressionsAt(pos, 0, 0) /\ 0 \notin w.keyValue
      /\ DOMAIN w.exprs = 0 .. c.expressionCount - 1
      /\ w.layer = 0 => StartChildOffset(w, Last(w.exprStack)) = 0
  BY EventPlaced
<1>2. /\ o = OneMore(n, w.layer) /\ n[w.layer] < c.perLayer[w.layer]
      /\ ExpressionsAt(pos + 1, 0, 0) = ExpressionsAt(pos, 0, 0)
  <2>1. file[pos].event \notin {"key", "object", "array", "end"}
    BY <1>1
  <2>2. /\ UsedAt(pos + 1, 0, 0) = OneMore(UsedAt(pos, 0, 0), Nest(At(pos).parser))
        /\ UsedAt(pos, 0, 0)[Nest(At(pos).parser)] < c.perLayer[Nest(At(pos).parser)]
        /\ ExpressionsAt(pos + 1, 0, 0) = ExpressionsAt(pos, 0, 0) + 0 /\ ExpressionsAt(pos, 0, 0) \in Nat
    BY <1>1, <2>1, EventSlots
  <2> QED BY <1>1, <2>2
<1>3. w' = v
  BY DEF HandlerReturns
<1>4. HandlerReturns(v)
  OBVIOUS
<1> HIDE DEF n, o
<1>5. CASE Stored(w, u)
  <2>1. RoomFor(w, c, n)
    BY <1>1, <1>2 DEF RoomFor
  <2>2. FilledTo(u, c, o) /\ ~u.wild /\ u.nextExpr = w.nextExpr /\ Keeps(w, u, c, n)
    BY <1>1, <1>2, <1>5, <2>1, StoreFills
  <2>3. 0 \notin u.keyValue
    BY <1>1 DEF OneStored
  <2>4. /\ FilledTo(v, c, o) /\ ~v.wild /\ v.nextExpr = u.nextExpr /\ v.args = u.args
        /\ DOMAIN v.exprs = DOMAIN u.exprs
    BY <1>1, <2>2, <2>3, KeyEndFills
  <2> HIDE DEF v
  <2>5. FillOK'
    BY <1>1, <1>2, <1>4, <2>2, <2>4, ReturnsFilled DEF Keeps, o
  <2>6. UsedStay
    BY <1>1, <1>3, <2>2, <2>4 DEF Keeps, UsedStay
  <2> QED BY <2>5, <2>6
<1>6. CASE c.expressionCount = 0 /\ u.wild /\ u.args = w.args
  <2>1. v.wild /\ v.args = w.args /\ v.exprs = w.exprs
    BY <1>6, KeyEndWild DEF WriterOK, OneStored
  <2> HIDE DEF v
  <2>2. FillOK'
    BY <1>1, <1>4, <1>6, <2>1, ReturnsFilled
  <2>3. UsedStay
    BY <1>3, <2>1 DEF UsedStay
  <2> QED BY <2>2, <2>3
<1> QED BY <1>5, <1>6

\* The handlers null and boolean.
LEMMA WriteSymbolFills == ASSUME IInv, FillOK, UNCHANGED <<options, leftover>>, WriteSymbol PROVE FillOK' /\ UsedStay
<1> DEFINE events == {"null", "boolean"}
           text == Text(file[pos].event, Place)
           u == addText(w, ARGUMENT_TYPE_SYMBOL, text)
<1>1. Event(events) /\ HandlerReturns(handleKeyValueEnd(u))
  BY DEF WriteSymbol
<1>2. pos <= Len(file) /\ WriterOK(w) /\ file[pos].event \in events
  BY <1>1, EventOK
<1>3. text \in String
  <2>1. file[pos].event \in Texts
    BY <1>2, AtEvent
  <2> QED BY <1>2, <2>1, AtEvent
<1>4. ~IsCsv(file[pos]) /\ events \cap {"key", "object", "array", "end"} = {}
  BY <1>2 DEF IsCsv
<1> HIDE DEF text, events
<1>5. WriterOK(u) /\ OneStored(w, u)
  BY <1>2, <1>3, TagsOK, AddTextOK
<1>6. Stored(w, u) \/ (c.expressionCount = 0 /\ u.wild /\ u.args = w.args)
  BY <1>1, <1>3, <1>4, TagsOK, TextFits
<1> HIDE DEF u
<1> QED BY <1>1, <1>4, <1>5, <1>6, ValueFilled

\* The handlers of numbers.
LEMMA WriteNumberFills == ASSUME IInv, FillOK, UNCHANGED <<options, leftover>>, WriteNumber PROVE FillOK' /\ UsedStay
<1> DEFINE events == {"integer", "float"}
           type == IF file[pos].event = "integer" THEN ARGUMENT_TYPE_LONG ELSE ARGUMENT_TYPE_DOUBLE
           u == addNumber(w, type, Place)
<1>1. Event(events) /\ HandlerReturns(handleKeyValueEnd(u))
  BY DEF WriteNumber
<1>2. pos <= Len(file) /\ WriterOK(w) /\ file[pos].event \in events
  BY <1>1, EventOK
<1>3. Place \in Seq(Nat) /\ type \in Nat
  BY <1>2, AtEvent, TagsOK
<1>4. ~IsCsv(file[pos]) /\ events \cap {"key", "object", "array", "end"} = {}
  BY <1>2 DEF IsCsv
<1> HIDE DEF type, events
<1>5. WriterOK(u) /\ OneStored(w, u)
  BY <1>2, <1>3, AddNumberOK
<1>6. Stored(w, u)
  BY <1>1, <1>3, <1>4, NumberFits
<1> HIDE DEF u
<1> QED BY <1>1, <1>4, <1>5, <1>6, ValueFilled

\* The handler string, of a text that names no CSV file.
LEMMA WriteStringFills == ASSUME IInv, FillOK, UNCHANGED <<options, leftover>>, WriteString PROVE FillOK' /\ UsedStay
<1> DEFINE events == {"string", "longstring", "csv"}
           text == Text(file[pos].event, Place)
           u == addText(w, ARGUMENT_TYPE_STRING, text)
<1>1. Event(events) /\ HandlerReturns(handleKeyValueEnd(u)) /\ ~IsCsv(file[pos])
  BY DEF WriteString
<1>2. pos <= Len(file) /\ WriterOK(w) /\ file[pos].event \in events
  BY <1>1, EventOK
<1>3. text \in String
  <2>1. file[pos].event \in Texts
    BY <1>2, AtEvent
  <2> QED BY <1>2, <2>1, AtEvent
<1>4. events \cap {"key", "object", "array", "end"} = {}
  OBVIOUS
<1> HIDE DEF text, events
<1>5. WriterOK(u) /\ OneStored(w, u)
  BY <1>2, <1>3, TagsOK, AddTextOK
<1>6. Stored(w, u) \/ (c.expressionCount = 0 /\ u.wild /\ u.args = w.args)
  BY <1>1, <1>3, <1>4, TagsOK, TextFits
<1> HIDE DEF u
<1> QED BY <1>1, <1>4, <1>5, <1>6, ValueFilled

\* An expression opens in the slot that was counted for it.
LEMMA OpensFilled ==
  ASSUME IInv, FillOK, NEW events, Event(events), events \subseteq {"key", "object", "array"},
         NEW head \in String
  PROVE  LET r == startExpression(w, head)
             n == UsedAt(pos, 0, 0)
         IN /\ FilledTo(r, c, UsedAt(pos + 1, 0, 0)) /\ ~r.wild
            /\ r.nextExpr = ExpressionsAt(pos + 1, 0, 0) /\ Keeps(w, r, c, n)
            /\ DOMAIN r.exprs = 0 .. c.expressionCount - 1 /\ r.layer \in DOMAIN w.cumul
<1> DEFINE n == UsedAt(pos, 0, 0)
           o == UsedAt(pos + 1, 0, 0)
           r == startExpression(w, head)
<1>1. /\ HistoryOK /\ Complete /\ pos \in 1 .. Len(file) /\ WriterOK(w) /\ c \in Counters /\ ~w.wild
      /\ file[pos].event \in events /\ FilledTo(w, c, n) /\ w.layer = Nest(At(pos).parser)
      /\ w.nextExpr = ExpressionsAt(pos, 0, 0) /\ DOMAIN w.exprs = 0 .. c.expressionCount - 1
      /\ w.layer = 0 => StartChildOffset(w, Last(w.exprStack)) = 0
  BY EventPlaced
<1>2. file[pos].event \in {"key", "object", "array"} /\ ~IsCsv(file[pos]) /\ file[pos].event # "end"
  BY <1>1 DEF IsCsv
<1>3. /\ o = OneMore(n, w.layer) /\ n[w.layer] < c.perLayer[w.layer]
      /\ ExpressionsAt(pos + 1, 0, 0) = ExpressionsAt(pos, 0, 0) + 1
      /\ ExpressionsAt(pos, 0, 0) < c.expressionCount /\ ExpressionsAt(pos, 0, 0) \in Nat
  BY <1>1, <1>2, EventSlots
<1>4. w.layer + 1 \in DOMAIN c.perLayer /\ c.expressionCount \in Nat
  BY <1>1, <1>2, EventCounts
<1>5. w.nextExpr \in DOMAIN w.exprs
  BY <1>1, <1>3, <1>4
<1> HIDE DEF n, o
<1>6. RoomFor(w, c, n)
  BY <1>1, <1>3 DEF RoomFor
<1>7. /\ FilledTo(r, c, OneMore(n, w.layer)) /\ ~r.wild /\ r.nextExpr = w.nextExpr + 1 /\ Keeps(w, r, c, n)
      /\ r.layer \in DOMAIN w.cumul
  BY <1>1, <1>4, <1>5, <1>6, StartFills
<1> HIDE DEF r
<1> QED BY <1>1, <1>3, <1>7 DEF Keeps, n, o, r

\* start_object and start_array.
LEMMA WriteStartFills == ASSUME IInv, FillOK, UNCHANGED <<options, leftover>>, WriteStart PROVE FillOK' /\ UsedStay
<1> DEFINE events == {"object", "array"}
           text == Text(file[pos].event, Place)
           v == startExpression(w, text)
<1>1. Event(events) /\ HandlerReturns(v)
  BY DEF WriteStart
<1>2. pos <= Len(file) /\ file[pos].event \in events
  BY <1>1, EventOK
<1>3. text \in String
  <2>1. file[pos].event \in Texts
    BY <1>2, AtEvent
  <2> QED BY <1>2, <2>1, AtEvent
<1>4. events \subseteq {"key", "object", "array"}
  OBVIOUS
<1> HIDE DEF text, events
<1>5. /\ FilledTo(v, c, UsedAt(pos + 1, 0, 0)) /\ ~v.wild /\ v.nextExpr = ExpressionsAt(pos + 1, 0, 0)
      /\ Keeps(w, v, c, UsedAt(pos, 0, 0)) /\ DOMAIN v.exprs = 0 .. c.expressionCount - 1
  BY <1>1, <1>3, <1>4, OpensFilled
<1>6. /\ stage = "write" /\ pos \in 1 .. Len(file) /\ HistoryOK /\ Complete
      /\ UsedAt(pos, csv.col, csv.row) = UsedAt(pos, 0, 0)
  BY <1>1, EventPlaced
<1> HIDE DEF v
<1>7. FillOK'
  BY <1>1, <1>5, <1>6, ReturnsFilled
<1>8. UsedStay
  BY <1>1, <1>5, <1>6 DEF UsedStay, HandlerReturns, Keeps
<1> QED BY <1>7, <1>8

\* The handler key.
LEMMA WriteKeyFills == ASSUME IInv, FillOK, UNCHANGED <<options, leftover>>, WriteKey PROVE FillOK' /\ UsedStay
<1> DEFINE events == {"key"}
           text == Text("key", Place)
           s == startExpression(w, text)
           v == [s EXCEPT !.keyValue = @ \cup {s.layer}, !.wild = @ \/ s.layer \notin DOMAIN w.cumul]
<1>1. Event(events) /\ HandlerReturns(v)
  BY DEF WriteKey
<1>2. pos <= Len(file) /\ WriterOK(w)
  BY <1>1, EventOK
<1>3. text \in String
  <2>1. "key" \in Texts
    BY DEF Texts
  <2> QED BY <1>2, <2>1, AtEvent
<1>4. events \subseteq {"key", "object", "array"}
  OBVIOUS
<1> HIDE DEF text, events
<1>5. /\ FilledTo(s, c, UsedAt(pos + 1, 0, 0)) /\ ~s.wild /\ s.nextExpr = ExpressionsAt(pos + 1, 0, 0)
      /\ Keeps(w, s, c, UsedAt(pos, 0, 0)) /\ DOMAIN s.exprs = 0 .. c.expressionCount - 1
      /\ s.layer \in DOMAIN w.cumul
  BY <1>1, <1>3, <1>4, OpensFilled
<1>6. /\ stage = "write" /\ pos \in 1 .. Len(file) /\ HistoryOK /\ Complete
      /\ UsedAt(pos, csv.col, csv.row) = UsedAt(pos, 0, 0)
  BY <1>1, EventPlaced
<1>7. s \in Writer
  <2> HIDE DEF s
  <2>1. WriterOK(s)
    BY <1>2, <1>3, StartOK DEF s
  <2> QED BY <2>1 DEF WriterOK
<1> HIDE DEF s
<1>8. /\ v.types = s.types /\ v.exprs = s.exprs /\ v.cumul = s.cumul /\ v.argIter = s.argIter
      /\ v.exprStack = s.exprStack /\ v.nextExpr = s.nextExpr /\ v.layer = s.layer /\ v.args = s.args
      /\ v.wild = (s.wild \/ s.layer \notin DOMAIN w.cumul)
  BY <1>7 DEF Writer
<1> HIDE DEF v
<1>9. FilledTo(v, c, UsedAt(pos + 1, 0, 0)) /\ ~v.wild
  BY <1>5, <1>8, FilledSame
<1>10. FillOK'
  BY <1>1, <1>5, <1>6, <1>8, <1>9, ReturnsFilled
<1>11. UsedStay
  BY <1>1, <1>5, <1>6, <1>8 DEF UsedStay, HandlerReturns, Keeps
<1> QED BY <1>10, <1>11

\* end_object and end_array.
LEMMA WriteEndFills == ASSUME IInv, FillOK, UNCHANGED <<options, leftover>>, WriteEnd PROVE FillOK' /\ UsedStay
<1> DEFINE n == UsedAt(pos, 0, 0)
           p == At(pos).parser
           u == endExpression(w)
           v == handleKeyValueEnd(u)
<1>1. Event({"end"}) /\ HandlerReturns(v)
  BY DEF WriteEnd
<1>2. /\ HistoryOK /\ Complete /\ pos \in 1 .. Len(file) /\ WriterOK(w) /\ c \in Counters /\ ~w.wild
      /\ file[pos].event \in {"end"} /\ FilledTo(w, c, n) /\ w.layer = Nest(p) /\ stage = "write"
      /\ w.nextExpr = ExpressionsAt(pos, 0, 0) /\ DOMAIN w.exprs = 0 .. c.expressionCount - 1
      /\ 0 \notin w.keyValue /\ UsedAt(pos, csv.col, csv.row) = n
  BY <1>1, EventPlaced
<1>3. ~IsCsv(file[pos]) /\ file[pos].event = "end"
  BY <1>2 DEF IsCsv
<1>4. UsedAt(pos + 1, 0, 0) = n /\ ExpressionsAt(pos + 1, 0, 0) = ExpressionsAt(pos, 0, 0)
  BY <1>2, <1>3, EventSlots
<1>5. w.layer >= 1
  <2>1. pos <= Len(file)
    BY <1>2, Counted
  <2>2. Nest(After(p, file[pos])) = Nest(p) - 1 - (IF p.open[Len(p.open)].keyed THEN 1 ELSE 0)
        /\ ParserOK(After(p, file[pos]))
    BY <1>3, <2>1, AtEvent, ParserStep
  <2>3. Nest(After(p, file[pos])) \in Nat /\ Nest(p) \in Nat
    BY <2>1, <2>2, NestOK, AtEvent
  <2> QED BY <1>2, <2>2, <2>3
<1> HIDE DEF n
<1>6. /\ FilledTo(u, c, n) /\ u.wild = w.wild /\ u.nextExpr = w.nextExpr /\ u.args = w.args
      /\ DOMAIN u.exprs = DOMAIN w.exprs
  BY <1>2, <1>5, EndFills
<1>7. WriterOK(u) /\ u.keyValue = w.keyValue
  BY <1>2, <1>5, EndOK
<1> HIDE DEF u
<1>8. /\ FilledTo(v, c, n) /\ ~v.wild /\ v.nextExpr = u.nextExpr /\ v.args = u.args
      /\ DOMAIN v.exprs = DOMAIN u.exprs
  BY <1>2, <1>6, <1>7, KeyEndFills
<1> HIDE DEF v
<1>9. FillOK'
  BY <1>1, <1>2, <1>4, <1>6, <1>8, ReturnsFilled
<1>10. UsedStay
  BY <1>1, <1>6, <1>8 DEF UsedStay, HandlerReturns
<1> QED BY <1>9, <1>10

\* The columns of a table have the same number of rows.
LEMMA ColumnLength ==
  ASSUME NEW t \in Token, NEW i \in 1 .. Len(t.table)
  PROVE  Len(t.table[i]) = RowCount(t.table) /\ t.table[i] \in Seq(Cell)
<1>1. t.table \in Tables \cup {<<>>}
  BY DEF Token
<1>2. t.table \in Seq(Seq(Cell)) /\ t.table # <<>>
  BY TableOK, EmptySeq
<1>3. t.table \in Tables
  BY <1>1, <1>2
<1>4. 1 \in DOMAIN t.table /\ i \in DOMAIN t.table
  BY <1>2
<1>5. Len(t.table[i]) = Len(t.table[1])
  BY <1>3, <1>4, LoadAssumption
<1> QED BY <1>2, <1>4, <1>5 DEF RowCount

\* Inside a CSV file: the slots and the expressions in use.
LEMMA TablePlaced ==
  ASSUME IInv, FillOK, InTable
  PROVE  LET n == UsedAt(pos, csv.col, csv.row)
             N == Len(file[pos].table)
             R == RowCount(file[pos].table)
         IN /\ HistoryOK /\ Complete /\ pos \in 1 .. Len(file) /\ WriterOK(w) /\ c \in Counters
            /\ stage = "write" /\ ~w.wild /\ IsCsv(file[pos]) /\ file[pos] \in Token
            /\ FilledTo(w, c, n) /\ w.nextExpr = ExpressionsAt(pos, csv.col, csv.row)
            /\ DOMAIN w.exprs = 0 .. c.expressionCount - 1 /\ c.expressionCount \in Nat
            /\ N \in Nat /\ R \in Nat /\ csv.col \in Nat \ {0} /\ csv.row \in Nat /\ csv.col <= N + 1
            /\ csv.row > 0 => csv.col <= N /\ csv.row <= R + 1
            /\ Nest(At(pos).parser) \in Nat
            /\ w.layer = Nest(At(pos).parser) + (IF csv.row = 0 THEN 1 ELSE 2) /\ w.layer # 0
            /\ 0 \notin w.keyValue
<1>1. /\ stage = "write" /\ ~w.wild /\ pos <= Len(file) /\ IsCsv(file[pos]) /\ csv.col \in Nat \ {0}
      /\ csv.row \in Nat /\ Nest(At(pos).parser) \in Nat
      /\ w.layer = Nest(At(pos).parser) + (IF csv.row = 0 THEN 1 ELSE 2)
      /\ w.keyValue = KeyLayers(At(pos).parser)
  BY InTableOK
<1>2. /\ HistoryOK /\ Complete /\ pos \in 1 .. Len(file) /\ WriterOK(w) /\ c \in Counters
      /\ FilledTo(w, c, UsedAt(pos, csv.col, csv.row)) /\ w.nextExpr = ExpressionsAt(pos, csv.col, csv.row)
      /\ DOMAIN w.exprs = 0 .. c.expressionCount - 1
  BY <1>1, Placed
<1>3. file[pos] \in Token /\ ParserOK(At(pos).parser)
  BY <1>1, AtEvent
<1>4. Len(file[pos].table) \in Nat /\ RowCount(file[pos].table) \in Nat
  BY <1>3, TableOK
<1>5. c.expressionCount \in Nat
  BY <1>2, EventCounts
<1>6. csv.col > 0
  BY <1>1
<1>7. /\ csv.col <= Len(file[pos].table) + 1
      /\ csv.row > 0 => csv.col <= Len(file[pos].table) /\ csv.row <= RowCount(file[pos].table) + 1
  BY <1>1, <1>6 DEF FillOK
<1>8. w.layer # 0
  BY <1>1
<1>9. 0 \notin w.keyValue
  <2>1. KeyLayers(At(pos).parser) \subseteq Nat \ {0}
    BY <1>1, AtEvent, LayersStep
  <2> QED BY <1>1, <2>1
<1> QED BY <1>1, <1>2, <1>3, <1>4, <1>5, <1>7, <1>8, <1>9

\* handleCsvFile: the expression of the table.
LEMMA WriteTableStartFills ==
  ASSUME IInv, FillOK, UNCHANGED <<options, leftover>>, WriteTableStart
  PROVE  FillOK' /\ UsedStay
<1> DEFINE text == Text("table", Place)
           v == startExpression(w, text)
           n == UsedAt(pos, 0, 0)
           L == Nest(At(pos).parser)
           N == Len(file[pos].table)
<1>1. Event({"csv"}) /\ IsCsv(file[pos]) /\ HandlerGoesOn(1, 0, v)
  BY DEF WriteTableStart
<1>2. /\ HistoryOK /\ Complete /\ pos \in 1 .. Len(file) /\ WriterOK(w) /\ c \in Counters
      /\ stage = "write" /\ ~w.wild /\ UsedAt(pos, csv.col, csv.row) = n /\ FilledTo(w, c, n)
      /\ w.nextExpr = ExpressionsAt(pos, 0, 0) /\ w.layer = L
      /\ DOMAIN w.exprs = 0 .. c.expressionCount - 1
      /\ w.layer = 0 => StartChildOffset(w, Last(w.exprStack)) = 0
  BY <1>1, EventPlaced
<1>3. text \in String
  <2>1. "table" \in Texts
    BY DEF Texts
  <2>2. pos <= Len(file)
    BY <1>1, EventOK
  <2> QED BY <2>1, <2>2, AtEvent
<1>4. /\ N \in Nat /\ L \in Nat /\ L + 1 \in DOMAIN c.perLayer
      /\ UsedAt(pos, 1, 0) = OneMore(n, L) /\ n[L] < c.perLayer[L]
  BY <1>1, <1>2, TableSlots
<1>5. /\ ExpressionsAt(pos, 1, 0) = ExpressionsAt(pos, 0, 0) + 1
      /\ ExpressionsAt(pos, 0, 0) < c.expressionCount /\ ExpressionsAt(pos, 0, 0) \in Nat
  BY <1>1, <1>2, TableExpressions
<1>6. c.expressionCount \in Nat
  BY <1>2, EventCounts
<1>7. w.nextExpr \in DOMAIN w.exprs
  BY <1>2, <1>5, <1>6
<1> HIDE DEF text, n
<1>8. RoomFor(w, c, n)
  BY <1>2, <1>4 DEF RoomFor
<1>9. /\ FilledTo(v, c, OneMore(n, w.layer)) /\ ~v.wild /\ v.nextExpr = w.nextExpr + 1 /\ Keeps(w, v, c, n)
  BY <1>2, <1>3, <1>4, <1>7, <1>8, StartFills
<1> HIDE DEF v
<1>10. 1 \in Nat \ {0} /\ 0 \in Nat /\ 1 <= N + 1 /\ ~(0 > 0)
  BY <1>4
<1>11. FilledTo(v, c, UsedAt(pos, 1, 0)) /\ v.nextExpr = ExpressionsAt(pos, 1, 0)
       /\ DOMAIN v.exprs = 0 .. c.expressionCount - 1
  BY <1>2, <1>4, <1>5, <1>9 DEF Keeps
<1>12. FillOK'
  BY <1>1, <1>2, <1>9, <1>10, <1>11, GoesOnFilled
<1>13. UsedStay
  BY <1>1, <1>2, <1>9 DEF UsedStay, HandlerGoesOn, Keeps
<1> QED BY <1>12, <1>13

\* handleCsvFile: the expression of a column.
LEMMA WriteColumnStartFills ==
  ASSUME IInv, FillOK, UNCHANGED <<options, leftover>>, WriteColumnStart
  PROVE  FillOK' /\ UsedStay
<1> DEFINE text == Text("column", Place)
           v == startExpression(w, text)
           n == UsedAt(pos, csv.col, 0)
           L == Nest(At(pos).parser)
           N == Len(file[pos].table)
           R == RowCount(file[pos].table)
<1>1. InTable /\ csv.row = 0 /\ csv.col <= N /\ HandlerGoesOn(csv.col, 1, v)
  BY DEF WriteColumnStart, Table
<1>2. /\ HistoryOK /\ Complete /\ pos \in 1 .. Len(file) /\ WriterOK(w) /\ c \in Counters
      /\ stage = "write" /\ ~w.wild /\ IsCsv(file[pos])
      /\ FilledTo(w, c, n) /\ w.nextExpr = ExpressionsAt(pos, csv.col, 0)
      /\ DOMAIN w.exprs = 0 .. c.expressionCount - 1 /\ c.expressionCount \in Nat
      /\ N \in Nat /\ R \in Nat /\ csv.col \in Nat \ {0} /\ w.layer = L + 1 /\ w.layer # 0 /\ L \in Nat
  BY <1>1, TablePlaced
<1>3. text \in String
  <2>1. "column" \in Texts
    BY DEF Texts
  <2> QED BY <1>1, <2>1, InTableOK
<1>4. csv.col \in 1 .. N
  BY <1>1, <1>2
<1>5. /\ L + 2 \in DOMAIN c.perLayer
      /\ UsedAt(pos, csv.col, 1) = OneMore(n, L + 1) /\ n[L + 1] < c.perLayer[L + 1]
  BY <1>2, <1>4, TableSlots
<1>6. /\ ExpressionsAt(pos, csv.col, 1) = ExpressionsAt(pos, csv.col, 0) + 1
      /\ ExpressionsAt(pos, csv.col, 0) < c.expressionCount /\ ExpressionsAt(pos, csv.col, 0) \in Nat
  BY <1>2, <1>4, TableExpressions
<1>7. w.nextExpr \in DOMAIN w.exprs
  BY <1>2, <1>6
<1>8. w.layer + 1 = L + 2
  BY <1>2
<1> HIDE DEF text, n
<1>9. RoomFor(w, c, n)
  BY <1>2, <1>5 DEF RoomFor
<1>10. /\ FilledTo(v, c, OneMore(n, w.layer)) /\ ~v.wild /\ v.nextExpr = w.nextExpr + 1 /\ Keeps(w, v, c, n)
  BY <1>2, <1>3, <1>5, <1>7, <1>8, <1>9, StartFills
<1> HIDE DEF v
<1>11. csv.col <= N + 1 /\ 1 <= R + 1 /\ 1 \in Nat
  BY <1>1, <1>2
<1>12. FilledTo(v, c, UsedAt(pos, csv.col, 1)) /\ v.nextExpr = ExpressionsAt(pos, csv.col, 1)
       /\ DOMAIN v.exprs = 0 .. c.expressionCount - 1
  BY <1>2, <1>5, <1>6, <1>10 DEF Keeps
<1>13. FillOK'
  BY <1>1, <1>2, <1>10, <1>11, <1>12, GoesOnFilled
<1>14. UsedStay
  BY <1>1, <1>10 DEF UsedStay, HandlerGoesOn, Keeps, n
<1> QED BY <1>13, <1>14

\* handleCsvFile: one cell, converted or missing.
LEMMA WriteCellFills == ASSUME IInv, FillOK, UNCHANGED <<options, leftover>>, WriteCell PROVE FillOK' /\ UsedStay
<1> DEFINE T == TypeOfCsvColumn(Column)
           missing == Text("missing", Place)
           cell == Text("cell", Place)
           v == IF ConvertCell(T, Column[csv.row]) = "missing"
                THEN addText(w, ARGUMENT_TYPE_SYMBOL, missing)
                ELSE IF T = "int64_t" THEN addNumber(w, ARGUMENT_TYPE_LONG, Place)
                ELSE IF T = "double_t" THEN addNumber(w, ARGUMENT_TYPE_DOUBLE, Place)
                ELSE addText(w, ARGUMENT_TYPE_STRING, cell)
           n == UsedAt(pos, csv.col, csv.row)
           L == Nest(At(pos).parser)
           N == Len(file[pos].table)
           R == RowCount(file[pos].table)
<1>1. InTable /\ csv.row > 0 /\ csv.row <= Len(file[pos].table[csv.col]) /\ HandlerGoesOn(csv.col, csv.row + 1, v)
  BY DEF WriteCell, Column, Table
<1>2. /\ HistoryOK /\ Complete /\ pos \in 1 .. Len(file) /\ WriterOK(w) /\ c \in Counters
      /\ stage = "write" /\ ~w.wild /\ IsCsv(file[pos]) /\ file[pos] \in Token
      /\ FilledTo(w, c, n) /\ w.nextExpr = ExpressionsAt(pos, csv.col, csv.row)
      /\ DOMAIN w.exprs = 0 .. c.expressionCount - 1
      /\ N \in Nat /\ R \in Nat /\ csv.col \in Nat \ {0} /\ csv.row \in Nat /\ w.layer # 0
      /\ csv.col <= N /\ L \in Nat
  BY <1>1, TablePlaced
<1>3. w.layer = L + 2
  BY <1>1, TablePlaced
<1>4. csv.col \in 1 .. N /\ csv.row \in 1 .. R
  <2>1. csv.col \in 1 .. N
    BY <1>2
  <2>2. Len(file[pos].table[csv.col]) = R
    BY <1>2, <2>1, ColumnLength
  <2> QED BY <1>1, <1>2, <2>1, <2>2
<1>5. UsedAt(pos, csv.col, csv.row + 1) = OneMore(n, L + 2) /\ n[L + 2] < c.perLayer[L + 2]
  BY <1>2, <1>4, TableSlots
<1>6. ExpressionsAt(pos, csv.col, csv.row + 1) = ExpressionsAt(pos, csv.col, csv.row)
  BY <1>2, <1>4, TableExpressions
<1>7. missing \in String /\ cell \in String /\ Place \in Seq(Nat)
  <2>1. "missing" \in Texts /\ "cell" \in Texts
    BY DEF Texts
  <2> QED BY <1>1, <2>1, InTableOK
<1> HIDE DEF T, missing, cell, n
<1>8. WriterOK(v) /\ Stored(w, v)
  <2>1. \/ v = addText(w, ARGUMENT_TYPE_SYMBOL, missing) \/ v = addText(w, ARGUMENT_TYPE_STRING, cell)
        \/ v = addNumber(w, ARGUMENT_TYPE_LONG, Place) \/ v = addNumber(w, ARGUMENT_TYPE_DOUBLE, Place)
    OBVIOUS
  <2> HIDE DEF v
  <2>2. NextArgumentIndex(w) \in DOMAIN w.types
    BY <1>2, <1>3, <1>5, IndexInBlock
  <2>3. Last(w.exprStack) \in DOMAIN w.exprs
    <3>1. w.layer \in Nat /\ Last(w.exprStack) = w.exprStack[w.layer + 1]
      BY <1>2, ArgIterOK
    <3>2. w.layer + 1 \in 2 .. w.layer + 1
      BY <1>2, <3>1
    <3> QED BY <1>2, <3>1, <3>2, SlotsCases DEF FilledTo
  <2>4. CASE v = addText(w, ARGUMENT_TYPE_SYMBOL, missing) \/ v = addText(w, ARGUMENT_TYPE_STRING, cell)
    <3>1. \A type \in Nat, text \in String : WriterOK(addText(w, type, text)) /\ Stored(w, addText(w, type, text))
      BY <1>2, <2>2, <2>3, AddTextOK, TextStores
    <3> QED BY <1>7, <2>4, <3>1, TagsOK
  <2>5. CASE v = addNumber(w, ARGUMENT_TYPE_LONG, Place) \/ v = addNumber(w, ARGUMENT_TYPE_DOUBLE, Place)
    <3>1. \A type \in Nat : WriterOK(addNumber(w, type, Place)) /\ Stored(w, addNumber(w, type, Place))
      BY <1>2, <1>7, <2>2, AddNumberOK, NumberStores
    <3> QED BY <2>5, <3>1, TagsOK
  <2> QED BY <2>1, <2>4, <2>5
<1> HIDE DEF v
<1>9. RoomFor(w, c, n)
  BY <1>2, <1>3, <1>5 DEF RoomFor
<1>10. FilledTo(v, c, OneMore(n, w.layer)) /\ ~v.wild /\ v.nextExpr = w.nextExpr /\ Keeps(w, v, c, n)
  BY <1>2, <1>8, <1>9, StoreFills
<1>11. csv.col <= N + 1 /\ csv.row + 1 <= R + 1 /\ csv.row + 1 \in Nat
  BY <1>2, <1>4
<1>12. FilledTo(v, c, UsedAt(pos, csv.col, csv.row + 1)) /\ v.nextExpr = ExpressionsAt(pos, csv.col, csv.row + 1)
       /\ DOMAIN v.exprs = 0 .. c.expressionCount - 1
  BY <1>2, <1>3, <1>5, <1>6, <1>10 DEF Keeps
<1>13. FillOK'
  BY <1>1, <1>2, <1>10, <1>11, <1>12, GoesOnFilled
<1>14. UsedStay
  BY <1>1, <1>10 DEF UsedStay, HandlerGoesOn, Keeps, n
<1> QED BY <1>13, <1>14

\* handleCsvFile: the end of a column, all of whose cells are written.
LEMMA WriteColumnEndFills ==
  ASSUME IInv, FillOK, UNCHANGED <<options, leftover>>, WriteColumnEnd
  PROVE  FillOK' /\ UsedStay
<1> DEFINE v == endExpression(w)
           n == UsedAt(pos, csv.col, csv.row)
           N == Len(file[pos].table)
           R == RowCount(file[pos].table)
<1>1. /\ InTable /\ csv.row > 0 /\ csv.row > Len(file[pos].table[csv.col])
      /\ HandlerGoesOn(csv.col + 1, 0, v)
  BY DEF WriteColumnEnd, Column, Table
<1>2. /\ HistoryOK /\ Complete /\ pos \in 1 .. Len(file) /\ WriterOK(w) /\ c \in Counters
      /\ stage = "write" /\ ~w.wild /\ IsCsv(file[pos]) /\ file[pos] \in Token
      /\ FilledTo(w, c, n) /\ w.nextExpr = ExpressionsAt(pos, csv.col, csv.row)
      /\ DOMAIN w.exprs = 0 .. c.expressionCount - 1
      /\ N \in Nat /\ R \in Nat /\ csv.col \in Nat \ {0} /\ csv.row \in Nat /\ w.layer # 0
      /\ csv.col <= N /\ csv.row <= R + 1
  BY <1>1, TablePlaced
<1>3. csv.col \in 1 .. N /\ csv.row = R + 1
  <2>1. csv.col \in 1 .. N
    BY <1>2
  <2>2. Len(file[pos].table[csv.col]) = R
    BY <1>2, <2>1, ColumnLength
  <2> QED BY <1>1, <1>2, <2>1, <2>2
<1>4. UsedAt(pos, csv.col + 1, 0) = n
  BY <1>2, <1>3, TableSlots
<1>5. ExpressionsAt(pos, csv.col + 1, 0) = ExpressionsAt(pos, csv.col, csv.row)
  BY <1>2, <1>3, TableExpressions
<1>6. w.layer >= 1
  BY <1>2, ArgIterOK
<1> HIDE DEF n
<1>7. /\ FilledTo(v, c, n) /\ v.wild = w.wild /\ v.nextExpr = w.nextExpr /\ v.args = w.args
      /\ DOMAIN v.exprs = DOMAIN w.exprs
  BY <1>2, <1>6, EndFills
<1> HIDE DEF v
<1>8. csv.col + 1 \in Nat \ {0} /\ csv.col + 1 <= N + 1 /\ 0 \in Nat /\ ~(0 > 0)
  BY <1>2
<1>9. FillOK'
  BY <1>1, <1>2, <1>4, <1>5, <1>7, <1>8, GoesOnFilled
<1>10. UsedStay
  BY <1>1, <1>7 DEF UsedStay, HandlerGoesOn
<1> QED BY <1>9, <1>10

\* handleCsvFile: the end of the table, all of whose columns are written.
LEMMA WriteTableEndFills ==
  ASSUME IInv, FillOK, UNCHANGED <<options, leftover>>, WriteTableEnd
  PROVE  FillOK' /\ UsedStay
<1> DEFINE u == endExpression(w)
           v == handleKeyValueEnd(u)
           n == UsedAt(pos, csv.col, csv.row)
           N == Len(file[pos].table)
<1>1. InTable /\ csv.row = 0 /\ csv.col > N /\ HandlerReturns(v)
  BY DEF WriteTableEnd, Table
<1>2. /\ HistoryOK /\ Complete /\ pos \in 1 .. Len(file) /\ WriterOK(w) /\ c \in Counters
      /\ stage = "write" /\ ~w.wild /\ IsCsv(file[pos])
      /\ FilledTo(w, c, n) /\ w.nextExpr = ExpressionsAt(pos, csv.col, csv.row)
      /\ DOMAIN w.exprs = 0 .. c.expressionCount - 1
      /\ N \in Nat /\ csv.col \in Nat \ {0} /\ w.layer # 0 /\ csv.col <= N + 1
      /\ 0 \notin w.keyValue
  BY <1>1, TablePlaced
<1>3. csv.col = N + 1
  BY <1>1, <1>2
<1>4. UsedAt(pos + 1, 0, 0) = n
  BY <1>1, <1>2, <1>3, TableSlots
<1>5. ExpressionsAt(pos + 1, 0, 0) = ExpressionsAt(pos, csv.col, csv.row)
  BY <1>1, <1>2, <1>3, TableExpressions
<1>6. w.layer >= 1
  BY <1>2, ArgIterOK
<1> HIDE DEF n
<1>7. /\ FilledTo(u, c, n) /\ u.wild = w.wild /\ u.nextExpr = w.nextExpr /\ u.args = w.args
      /\ DOMAIN u.exprs = DOMAIN w.exprs
  BY <1>2, <1>6, EndFills
<1>8. WriterOK(u) /\ u.keyValue = w.keyValue
  BY <1>2, <1>6, EndOK
<1> HIDE DEF u
<1>9. /\ FilledTo(v, c, n) /\ ~v.wild /\ v.nextExpr = u.nextExpr /\ v.args = u.args
      /\ DOMAIN v.exprs = DOMAIN u.exprs
  BY <1>2, <1>7, <1>8, KeyEndFills
<1> HIDE DEF v
<1>10. FillOK'
  BY <1>1, <1>2, <1>4, <1>5, <1>7, <1>9, ReturnsFilled
<1>11. UsedStay
  BY <1>1, <1>7, <1>9 DEF UsedStay, HandlerReturns
<1> QED BY <1>10, <1>11

(***************************************************************************)
(* The invariant.                                                          *)
(***************************************************************************)
LEMMA InitFills == Init => FillOK
BY DEF Init, FillOK, Built

\* A step that leaves the writer where it is.
LEMMA StageFills ==
  ASSUME IInv, FillOK, UNCHANGED <<options, leftover, file, parser, c, seen, pos, csv, w>>,
         \/ stage' = stage
         \/ stage = "count" /\ stage' = "failed"
         \/ stage = "write" /\ csv.col > 0 /\ stage' = "failed"
         \/ stage = "write" /\ stage' = "done" /\ ~w.wild /\ pos = Len(file) + 1 /\ csv.col = 0
  PROVE  FillOK'
<1>1. stage = "count" => csv.col = 0
  BY DEF IInv, PlaceOK
<1>2. Built' = Built
  <2>1. csv'.col = csv.col
    OBVIOUS
  <2>2. stage = "count" => ~(csv.col > 0)
    BY <1>1
  <2> QED BY <2>1, <2>2 DEF Built
<1>3. UsedAt(pos, csv.col, csv.row)' = UsedAt(pos, csv.col, csv.row)
  BY DEF UsedAt, Tabled, Begun, Cells, At
<1>4. ExpressionsAt(pos, csv.col, csv.row)' = ExpressionsAt(pos, csv.col, csv.row)
  BY DEF ExpressionsAt, Begun, At
<1>5. /\ (stage' = "write" => stage = "write")
      /\ (stage' = "done" => ~w.wild /\ pos = Len(file) + 1 /\ csv.col = 0)
  BY DEF FillOK
<1>6. w' = w /\ c' = c /\ pos' = pos /\ csv' = csv /\ file' = file
  OBVIOUS
<1>7. /\ (~Built => w = NoBlock)
      /\ (Built => /\ DOMAIN w.exprs = 0 .. c.expressionCount - 1
                   /\ c.expressionCount > 0 => ~w.wild
                   /\ ~w.wild => /\ FilledTo(w, c, UsedAt(pos, csv.col, csv.row))
                                 /\ w.nextExpr = ExpressionsAt(pos, csv.col, csv.row))
  BY DEF FillOK
<1>8. /\ ~Built' => w' = NoBlock
      /\ Built' => /\ DOMAIN w'.exprs = 0 .. c'.expressionCount - 1
                   /\ c'.expressionCount > 0 => ~w'.wild
                   /\ ~w'.wild => /\ FilledTo(w', c', UsedAt(pos, csv.col, csv.row)')
                                  /\ w'.nextExpr = ExpressionsAt(pos, csv.col, csv.row)'
  BY <1>2, <1>3, <1>4, <1>6, <1>7
<1>9. stage' = "write" /\ csv'.col > 0 =>
        /\ csv'.col <= Len(file'[pos'].table) + 1
        /\ csv'.row > 0 => csv'.col <= Len(file'[pos'].table) /\ csv'.row <= RowCount(file'[pos'].table) + 1
  BY <1>5, <1>6 DEF FillOK
<1>10. stage' = "write" /\ pos' = 1 /\ csv'.col = 0 => w' = NewWriter(c', leftover') /\ CleanRoot'
  BY <1>5, <1>6 DEF FillOK, CleanRoot
<1>11. stage' = "done" => ~w'.wild /\ pos' = Len(file') + 1 /\ csv'.col = 0
  BY <1>5, <1>6
<1> QED BY <1>8, <1>9, <1>10, <1>11 DEF FillOK

\* The first traversal writes nothing.
LEMMA ParseFills ==
  ASSUME IInv, FillOK, NEW event, NEW table, NEW p, NEW k, Parse(event, table, p, k)
  PROVE  FillOK' /\ w' = w
<1>1. stage = "count" /\ stage' = "count" /\ w' = w
  BY DEF Parse
<1>2. ~Built /\ ~Built'
  BY <1>1 DEF Built
<1> QED BY <1>1, <1>2 DEF FillOK

\* Its end allocates a block of which no slot is in use.
LEMMA CountFills ==
  ASSUME IInv, FillOK, CleanRoot, UNCHANGED <<options, leftover>>, CountNext
  PROVE  FillOK' /\ (w' = w \/ w = NoBlock)
<1>1. ASSUME \E event, table, p, k : Parse(event, table, p, k) PROVE FillOK' /\ w' = w
  BY <1>1, ParseFills
<1>2. CASE CountKeyEvent
  BY <1>1, <1>2 DEF CountKeyEvent
<1>3. CASE CountStartEvent
  BY <1>1, <1>3 DEF CountStartEvent
<1>4. CASE CountEndEvent
  BY <1>1, <1>4 DEF CountEndEvent
<1>5. CASE CountValueEvent
  BY <1>1, <1>5 DEF CountValueEvent
<1>6. CASE CountFails
  BY <1>6, StageFills DEF CountFails
<1>7. CASE Construct
  <2>1. /\ stage = "count" /\ Complete /\ stage' = "write" /\ w' = NewWriter(c, leftover)
        /\ file' = file /\ parser' = parser /\ c' = c /\ seen' = seen /\ pos' = pos /\ csv' = csv
    BY <1>7 DEF Construct
  <2>2. pos = 1 /\ csv.col = 0 /\ HistoryOK
    BY <2>1 DEF IInv, PlaceOK
  <2>3. c \in Counters /\ Len(file) \in Nat /\ Len(file) > 0
    BY <2>1, <2>2, Counted
  <2>4. 0 \in DOMAIN c.perLayer
    <3>1. Len(file) + 1 \in 1 .. Len(file) + 1 /\ At(Len(file) + 1).c = c
      BY <2>1, <2>2, <2>3, Counted
    <3>2. 1 \in 1 .. Len(file)
      BY <2>3
    <3>3. Nest(At(1).parser) \in DOMAIN c.perLayer
      BY <2>1, <2>2, <3>2, EventCounts
    <3>4. Nest(At(1).parser) = 0
      BY <2>2 DEF HistoryOK, Nest, Blank
    <3> QED BY <3>3, <3>4
  <2>5. At(1).c = InitCounters
    BY <2>2 DEF HistoryOK
  <2>6. UsedAt(1, 0, csv.row) = [l \in DOMAIN c.perLayer |-> 0]
    <3>1. \A l : Count(At(1).c.perLayer, l) = 0 /\ Tabled(1, 0, csv.row, l) = 0
      BY <2>5 DEF Count, InitCounters, Tabled
    <3> QED BY <3>1 DEF UsedAt
  <2>7. ExpressionsAt(1, 0, csv.row) = 0
    BY <2>5 DEF ExpressionsAt, InitCounters
  <2>8. /\ UsedAt(pos, csv.col, csv.row)' = UsedAt(1, 0, csv.row)
        /\ ExpressionsAt(pos, csv.col, csv.row)' = ExpressionsAt(1, 0, csv.row)
    BY <2>1, <2>2 DEF UsedAt, ExpressionsAt, Tabled, Begun, Cells, At
  <2>9. /\ FilledTo(w', c, [l \in DOMAIN c.perLayer |-> 0]) /\ w'.nextExpr = 0
        /\ DOMAIN w'.exprs = 0 .. c.expressionCount - 1 /\ ~w'.wild
    <3>1. /\ FilledTo(NewWriter(c, leftover), c, [l \in DOMAIN c.perLayer |-> 0])
          /\ NewWriter(c, leftover).nextExpr = 0
      BY <2>3, <2>4, NewFilled DEF CleanRoot
    <3>2. ~NewWriter(c, leftover).wild /\ DOMAIN NewWriter(c, leftover).exprs = 0 .. c.expressionCount - 1
      BY DEF NewWriter, Filled
    <3> QED BY <2>1, <3>1, <3>2
  <2>10. Built' /\ ~Built
    BY <2>1 DEF Built
  <2>11. w = NoBlock
    BY <2>10 DEF FillOK
  <2>12. csv'.col = 0 /\ ~(csv'.col > 0)
    BY <2>1, <2>2
  <2>13. FillOK'
    BY <2>1, <2>6, <2>7, <2>8, <2>9, <2>10, <2>12 DEF FillOK, CleanRoot
  <2> QED BY <2>11, <2>13
<1> QED BY <1>2, <1>3, <1>4, <1>5, <1>6, <1>7 DEF CountNext

\* The second traversal fills the block, and keeps what it has filled.
LEMMA WriteFills ==
  ASSUME IInv, FillOK, UNCHANGED <<options, leftover>>, WriteNext
  PROVE  FillOK' /\ (w' = w \/ (~w.wild /\ UsedStay))
<1>1. CASE WriteFails
  BY <1>1, StageFills DEF WriteFails, InTable
<1>2. CASE Finish
  <2>1. /\ stage = "write" /\ ~w.wild /\ pos > Len(file) /\ stage' = "done"
        /\ UNCHANGED <<file, parser, c, seen, pos, csv, w>>
    BY <1>2 DEF Finish
  <2>2. pos \in 1 .. Len(file) + 1 /\ (csv.col > 0 => pos <= Len(file)) /\ csv.col \in Nat /\ HistoryOK /\ Complete
    BY <2>1 DEF IInv, PlaceOK
  <2>3. Len(file) \in Nat
    BY <2>2, Counted
  <2>4. pos = Len(file) + 1 /\ csv.col = 0
    BY <2>1, <2>2, <2>3
  <2> QED BY <2>1, <2>4, StageFills
<1>3. ASSUME WriteNext, ~WriteFails, ~Finish PROVE ~w.wild
  BY <1>3 DEF WriteNext, WriteSymbol, WriteNumber, WriteString, WriteStart, WriteEnd, WriteKey, WriteTableStart,
              WriteColumnStart, WriteCell, WriteColumnEnd, WriteTableEnd, Event, InTable
<1> QED BY <1>1, <1>2, <1>3, WriteSymbolFills, WriteNumberFills, WriteStringFills, WriteStartFills, WriteEndFills,
           WriteKeyFills, WriteTableStartFills, WriteColumnStartFills, WriteCellFills, WriteColumnEndFills,
           WriteTableEndFills DEF WriteNext

BlockInv == IInv /\ FillOK /\ CleanRoot

\* What the memory held is history.
LEMMA RootStays == [Next]_vars => (CleanRoot' <=> CleanRoot)
BY DEF CleanRoot, Next, vars

\* Every step of a load keeps both invariants.
LEMMA BlockStep ==
  ASSUME BlockInv, [Next]_vars
  PROVE  BlockInv' /\ (w' = w \/ w = NoBlock \/ (~w.wild /\ UsedStay))
<1>1. IInv /\ FillOK /\ CleanRoot /\ IInv' /\ CleanRoot'
  BY StepInv, RootStays DEF BlockInv
<1>2. CASE UNCHANGED vars
  BY <1>1, <1>2, StageFills DEF vars, BlockInv
<1>3. CASE Next
  <2>1. UNCHANGED <<options, leftover>>
    BY <1>3 DEF Next
  <2>2. CASE CountNext
    BY <1>1, <2>1, <2>2, CountFills DEF BlockInv
  <2>3. CASE WriteNext
    BY <1>1, <2>1, <2>3, WriteFills DEF BlockInv
  <2>4. CASE Returned
    BY <1>1, <2>1, <2>4, StageFills DEF Returned, BlockInv
  <2> QED BY <1>3, <2>2, <2>3, <2>4 DEF Next
<1> QED BY <1>2, <1>3

\* They hold in every state of a load.
LEMMA InvBlock == Spec => [](CleanRoot => BlockInv)
<1>1. Init => (CleanRoot => BlockInv)
  BY InitInv, InitFills DEF BlockInv
<1>2. (CleanRoot => BlockInv) /\ [Next]_vars => (CleanRoot => BlockInv)'
  BY BlockStep, RootStays
<1> QED BY <1>1, <1>2, PTL DEF Spec

(***************************************************************************)
(* What the invariant says of the block.                                   *)
(***************************************************************************)
\* The slices of the properties are those of the invariant.
LEMMA SlotsAgree ==
  ASSUME IInv
  PROVE  (\A e : Slots(e) = SlotsOf(w, e)) /\ Expressions \cup {-1} = Ids(w) /\ c \in Counters
<1>1. w \in Writer /\ CountersOK(parser, c)
  <2>1. HistoryOK /\ Len(file) \in Nat
    BY DEF IInv, HistoryOK
  <2>2. Len(file) + 1 \in 1 .. Len(file) + 1 /\ ~(Len(file) + 1 <= Len(file))
    BY <2>1
  <2>3. At(Len(file) + 1) = [parser |-> parser, c |-> c]
    BY <2>2 DEF At
  <2> QED BY <2>1, <2>2, <2>3 DEF IInv, HistoryOK, WriterOK
<1>2. w.nextExpr \in Nat
  BY <1>1 DEF Writer
<1>3. Expressions \cup {-1} = Ids(w)
  BY <1>2 DEF Expressions, Ids
<1>4. \A e : Slots(e) = SlotsOf(w, e)
  BY DEF Slots, SlotsOf, StartSlot, StartOf, EndSlot, EndOf, OpenAt, OpenIn
<1> QED BY <1>1, <1>3, <1>4 DEF CountersOK

\* Before the constructor ran there is nothing to read.
LEMMA EmptyBlock ==
  ASSUME IInv, w = NoBlock
  PROVE  Expressions \cup {-1} = {-1} /\ Slots(-1) = {} /\ ~w.wild /\ w.exprs = Filled(0, 0)
<1>1. w.nextExpr = 0 /\ w.argIter = <<0>> /\ ~w.wild /\ w.exprs = Filled(0, 0)
  BY DEF NoBlock
<1>2. Slots(-1) = 0 .. 0 - 1
  BY <1>1 DEF Slots, StartSlot, EndSlot
<1> QED BY <1>1, <1>2 DEF Expressions

\* For every document that has an expression, every CSV file and every
\* setting of the options: none of the handlers, which have no bounds check,
\* stores outside the block that the constructor sized from the counts, if
\* its memory is new or the one word that is read of it before it is written
\* was zero (CleanRoot), as the theorems below say too.
THEOREM LoadStaysInBlock == Spec => []StoresInBlock
<1>1. (CleanRoot => BlockInv) => StoresInBlock
  <2> SUFFICES ASSUME BlockInv, w.wild PROVE w.exprs = Filled(0, 0)
    BY DEF StoresInBlock
  <2>1. IInv /\ FillOK /\ c \in Counters /\ w \in Writer
    BY SlotsAgree DEF BlockInv, IInv, WriterOK
  <2>2. CASE ~Built
    BY <2>1, <2>2, EmptyBlock DEF FillOK
  <2>3. CASE Built
    <3>1. DOMAIN w.exprs = 0 .. c.expressionCount - 1 /\ ~(c.expressionCount > 0) /\ c.expressionCount \in Nat
      BY <2>1, <2>3 DEF FillOK, Counters
    <3>2. DOMAIN w.exprs = 0 .. 0 - 1
      BY <3>1
    <3>3. PICK n \in Nat : w.exprs \in [0 .. n - 1 -> Expression]
      BY <2>1 DEF Writer, Vector
    <3>4. w.exprs = [i \in 0 .. 0 - 1 |-> w.exprs[i]]
      BY <3>2, <3>3
    <3>5. \A i \in 0 .. 0 - 1 : w.exprs[i] = 0
      OBVIOUS
    <3>6. w.exprs = [i \in 0 .. 0 - 1 |-> 0]
      BY <3>4, <3>5
    <3> QED BY <3>6 DEF Filled
  <2> QED BY <2>2, <2>3
<1> QED BY <1>1, InvBlock, PTL

\* For every document, given CleanRoot: the slices that startExpression and endExpression cut
\* out of the Argument Vector never share an argument, those of the
\* expressions still open included.
THEOREM SlicesNeverMeet == Spec => []SlicesDisjoint
<1>1. (CleanRoot => BlockInv) => SlicesDisjoint
  <2> SUFFICES ASSUME BlockInv, ~w.wild, NEW e \in Expressions \cup {-1}, NEW f \in Expressions \cup {-1}, e # f
               PROVE  Slots(e) \cap Slots(f) = {}
    BY DEF SlicesDisjoint
  <2>1. IInv /\ FillOK /\ Slots(e) = SlotsOf(w, e) /\ Slots(f) = SlotsOf(w, f) /\ Expressions \cup {-1} = Ids(w)
    BY SlotsAgree DEF BlockInv
  <2>2. Built
    BY <2>1, EmptyBlock DEF FillOK
  <2>3. FilledTo(w, c, UsedAt(pos, csv.col, csv.row))
    BY <2>1, <2>2 DEF FillOK
  <2> QED BY <2>1, <2>3 DEF FilledTo, Sliced
<1> QED BY <1>1, InvBlock, PTL

\* For every document, given CleanRoot: when load returns, every argument and every expression
\* that the first traversal counted has been written.
THEOREM LoadFillsBlock == Spec => []BlockFilled
<1>1. (CleanRoot => BlockInv) => BlockFilled
  <2> SUFFICES ASSUME BlockInv, stage = "done"
               PROVE  /\ w.nextExpr = c.expressionCount
                      /\ DOMAIN w.types = UNION {Slots(e) : e \in Expressions \cup {-1}}
    BY DEF BlockFilled
  <2>1. IInv /\ FillOK /\ (\A e : Slots(e) = SlotsOf(w, e)) /\ Expressions \cup {-1} = Ids(w) /\ c \in Counters
    BY SlotsAgree DEF BlockInv
  <2>2. ~w.wild /\ pos = Len(file) + 1 /\ csv.col = 0 /\ HistoryOK /\ Complete
    BY <2>1 DEF FillOK, IInv, PlaceOK
  <2>3. FilledTo(w, c, UsedAt(pos, csv.col, csv.row)) /\ w.nextExpr = ExpressionsAt(pos, csv.col, csv.row)
    BY <2>1, <2>2 DEF FillOK, Built
  <2>4. At(pos).c = c /\ c.expressionCount \in Nat /\ c.perLayer \in Layers
        /\ \A l \in DOMAIN c.perLayer : Count(c.perLayer, l) = c.perLayer[l] /\ c.perLayer[l] \in Nat
    BY <2>1, <2>2, Counted DEF Counters
  <2>5. ExpressionsAt(pos, csv.col, csv.row) = c.expressionCount
    BY <2>2, <2>4 DEF ExpressionsAt
  <2>6. UsedAt(pos, csv.col, csv.row) = c.perLayer
    <3>1. \A l \in DOMAIN c.perLayer : Count(At(pos).c.perLayer, l) + Tabled(pos, csv.col, csv.row, l) = c.perLayer[l]
      BY <2>2, <2>4 DEF Tabled
    <3>2. c.perLayer = [l \in DOMAIN c.perLayer |-> c.perLayer[l]]
      BY <2>4 DEF Layers, Vector
    <3> QED BY <3>1, <3>2 DEF UsedAt
  <2>7. DOMAIN w.types = Used(c, c.perLayer) /\ Sliced(w, Ids(w), Used(c, c.perLayer))
    BY <2>3, <2>6 DEF FilledTo, ShapeOK
  <2>8. DOMAIN w.types = UNION {Slots(e) : e \in Expressions \cup {-1}}
    BY <2>1, <2>7 DEF Sliced
  <2> QED BY <2>3, <2>5, <2>8
<1> QED BY <1>1, InvBlock, PTL

\* For every document, given CleanRoot: no handler overwrites an argument that
\* an earlier one has written, in the expressions that are closed or in those still open.
THEOREM WrittenArgumentsStay == Spec => ArgumentsStay
<1> DEFINE A == CleanRoot /\ w.args # <<>> => \A e \in Expressions \cup {-1} : \A i \in Slots(e) : w'.args[i] = w.args[i]
<1>1. ASSUME CleanRoot => BlockInv, [Next]_vars PROVE A
  <2> SUFFICES ASSUME BlockInv, NEW e \in Expressions \cup {-1}, NEW i \in Slots(e) PROVE w'.args[i] = w.args[i]
    BY <1>1
  <2>1. IInv /\ FillOK /\ Slots(e) = SlotsOf(w, e) /\ Expressions \cup {-1} = Ids(w)
    BY <1>1, SlotsAgree DEF BlockInv
  <2>2. w # NoBlock
    BY <2>1, EmptyBlock
  <2>3. w' = w \/ (~w.wild /\ UsedStay)
    BY <1>1, <2>2, BlockStep
  <2>4. CASE ~w.wild /\ UsedStay
    <3>1. Built
      BY <2>1, <2>2 DEF FillOK
    <3>2. FilledTo(w, c, UsedAt(pos, csv.col, csv.row))
      BY <2>1, <2>4, <3>1 DEF FillOK
    <3>3. i \in Used(c, UsedAt(pos, csv.col, csv.row))
      BY <2>1, <3>2 DEF FilledTo, Sliced
    <3> QED BY <2>4, <3>3 DEF UsedStay
  <2>5. CASE w' = w
    BY <2>5
  <2> QED BY <2>3, <2>4, <2>5
<1>2. (CleanRoot => BlockInv) /\ [Next]_vars => [A]_vars
  BY <1>1
<1> HIDE DEF A
<1>3. Spec => [][A]_vars
  BY <1>2, InvBlock, PTL DEF Spec
<1> QED BY <1>3 DEF ArgumentsStay, A
=============================================================================
