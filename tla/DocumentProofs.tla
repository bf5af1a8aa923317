---------------------------- MODULE DocumentProofs ----------------------------
(***************************************************************************)
(* The block tells the document: every handler of the second traversal is  *)
(* a step of ExpressionTree on the tree that is read of the block, in      *)
(* every state of a load, for every document, every CSV file and all its   *)
(* options. From the invariant, that the runs of types stay inside their   *)
(* slices.                                                                 *)
(***************************************************************************)
EXTENDS TreeProofs

(***************************************************************************)
(* The tree of the properties, now and after a step.                       *)
(***************************************************************************)
Path == [k \in 1 .. Len(w.exprStack) |-> IF k = 1 THEN 1 ELSE w.exprStack[k] + 2]

\* The nodes and the path of the properties are those of the lemmas.
LEMMA TreeNow == WriterOK(w) => ReadNodes = NodesOf(w) /\ Path = PathOf(w)
BY TreeOf DEF Path

\* They are in the next state.
LEMMA TreeNext == ASSUME WriterOK(w') PROVE ReadNodes' = NodesOf(w') /\ Path' = PathOf(w')
<1>1. (WriterOK(w) => ReadNodes = NodesOf(w) /\ Path = PathOf(w))'
  BY TreeNow, PTL
<1> QED BY <1>1

\* Last and Front in the instance of ExpressionTree.
LEMMA TreeEnds == \A s : Tree!Last(s) = Last(s) /\ Tree!Front(s) = Front(s)
BY DEF Last, Front, Tree!Last, Tree!Front

\* Between two events the slices share no slot.
LEMMA ApartNow == BlockInv /\ Built /\ ~w.wild => WriterOK(w) /\ Apart(w)
<1> SUFFICES ASSUME BlockInv, Built, ~w.wild PROVE WriterOK(w) /\ Apart(w)
  OBVIOUS
<1>1. IInv /\ FilledTo(w, c, UsedAt(pos, csv.col, csv.row))
  BY DEF BlockInv, FillOK
<1>2. c \in Counters /\ WriterOK(w)
  BY <1>1, SlotsAgree DEF IInv
<1> QED BY <1>1, <1>2, FilledApart

\* After a handler they share none either.
LEMMA ApartNext ==
  ASSUME BlockInv', NEW v, w' = v, ~v.wild, stage = "write", stage' = stage
  PROVE  WriterOK(v) /\ Apart(v)
<1>1. (BlockInv /\ Built /\ ~w.wild => WriterOK(w) /\ Apart(w))'
  BY ApartNow, PTL
<1>2. Built'
  BY DEF Built
<1> QED BY <1>1, <1>2

(***************************************************************************)
(* The invariant, and what a step of the writer does to the tree.          *)
(***************************************************************************)
LegibleOK == ~w.wild => Legible(w)
RowsOK == csv.col = 0 => csv.row = 0
TypedOK == stage = "write" /\ csv.row > 0 => TypeOfCsvColumn(Column) # "exception"
TreeOK == LegibleOK /\ RowsOK /\ TypedOK

TreeStep == TreeOK' /\ (w'.wild \/ Tree!Next)

\* The kid that an event is.
KidOf(event, kid) ==
  /\ event \in {"null", "boolean"} => kid = [type |-> "Symbol", value |-> Text(event, Place)]
  /\ event = "integer" => kid = [type |-> "Long", value |-> Text("number", Place)]
  /\ event = "float" => kid = [type |-> "Double", value |-> Text("number", Place)]
  /\ event \in {"string", "longstring", "csv"} => kid = [type |-> "String", value |-> Text(event, Place)]

\* A handler that returns a legible block keeps the invariant.
LEMMA ReturnsTell ==
  ASSUME UNCHANGED <<options, leftover>>, NEW v, HandlerReturns(v), ~v.wild => Legible(v)
  PROVE  TreeOK'
<1>1. w' = v /\ csv' = [col |-> 0, row |-> 0] /\ pos' = pos + 1 /\ stage' = stage
  BY DEF HandlerReturns
<1>2. RowsOK'
  BY <1>1 DEF RowsOK
<1>3. TypedOK'
  BY <1>1 DEF TypedOK
<1>4. LegibleOK'
  BY <1>1 DEF LegibleOK, Legible, RunOff
<1> QED BY <1>2, <1>3, <1>4 DEF TreeOK

\* A handler of a value that is a leaf adds the leaf.
LEMMA LeafTells ==
  ASSUME BlockInv, TreeOK, BlockInv', UNCHANGED <<options, leftover>>, NEW events, Event(events),
         events \cap {"key", "object", "array", "end"} = {}, ~IsCsv(file[pos]),
         NEW v, HandlerReturns(v), NEW kid, KidOf(file[pos].event, kid), ~v.wild => Legible(v) /\ Leafed(w, v, kid)
  PROVE  TreeStep
<1>1. /\ w' = v /\ csv' = [col |-> 0, row |-> 0] /\ pos' = pos + 1 /\ stage' = stage /\ file' = file
      /\ stage = "write"
  BY DEF HandlerReturns, Event
<1>2. TreeOK'
  BY ReturnsTell
<1>3. ASSUME ~v.wild PROVE Tree!Next
  <2>1. WriterOK(v)
    BY <1>1, <1>3, ApartNext
  <2>2. WriterOK(w) /\ pos <= Len(file) /\ file[pos].event \in events
    BY EventOK DEF BlockInv
  <2>3. ReadNodes = NodesOf(w) /\ Path = PathOf(w)
    BY <2>2, TreeNow
  <2>4. ReadNodes' = NodesOf(v) /\ Path' = PathOf(v)
    BY <1>1, <2>1, TreeNext
  <2>5. /\ ReadNodes' = [ReadNodes EXCEPT ![Last(Path)].kids = Append(@, kid)]
        /\ Path' = Outer(Path, ReadNodes)
    BY <1>3, <2>3, <2>4 DEF Leafed
  <2>6. csv = [col |-> 0, row |-> 0]
    <3>1. csv \in [col : Nat, row : Nat]
      BY DEF BlockInv, IInv, PlaceOK
    <3>2. csv.col = 0 /\ csv.row = 0
      BY DEF Event, TreeOK, RowsOK
    <3> QED BY <3>1, <3>2
  <2>7. /\ file[pos].event \in {"null", "boolean", "integer", "float", "string", "longstring", "csv"}
        /\ file[pos].event = "csv" => options.disableCsvHandling
    <3>1. file[pos] \in Token
      BY <2>2, AtEvent DEF BlockInv
    <3>2. file[pos].event \in Leaves
      BY <2>2, <3>1 DEF Token
    <3> QED BY <3>2, LoadAssumption DEF IsCsv
  <2>8. Tree!AddLeaf(kid.type, kid.value)
    <3>1. kid = [type |-> kid.type, value |-> kid.value]
      BY <2>7 DEF KidOf
    <3> QED BY <2>5, <3>1, TreeEnds DEF Tree!AddLeaf, Tree!Added, Path
  <2>9. Path' = Tree!Outside(Path, ReadNodes)
    BY <2>5, TreeEnds DEF Outer, Tree!Outside
  <2>10. Tree!ReadLeaf
    <3>1. Tree!Text(file[pos].event) = Text(file[pos].event, Place) /\ Tree!Text("number") = Text("number", Place)
      BY DEF Tree!Text, Text, Place
    <3>2. CASE file[pos].event \in {"null", "boolean"}
      <4>1. Tree!AddLeaf("Symbol", Tree!Text(file[pos].event))
        BY <2>8, <3>1, <3>2 DEF KidOf
      <4> QED BY <1>1, <2>2, <2>6, <2>7, <2>9, <3>2, <4>1 DEF Tree!ReadLeaf, Tree!Reading, Tree!Advance, Tree!Idle, Path
    <3>3. CASE file[pos].event = "integer"
      <4>1. Tree!AddLeaf("Long", Tree!Text("number"))
        BY <2>8, <3>1, <3>3 DEF KidOf
      <4> QED BY <1>1, <2>2, <2>6, <2>7, <2>9, <3>3, <4>1 DEF Tree!ReadLeaf, Tree!Reading, Tree!Advance, Tree!Idle, Path
    <3>4. CASE file[pos].event = "float"
      <4>1. Tree!AddLeaf("Double", Tree!Text("number"))
        BY <2>8, <3>1, <3>4 DEF KidOf
      <4> QED BY <1>1, <2>2, <2>6, <2>7, <2>9, <3>4, <4>1 DEF Tree!ReadLeaf, Tree!Reading, Tree!Advance, Tree!Idle, Path
    <3>5. CASE file[pos].event \in {"string", "longstring", "csv"}
      <4>1. Tree!AddLeaf("String", Tree!Text(file[pos].event))
        BY <2>8, <3>1, <3>5 DEF KidOf
      <4> QED BY <1>1, <2>2, <2>6, <2>7, <2>9, <3>5, <4>1 DEF Tree!ReadLeaf, Tree!Reading, Tree!Advance, Tree!Idle, Path
    <3> QED BY <2>7, <3>2, <3>3, <3>4, <3>5
  <2> QED BY <1>1, <2>10 DEF Tree!Next
<1> QED BY <1>1, <1>2, <1>3 DEF TreeStep

(***************************************************************************)
(* Values.                                                                 *)
(***************************************************************************)
LEMMA ValueReady ==
  ASSUME BlockInv, TreeOK, NEW events, Event(events), events \cap {"key", "object", "array", "end"} = {},
         ~IsCsv(file[pos])
  PROVE  /\ Ready(w) /\ RoomFor(w, c, UsedAt(pos, 0, 0)) /\ FilledTo(w, c, UsedAt(pos, 0, 0)) /\ c \in Counters
         /\ WriterOK(w) /\ ~w.wild /\ 0 \notin w.keyValue /\ pos <= Len(file) /\ file[pos].event \in events
<1> DEFINE n == UsedAt(pos, 0, 0)
<1>1. /\ HistoryOK /\ Complete /\ pos \in 1 .. Len(file) /\ WriterOK(w) /\ c \in Counters /\ ~w.wild
      /\ file[pos].event \in events /\ FilledTo(w, c, n) /\ w.layer = Nest(At(pos).parser)
      /\ 0 \notin w.keyValue
      /\ w.layer = 0 => StartChildOffset(w, Last(w.exprStack)) = 0
  BY EventPlaced DEF BlockInv
<1>2. n[w.layer] < c.perLayer[w.layer]
  BY <1>1, EventSlots
<1>3. Legible(w) /\ pos <= Len(file)
  BY <1>1, EventOK DEF TreeOK, LegibleOK, BlockInv
<1> HIDE DEF n
<1>4. RoomFor(w, c, n)
  BY <1>1, <1>2 DEF RoomFor
<1> QED BY <1>1, <1>3, <1>4, RoomReady DEF n

\* One that stores one argument keeps the slices apart.
LEMMA StoredApart ==
  ASSUME BlockInv, TreeOK, NEW events, Event(events), events \cap {"key", "object", "array", "end"} = {},
         ~IsCsv(file[pos]), NEW u, WriterOK(u), Stored(w, u)
  PROVE  Apart(u) /\ ~u.wild /\ FilledTo(u, c, OneMore(UsedAt(pos, 0, 0), w.layer)) /\ 0 \notin u.keyValue
<1> DEFINE n == UsedAt(pos, 0, 0)
<1>1. /\ RoomFor(w, c, n) /\ FilledTo(w, c, n) /\ c \in Counters /\ WriterOK(w) /\ ~w.wild /\ 0 \notin w.keyValue
  BY ValueReady
<1> HIDE DEF n
<1>2. FilledTo(u, c, OneMore(n, w.layer)) /\ ~u.wild
  BY <1>1, StoreFills
<1>3. 0 \notin u.keyValue
  BY <1>1 DEF Stored, OneStored
<1> QED BY <1>1, <1>2, <1>3, FilledApart DEF n

\* A value stored, and its key ended, is a leaf of the tree.
LEMMA ValueTells ==
  ASSUME BlockInv, TreeOK, BlockInv', UNCHANGED <<options, leftover>>, NEW events, Event(events),
         events \cap {"key", "object", "array", "end"} = {}, ~IsCsv(file[pos]),
         NEW u, WriterOK(u), HandlerReturns(handleKeyValueEnd(u)), NEW kid, KidOf(file[pos].event, kid),
         u.wild \/ (Stored(w, u) /\ Legible(u) /\ Argued(w, u, kid))
  PROVE  TreeStep
<1> DEFINE r == handleKeyValueEnd(u)
<1>1. CASE u.wild
  <2>1. r.wild
    BY <1>1, KeyEndWild DEF WriterOK
  <2> HIDE DEF r
  <2>2. HandlerReturns(r)
    BY DEF r
  <2>3. ~r.wild => Legible(r) /\ Leafed(w, r, kid)
    BY <2>1
  <2> QED BY <2>2, <2>3, LeafTells
<1>2. CASE Stored(w, u) /\ Legible(u) /\ Argued(w, u, kid)
  <2>1. /\ ~u.wild /\ FilledTo(u, c, OneMore(UsedAt(pos, 0, 0), w.layer)) /\ 0 \notin u.keyValue
        /\ WriterOK(w) /\ Apart(w) /\ c \in Counters
    BY <1>2, StoredApart, ValueReady DEF Ready
  <2>2. Legible(r) /\ Returns(u, r)
    BY <1>2, <2>1, KeyEndReads
  <2> HIDE DEF r
  <2>3. Leafed(w, r, kid)
    BY <1>2, <2>1, <2>2, ArguedReturns DEF Apart
  <2>4. HandlerReturns(r)
    BY DEF r
  <2> QED BY <2>2, <2>3, <2>4, LeafTells
<1> QED BY <1>1, <1>2

\* The tags of values, and their names in the tree.
LEMMA TypesPlain ==
  /\ ARGUMENT_TYPE_LONG \in Plain /\ ARGUMENT_TYPE_DOUBLE \in Plain
  /\ ARGUMENT_TYPE_STRING \in Texted /\ ARGUMENT_TYPE_SYMBOL \in Texted
  /\ ARGUMENT_TYPE_LONG \notin Texted /\ ARGUMENT_TYPE_DOUBLE \notin Texted
  /\ TypeName(ARGUMENT_TYPE_LONG) = "Long" /\ TypeName(ARGUMENT_TYPE_DOUBLE) = "Double"
  /\ TypeName(ARGUMENT_TYPE_STRING) = "String" /\ TypeName(ARGUMENT_TYPE_SYMBOL) = "Symbol"
BY DEF Plain, Texted, TypeName, RLE_BIT, ARGUMENT_TYPE_LONG, ARGUMENT_TYPE_DOUBLE, ARGUMENT_TYPE_STRING,
       ARGUMENT_TYPE_SYMBOL

\* A number is known by its place.
NumberKid(type, value) == [type |-> TypeName(type), value |-> [text |-> "number", at |-> value]]

\* addLong and addDouble with the value of an event or a cell.
LEMMA NumberReads ==
  ASSUME NEW v, Ready(v), NEW type \in {ARGUMENT_TYPE_LONG, ARGUMENT_TYPE_DOUBLE}, NEW value \in Seq(Nat),
         WriterOK(addNumber(v, type, value)), Apart(addNumber(v, type, value)), Stored(v, addNumber(v, type, value))
  PROVE  Legible(addNumber(v, type, value)) /\ Argued(v, addNumber(v, type, value), NumberKid(type, value))
<1>1. type \in Plain /\ type \notin Texted /\ TypeName(type) \in {"Long", "Double"}
  BY TypesPlain
<1>2. ArgumentOf(v, type, value) = NumberKid(type, value)
  BY <1>1 DEF ArgumentOf, NumberKid
<1>3. Legible(addNumber(v, type, value)) /\ Argued(v, addNumber(v, type, value), ArgumentOf(v, type, value))
  BY <1>1, NumberTells
<1> QED BY <1>2, <1>3

\* The handlers of numbers.
LEMMA WriteNumberReads == ASSUME BlockInv, TreeOK, BlockInv', UNCHANGED <<options, leftover>>, WriteNumber PROVE TreeStep
<1> DEFINE events == {"integer", "float"}
           type == IF file[pos].event = "integer" THEN ARGUMENT_TYPE_LONG ELSE ARGUMENT_TYPE_DOUBLE
           u == addNumber(w, type, Place)
           kid == NumberKid(type, Place)
<1>1. Event(events) /\ HandlerReturns(handleKeyValueEnd(u))
  BY DEF WriteNumber
<1>2. file[pos].event \in events /\ pos <= Len(file) /\ WriterOK(w)
  BY <1>1, EventOK DEF BlockInv
<1>3. events \cap {"key", "object", "array", "end"} = {} /\ ~IsCsv(file[pos])
  BY <1>2 DEF IsCsv
<1>4. type \in {ARGUMENT_TYPE_LONG, ARGUMENT_TYPE_DOUBLE} /\ type \in Nat /\ Place \in Seq(Nat)
  <2>1. Place \in Seq(Nat)
    BY <1>2, AtEvent DEF BlockInv
  <2> QED BY <2>1, TagsOK
<1>5. KidOf(file[pos].event, kid)
  BY <1>2, TypesPlain DEF KidOf, NumberKid, Text
<1> HIDE DEF events, type
<1>6. WriterOK(u) /\ Stored(w, u)
  BY <1>1, <1>2, <1>3, <1>4, AddNumberOK, NumberFits DEF BlockInv
<1>7. Ready(w) /\ Apart(u)
  <2> HIDE DEF u
  <2> QED BY <1>1, <1>3, <1>6, ValueReady, StoredApart
<1>8. Legible(u) /\ Argued(w, u, kid)
  BY <1>4, <1>6, <1>7, NumberReads
<1> HIDE DEF u, kid
<1> QED BY <1>1, <1>3, <1>5, <1>6, <1>8, ValueTells

\* A string or a symbol, unless it leaves the block.
LEMMA TextReads ==
  ASSUME BlockInv, TreeOK, NEW events, Event(events), events \cap {"key", "object", "array", "end"} = {},
         ~IsCsv(file[pos]), NEW type \in Texted, NEW text \in String
  PROVE  LET u == addText(w, type, text) IN
         /\ WriterOK(u)
         /\ u.wild \/ (Stored(w, u) /\ Legible(u) /\ Argued(w, u, [type |-> TypeName(type), value |-> text]))
<1> DEFINE u == addText(w, type, text)
<1>1. Ready(w) /\ WriterOK(w) /\ type \in Nat
  BY ValueReady, TagsOK DEF Texted
<1>2. WriterOK(u)
  BY <1>1, AddTextOK
<1>3. \/ /\ Stored(w, u)
         /\ Last(w.exprStack) \in DOMAIN w.exprs \/ (text.text # "longstring" /\ w.strings = <<>>)
      \/ u.wild
  BY <1>1, TextFits DEF BlockInv
<1>4. ASSUME Stored(w, u), Last(w.exprStack) \in DOMAIN w.exprs \/ (text.text # "longstring" /\ w.strings = <<>>)
      PROVE  Legible(u) /\ Argued(w, u, [type |-> TypeName(type), value |-> text])
  <2>1. Apart(u)
    <3>1. Stored(w, u)
      BY <1>4
    <3> HIDE DEF u
    <3> QED BY <1>2, <3>1, StoredApart
  <2> QED BY <1>1, <1>2, <1>4, <2>1, TextTells
<1> HIDE DEF u
<1>5. u.wild \/ (Stored(w, u) /\ Legible(u) /\ Argued(w, u, [type |-> TypeName(type), value |-> text]))
  BY <1>3, <1>4
<1> QED BY <1>2, <1>5 DEF u

\* The handlers null and boolean.
LEMMA WriteSymbolReads == ASSUME BlockInv, TreeOK, BlockInv', UNCHANGED <<options, leftover>>, WriteSymbol PROVE TreeStep
<1> DEFINE events == {"null", "boolean"}
           text == Text(file[pos].event, Place)
           u == addText(w, ARGUMENT_TYPE_SYMBOL, text)
           kid == [type |-> TypeName(ARGUMENT_TYPE_SYMBOL), value |-> text]
<1>1. Event(events) /\ HandlerReturns(handleKeyValueEnd(u))
  BY DEF WriteSymbol
<1>2. file[pos].event \in events /\ pos <= Len(file)
  BY <1>1, EventOK DEF BlockInv
<1>3. events \cap {"key", "object", "array", "end"} = {} /\ ~IsCsv(file[pos])
  BY <1>2 DEF IsCsv
<1>4. text \in String
  <2>1. file[pos].event \in Texts
    BY <1>2, AtEvent DEF BlockInv
  <2> QED BY <1>2, <2>1, AtEvent DEF BlockInv
<1>5. KidOf(file[pos].event, kid)
  BY <1>2, TypesPlain DEF KidOf
<1> HIDE DEF events, text
<1>6. /\ WriterOK(u)
      /\ u.wild \/ (Stored(w, u) /\ Legible(u) /\ Argued(w, u, kid))
  BY <1>1, <1>3, <1>4, TypesPlain, TextReads
<1> HIDE DEF u, kid
<1> QED BY <1>1, <1>3, <1>5, <1>6, ValueTells

\* The handler string, of a text that names no CSV file.
LEMMA WriteStringReads == ASSUME BlockInv, TreeOK, BlockInv', UNCHANGED <<options, leftover>>, WriteString PROVE TreeStep
<1> DEFINE events == {"string", "longstring", "csv"}
           text == Text(file[pos].event, Place)
           u == addText(w, ARGUMENT_TYPE_STRING, text)
           kid == [type |-> TypeName(ARGUMENT_TYPE_STRING), value |-> text]
<1>1. Event(events) /\ HandlerReturns(handleKeyValueEnd(u)) /\ ~IsCsv(file[pos])
  BY DEF WriteString
<1>2. file[pos].event \in events /\ pos <= Len(file)
  BY <1>1, EventOK DEF BlockInv
<1>3. events \cap {"key", "object", "array", "end"} = {}
  OBVIOUS
<1>4. text \in String
  <2>1. file[pos].event \in Texts
    BY <1>2, AtEvent DEF BlockInv
  <2> QED BY <1>2, <2>1, AtEvent DEF BlockInv
<1>5. KidOf(file[pos].event, kid)
  BY <1>2, TypesPlain DEF KidOf
<1> HIDE DEF events, text
<1>6. /\ WriterOK(u)
      /\ u.wild \/ (Stored(w, u) /\ Legible(u) /\ Argued(w, u, kid))
  BY <1>1, <1>3, <1>4, TypesPlain, TextReads
<1> HIDE DEF u, kid
<1> QED BY <1>1, <1>3, <1>5, <1>6, ValueTells

(***************************************************************************)
(* Expressions begin.                                                      *)
(***************************************************************************)
LEMMA OpensTree ==
  ASSUME BlockInv', WriterOK(w), stage = "write", stage' = stage, NEW v, w' = v, ~v.wild, NEW head, Opens(w, v, head)
  PROVE  /\ ReadNodes' = Append([ReadNodes EXCEPT ![Last(Path)].kids =
                                 Append(@, [type |-> "Expression",
                                            value |-> [text |-> "node", at |-> <<Len(ReadNodes) + 1>>]])],
                              [head |-> head, kids |-> <<>>])
         /\ Path' = Append(Path, Len(ReadNodes) + 1)
<1>1. WriterOK(v)
  BY ApartNext
<1>2. ReadNodes = NodesOf(w) /\ Path = PathOf(w)
  BY TreeNow
<1>3. ReadNodes' = NodesOf(v) /\ Path' = PathOf(v)
  BY <1>1, TreeNext
<1> QED BY <1>2, <1>3 DEF Opens

\* The types that an object, an array and a key start.
LEMMA StartsPlain ==
  ASSUME BlockInv, BlockInv', TreeOK, WriterOK(w), ~w.wild, c \in Counters, NEW n, FilledTo(w, c, n), RoomFor(w, c, n),
         NEW head \in String, head.text # "key", w.layer + 1 \in DOMAIN c.perLayer, w.nextExpr \in DOMAIN w.exprs,
         NEW p, ParserOK(p), w.keyValue = KeyLayers(p), Nest(p) <= w.layer,
         stage = "write", stage' = stage, w' = startExpression(w, head)
  PROVE  /\ Legible(startExpression(w, head)) /\ Opens(w, startExpression(w, head), head)
         /\ ~startExpression(w, head).wild
<1> DEFINE v == startExpression(w, head)
<1>1. ~v.wild
  BY StartFills
<1>2. WriterOK(v) /\ v.keyValue = w.keyValue
  BY StartOK
<1>3. w' = v
  OBVIOUS
<1>4. Legible(w) /\ w.layer \in Nat
  BY DEF TreeOK, LegibleOK, WriterOK, Writer
<1>5. Apart(v)
  <2> HIDE DEF v
  <2> QED BY <1>1, <1>3, ApartNext
<1>6. v = [v EXCEPT !.keyValue = w.keyValue]
  <2> HIDE DEF v
  <2> QED BY <1>2 DEF WriterOK, Writer
<1>7. w.layer + 1 \notin w.keyValue
  <2>1. Nest(p) \in Nat
    BY NestOK
  <2>2. ~(w.layer + 1 <= Nest(p))
    BY <1>4, <2>1
  <2> QED BY <2>2, KeysBelow
<1>8. Legible(v) /\ Opens(w, v, head)
  BY <1>2, <1>4, <1>5, <1>6, <1>7, StartReads
<1> QED BY <1>1, <1>8

\* An expression that the first traversal counted has its slots.
LEMMA EventRoom ==
  ASSUME BlockInv, NEW events, Event(events), events \subseteq {"key", "object", "array"}
  PROVE  /\ RoomFor(w, c, UsedAt(pos, 0, 0)) /\ FilledTo(w, c, UsedAt(pos, 0, 0)) /\ c \in Counters
         /\ WriterOK(w) /\ ~w.wild /\ stage = "write" /\ pos <= Len(file) /\ file[pos].event \in events
         /\ w.layer + 1 \in DOMAIN c.perLayer /\ w.nextExpr \in DOMAIN w.exprs
         /\ ParserOK(At(pos).parser) /\ w.keyValue = KeyLayers(At(pos).parser) /\ Nest(At(pos).parser) = w.layer
         /\ w.layer \in Nat
<1> DEFINE n == UsedAt(pos, 0, 0)
<1>1. /\ HistoryOK /\ Complete /\ pos \in 1 .. Len(file) /\ WriterOK(w) /\ c \in Counters /\ ~w.wild
      /\ file[pos].event \in events /\ FilledTo(w, c, n) /\ w.layer = Nest(At(pos).parser) /\ stage = "write"
      /\ w.nextExpr = ExpressionsAt(pos, 0, 0) /\ DOMAIN w.exprs = 0 .. c.expressionCount - 1
      /\ w.layer = 0 => StartChildOffset(w, Last(w.exprStack)) = 0
  BY EventPlaced DEF BlockInv
<1>2. file[pos].event \in {"key", "object", "array"} /\ ~IsCsv(file[pos]) /\ file[pos].event # "end"
  BY <1>1 DEF IsCsv
<1>3. /\ n[w.layer] < c.perLayer[w.layer]
      /\ ExpressionsAt(pos, 0, 0) < c.expressionCount /\ ExpressionsAt(pos, 0, 0) \in Nat
  BY <1>1, <1>2, EventSlots
<1>4. w.layer + 1 \in DOMAIN c.perLayer /\ c.expressionCount \in Nat
  BY <1>1, <1>2, EventCounts
<1>5. w.nextExpr \in DOMAIN w.exprs
  BY <1>1, <1>3, <1>4
<1>6. pos <= Len(file) /\ w.keyValue = KeyLayers(At(pos).parser) /\ w.layer \in Nat
  BY EventOK DEF BlockInv
<1>7. ParserOK(At(pos).parser)
  BY <1>6, AtEvent DEF BlockInv
<1> HIDE DEF n
<1>8. RoomFor(w, c, n)
  BY <1>1, <1>3 DEF RoomFor
<1> QED BY <1>1, <1>4, <1>5, <1>6, <1>7, <1>8 DEF n

\* A handler that starts an expression opens a node.
LEMMA OpenTells ==
  ASSUME BlockInv, TreeOK, BlockInv', UNCHANGED <<options, leftover>>, NEW events, Event(events),
         events \subseteq {"key", "object", "array"}, NEW v, HandlerReturns(v),
         v.wild \/ (Legible(v) /\ Opens(w, v, Text(file[pos].event, Place)))
  PROVE  TreeStep
<1>1. /\ w' = v /\ csv' = [col |-> 0, row |-> 0] /\ pos' = pos + 1 /\ stage' = stage /\ file' = file
  BY DEF HandlerReturns
<1>2. TreeOK'
  BY ReturnsTell
<1>3. ASSUME ~v.wild PROVE Tree!Next
  <2>1. WriterOK(w) /\ stage = "write" /\ pos <= Len(file) /\ file[pos].event \in events
    BY EventOK DEF BlockInv
  <2> DEFINE head == Text(file[pos].event, Place)
  <2>2. /\ ReadNodes' = Append([ReadNodes EXCEPT ![Last(Path)].kids =
                                  Append(@, [type |-> "Expression",
                                             value |-> [text |-> "node", at |-> <<Len(ReadNodes) + 1>>]])],
                               [head |-> head, kids |-> <<>>])
        /\ Path' = Append(Path, Len(ReadNodes) + 1)
    <3>1. Opens(w, v, head)
      BY <1>3
    <3> HIDE DEF head
    <3> QED BY <1>1, <1>3, <2>1, <3>1, OpensTree
  <2>3. csv = [col |-> 0, row |-> 0]
    <3>1. csv \in [col : Nat, row : Nat]
      BY DEF BlockInv, IInv, PlaceOK
    <3>2. csv.col = 0 /\ csv.row = 0
      BY DEF Event, TreeOK, RowsOK
    <3> QED BY <3>1, <3>2
  <2>4. Tree!Open(Tree!Text(file[pos].event))
    <3>1. Tree!Text(file[pos].event) = head
      BY DEF Tree!Text, Text, Place
    <3> HIDE DEF head
    <3> QED BY <2>2, <3>1, TreeEnds DEF Tree!Open, Tree!Added, Tree!Node, Path
  <2>5. Tree!ReadOpen
    <3>1. file[pos].event \in {"object", "array", "key"}
      BY <2>1
    <3> QED BY <1>1, <2>1, <2>3, <2>4, <3>1 DEF Tree!ReadOpen, Tree!Reading, Tree!Advance, Tree!Idle
  <2> QED BY <1>1, <2>5 DEF Tree!Next
<1> QED BY <1>1, <1>2, <1>3 DEF TreeStep

\* start_object and start_array.
LEMMA WriteStartReads == ASSUME BlockInv, TreeOK, BlockInv', UNCHANGED <<options, leftover>>, WriteStart PROVE TreeStep
<1> DEFINE events == {"object", "array"}
           text == Text(file[pos].event, Place)
           v == startExpression(w, text)
           n == UsedAt(pos, 0, 0)
<1>1. Event(events) /\ HandlerReturns(v)
  BY DEF WriteStart
<1>2. events \subseteq {"key", "object", "array"}
  OBVIOUS
<1>3. /\ RoomFor(w, c, n) /\ FilledTo(w, c, n) /\ c \in Counters
      /\ WriterOK(w) /\ ~w.wild /\ stage = "write" /\ pos <= Len(file) /\ file[pos].event \in events
      /\ w.layer + 1 \in DOMAIN c.perLayer /\ w.nextExpr \in DOMAIN w.exprs
      /\ ParserOK(At(pos).parser) /\ w.keyValue = KeyLayers(At(pos).parser) /\ Nest(At(pos).parser) = w.layer
      /\ w.layer \in Nat
  BY <1>1, <1>2, EventRoom
<1>4. text \in String /\ text.text # "key"
  <2>1. file[pos].event \in Texts
    BY <1>3, AtEvent DEF BlockInv
  <2>2. text \in String
    BY <1>3, <2>1, AtEvent DEF BlockInv
  <2> QED BY <1>3, <2>2 DEF Text
<1>5. w' = v /\ stage' = stage /\ Nest(At(pos).parser) <= w.layer
  BY <1>1, <1>3 DEF HandlerReturns
<1>6. Event(events) /\ HandlerReturns(v)
  BY <1>1
<1> HIDE DEF events, n
<1>7. Legible(v) /\ Opens(w, v, text)
  <2> HIDE DEF text
  <2> QED BY <1>3, <1>4, <1>5, StartsPlain
<1> HIDE DEF v
<1> QED BY <1>2, <1>6, <1>7, OpenTells

\* The handler key.
LEMMA WriteKeyReads == ASSUME BlockInv, TreeOK, BlockInv', UNCHANGED <<options, leftover>>, WriteKey PROVE TreeStep
<1> DEFINE events == {"key"}
           text == Text("key", Place)
           s == startExpression(w, text)
           keys == s.keyValue \cup {s.layer}
           v == [s EXCEPT !.keyValue = @ \cup {s.layer}, !.wild = @ \/ s.layer \notin DOMAIN w.cumul]
           n == UsedAt(pos, 0, 0)
<1>1. Event(events) /\ HandlerReturns(v)
  BY DEF WriteKey
<1>2. events \subseteq {"key", "object", "array"}
  OBVIOUS
<1>3. /\ RoomFor(w, c, n) /\ FilledTo(w, c, n) /\ c \in Counters
      /\ WriterOK(w) /\ ~w.wild /\ stage = "write" /\ pos <= Len(file) /\ file[pos].event = "key"
      /\ w.layer + 1 \in DOMAIN c.perLayer /\ w.nextExpr \in DOMAIN w.exprs
      /\ ParserOK(At(pos).parser) /\ w.keyValue = KeyLayers(At(pos).parser) /\ Nest(At(pos).parser) = w.layer
      /\ w.layer \in Nat
  BY <1>1, <1>2, EventRoom
<1>4. text \in String /\ text.text = "key"
  <2>1. "key" \in Texts
    BY DEF Texts
  <2>2. text \in String
    BY <1>3, <2>1, AtEvent DEF BlockInv
  <2> QED BY <2>2 DEF Text
<1>5. w' = v /\ stage' = stage /\ Legible(w)
  BY <1>1, <1>3 DEF HandlerReturns, TreeOK, LegibleOK
<1>6. text = Text(file[pos].event, Place)
  BY <1>3
<1> HIDE DEF events, n, text
<1>7. WriterOK(s) /\ ~s.wild /\ s.keyValue = w.keyValue /\ s.layer = w.layer + 1 /\ s.layer \in DOMAIN w.cumul
  <2>1. ~s.wild /\ s.layer \in DOMAIN w.cumul
    BY <1>3, <1>4, StartFills
  <2>2. WriterOK(s) /\ s.keyValue = w.keyValue /\ (~s.wild => s.layer = w.layer + 1)
    BY <1>3, <1>4, StartOK
  <2> QED BY <2>1, <2>2
<1>8. v = [startExpression(w, text) EXCEPT !.keyValue = keys]
  <2>1. s = startExpression(w, text)
    OBVIOUS
  <2> HIDE DEF s
  <2>2. v = [s EXCEPT !.keyValue = keys]
    BY <1>7 DEF WriterOK, Writer
  <2> QED BY <2>1, <2>2
<1>9. ~v.wild
  <2> HIDE DEF s
  <2> QED BY <1>7 DEF WriterOK, Writer
<1>10. keys = w.keyValue \cup {w.layer + 1}
  BY <1>7
<1> HIDE DEF s, keys, v
<1>11. WriterOK(v) /\ Apart(v)
  BY <1>3, <1>5, <1>9, ApartNext
<1>12. (\A l \in 1 .. w.layer : l \in keys <=> l \in w.keyValue) /\ w.layer + 1 \in keys
  BY <1>3, <1>10
<1>13. Legible(v) /\ Opens(w, v, text)
  BY <1>3, <1>4, <1>5, <1>8, <1>11, <1>12, StartReads
<1> QED BY <1>1, <1>2, <1>6, <1>13, OpenTells

(***************************************************************************)
(* CSV files.                                                              *)
(***************************************************************************)
LEMMA GoesOnTell ==
  ASSUME UNCHANGED <<options, leftover>>, NEW col, NEW row, NEW v, HandlerGoesOn(col, row, v), ~v.wild => Legible(v), col # 0,
         row > 0 => TypeOfCsvColumn(file[pos].table[col]) # "exception"
  PROVE  TreeOK'
<1>1. w' = v /\ csv' = [col |-> col, row |-> row] /\ pos' = pos /\ stage' = stage /\ file' = file
  BY DEF HandlerGoesOn
<1>2. RowsOK'
  BY <1>1 DEF RowsOK
<1>3. TypedOK'
  BY <1>1 DEF TypedOK, Column, Table
<1>4. LegibleOK'
  BY <1>1 DEF LegibleOK, Legible, RunOff
<1> QED BY <1>2, <1>3, <1>4 DEF TreeOK

\* handleCsvFile: the expression of the table.
LEMMA WriteTableStartReads == ASSUME BlockInv, TreeOK, BlockInv', UNCHANGED <<options, leftover>>, WriteTableStart PROVE TreeStep
<1> DEFINE head == Text("table", Place)
           v == startExpression(w, head)
           n == UsedAt(pos, 0, 0)
           L == Nest(At(pos).parser)
<1>1. Event({"csv"}) /\ IsCsv(file[pos]) /\ HandlerGoesOn(1, 0, v)
  BY DEF WriteTableStart
<1>2. /\ HistoryOK /\ Complete /\ pos \in 1 .. Len(file) /\ WriterOK(w) /\ c \in Counters
      /\ stage = "write" /\ ~w.wild /\ FilledTo(w, c, n)
      /\ w.nextExpr = ExpressionsAt(pos, 0, 0) /\ w.layer = L
      /\ DOMAIN w.exprs = 0 .. c.expressionCount - 1
      /\ w.layer = 0 => StartChildOffset(w, Last(w.exprStack)) = 0
  BY <1>1, EventPlaced DEF BlockInv
<1>3. pos <= Len(file) /\ w.keyValue = KeyLayers(At(pos).parser) /\ w.layer \in Nat
  BY <1>1, EventOK DEF BlockInv
<1>4. head \in String /\ head.text # "key" /\ ParserOK(At(pos).parser)
  <2>1. "table" \in Texts
    BY DEF Texts
  <2>2. head \in String /\ ParserOK(At(pos).parser)
    BY <1>3, <2>1, AtEvent DEF BlockInv
  <2> QED BY <2>2 DEF Text
<1>5. L + 1 \in DOMAIN c.perLayer /\ n[L] < c.perLayer[L]
  BY <1>1, <1>2, TableSlots
<1>6. w.nextExpr \in DOMAIN w.exprs
  <2>1. ExpressionsAt(pos, 0, 0) < c.expressionCount /\ ExpressionsAt(pos, 0, 0) \in Nat
    BY <1>1, <1>2, TableExpressions
  <2>2. c.expressionCount \in Nat
    BY <1>2, EventCounts
  <2> QED BY <1>2, <2>1, <2>2
<1>7. w' = v /\ stage' = stage /\ L <= w.layer /\ file' = file /\ pos' = pos /\ csv' = [col |-> 1, row |-> 0]
  BY <1>1, <1>2, <1>3 DEF HandlerGoesOn
<1>8. csv = [col |-> 0, row |-> 0] /\ file[pos].event \in {"csv"}
  <2>1. csv \in [col : Nat, row : Nat]
    BY DEF BlockInv, IInv, PlaceOK
  <2>2. csv.col = 0 /\ csv.row = 0 /\ file[pos].event \in {"csv"}
    BY <1>1 DEF Event, TreeOK, RowsOK
  <2> QED BY <2>1, <2>2
<1>9. Tree!Text("table") = head
  BY DEF Tree!Text, Text, Place
<1> HIDE DEF head, n
<1>10. RoomFor(w, c, n)
  BY <1>2, <1>5 DEF RoomFor
<1>11. Legible(v) /\ Opens(w, v, head) /\ ~v.wild
  BY <1>2, <1>3, <1>4, <1>5, <1>6, <1>7, <1>10, StartsPlain
<1> HIDE DEF v
<1>12. TreeOK'
  <2>1. ~(0 > 0) /\ 1 # 0
    OBVIOUS
  <2> QED BY <1>1, <1>11, <2>1, GoesOnTell
<1>13. /\ ReadNodes' = Append([ReadNodes EXCEPT ![Last(Path)].kids =
                                Append(@, [type |-> "Expression",
                                           value |-> [text |-> "node", at |-> <<Len(ReadNodes) + 1>>]])],
                             [head |-> head, kids |-> <<>>])
       /\ Path' = Append(Path, Len(ReadNodes) + 1)
  BY <1>2, <1>7, <1>11, OpensTree
<1>14. Tree!Open(Tree!Text("table"))
  BY <1>9, <1>13, TreeEnds DEF Tree!Open, Tree!Added, Tree!Node, Path
<1>15. Tree!OpenTable
  BY <1>1, <1>3, <1>7, <1>8, <1>14 DEF Tree!OpenTable, Tree!Reading, Tree!Step, Tree!Idle, IsCsv
<1>16. Tree!Next
  BY <1>7, <1>15 DEF Tree!Next
<1> QED BY <1>12, <1>16 DEF TreeStep

\* handleCsvFile: the expression of a column.
LEMMA WriteColumnStartReads == ASSUME BlockInv, TreeOK, BlockInv', UNCHANGED <<options, leftover>>, WriteColumnStart PROVE TreeStep
<1> DEFINE head == Text("column", Place)
           v == startExpression(w, head)
           n == UsedAt(pos, csv.col, 0)
           L == Nest(At(pos).parser)
           N == Len(file[pos].table)
<1>1. /\ InTable /\ csv.row = 0 /\ csv.col <= N /\ HandlerGoesOn(csv.col, 1, v)
      /\ TypeOfCsvColumn(file[pos].table[csv.col]) # "exception"
  BY DEF WriteColumnStart, Table, Column
<1>2. /\ HistoryOK /\ Complete /\ pos \in 1 .. Len(file) /\ WriterOK(w) /\ c \in Counters
      /\ stage = "write" /\ ~w.wild /\ IsCsv(file[pos])
      /\ FilledTo(w, c, n) /\ w.nextExpr = ExpressionsAt(pos, csv.col, 0)
      /\ DOMAIN w.exprs = 0 .. c.expressionCount - 1 /\ c.expressionCount \in Nat
      /\ N \in Nat /\ csv.col \in Nat \ {0} /\ w.layer = L + 1 /\ w.layer # 0 /\ L \in Nat
  BY <1>1, TablePlaced DEF BlockInv
<1>3. head \in String /\ head.text # "key" /\ ParserOK(At(pos).parser) /\ w.keyValue = KeyLayers(At(pos).parser)
      /\ pos <= Len(file)
  <2>1. "column" \in Texts
    BY DEF Texts
  <2>2. head \in String /\ w.keyValue = KeyLayers(At(pos).parser) /\ pos <= Len(file)
    BY <1>1, <2>1, InTableOK DEF BlockInv
  <2>3. ParserOK(At(pos).parser)
    BY <2>2, AtEvent DEF BlockInv
  <2> QED BY <2>2, <2>3 DEF Text
<1>4. csv.col \in 1 .. N
  BY <1>1, <1>2
<1>5. L + 2 \in DOMAIN c.perLayer /\ n[L + 1] < c.perLayer[L + 1] /\ w.layer + 1 = L + 2
  <2>1. L + 2 \in DOMAIN c.perLayer /\ n[L + 1] < c.perLayer[L + 1]
    BY <1>2, <1>4, TableSlots
  <2> HIDE DEF L
  <2> QED BY <1>2, <2>1
<1>6. w.nextExpr \in DOMAIN w.exprs
  <2>1. ExpressionsAt(pos, csv.col, 0) < c.expressionCount /\ ExpressionsAt(pos, csv.col, 0) \in Nat
    BY <1>2, <1>4, TableExpressions
  <2> QED BY <1>2, <2>1
<1>7. /\ w' = v /\ stage' = stage /\ L <= w.layer /\ file' = file /\ pos' = pos
      /\ csv' = [col |-> csv.col, row |-> 1]
  BY <1>1, <1>2 DEF HandlerGoesOn
<1>9. Tree!Text("column") = head
  BY DEF Tree!Text, Text, Place
<1> HIDE DEF head, n
<1>10. RoomFor(w, c, n)
  BY <1>2, <1>5 DEF RoomFor
<1>11. Legible(v) /\ Opens(w, v, head) /\ ~v.wild
  BY <1>2, <1>3, <1>5, <1>6, <1>7, <1>10, StartsPlain
<1> HIDE DEF v
<1>12. TreeOK'
  BY <1>1, <1>2, <1>11, GoesOnTell
<1>13. /\ ReadNodes' = Append([ReadNodes EXCEPT ![Last(Path)].kids =
                                Append(@, [type |-> "Expression",
                                           value |-> [text |-> "node", at |-> <<Len(ReadNodes) + 1>>]])],
                             [head |-> head, kids |-> <<>>])
       /\ Path' = Append(Path, Len(ReadNodes) + 1)
  BY <1>2, <1>7, <1>11, OpensTree
<1>14. Tree!Open(Tree!Text("column"))
  BY <1>9, <1>13, TreeEnds DEF Tree!Open, Tree!Added, Tree!Node, Path
<1>15. Tree!OpenColumn
  <2>1. csv.col > 0
    BY <1>2
  <2> QED BY <1>1, <1>3, <1>7, <1>14, <2>1 DEF Tree!OpenColumn, Tree!ReadingTable, Tree!Step, Tree!Table
<1>16. Tree!Next
  BY <1>7, <1>15 DEF Tree!Next
<1> QED BY <1>12, <1>16 DEF TreeStep

(***************************************************************************)
(* Expressions end.                                                        *)
(***************************************************************************)
LEMMA ShutTree ==
  ASSUME BlockInv', WriterOK(w), stage = "write", stage' = stage, NEW v, w' = v, ~v.wild,
         NEW u, Shuts(w, u), v = u \/ Returns(u, v)
  PROVE  /\ ReadNodes' = ReadNodes
         /\ v = u => Path' = Front(Path)
         /\ Returns(u, v) => Path' = Outer(Front(Path), ReadNodes)
<1>1. WriterOK(v)
  BY ApartNext
<1>2. ReadNodes = NodesOf(w) /\ Path = PathOf(w)
  BY TreeNow
<1>3. ReadNodes' = NodesOf(v) /\ Path' = PathOf(v)
  BY <1>1, TreeNext
<1>4. NodesOf(u) = ReadNodes /\ PathOf(u) = Front(Path)
  BY <1>2 DEF Shuts
<1>5. CASE v = u
  <2>1. NodesOf(v) = ReadNodes /\ PathOf(v) = Front(Path)
    BY <1>4, <1>5
  <2> QED BY <1>3, <1>4, <2>1 DEF Returns
<1>6. CASE Returns(u, v)
  <2>1. v = u => PathOf(v) = Front(Path)
    BY <1>4
  <2> QED BY <1>3, <1>4, <1>6, <2>1 DEF Returns
<1> QED BY <1>5, <1>6

\* end_object and end_array.
LEMMA WriteEndReads == ASSUME BlockInv, TreeOK, BlockInv', UNCHANGED <<options, leftover>>, WriteEnd PROVE TreeStep
<1> DEFINE n == UsedAt(pos, 0, 0)
           p == At(pos).parser
           u == endExpression(w)
           v == handleKeyValueEnd(u)
<1>1. Event({"end"}) /\ HandlerReturns(v)
  BY DEF WriteEnd
<1>2. /\ HistoryOK /\ Complete /\ pos \in 1 .. Len(file) /\ WriterOK(w) /\ c \in Counters /\ ~w.wild
      /\ file[pos].event \in {"end"} /\ FilledTo(w, c, n) /\ w.layer = Nest(p) /\ stage = "write"
      /\ 0 \notin w.keyValue
  BY <1>1, EventPlaced DEF BlockInv
<1>3. pos <= Len(file)
  BY <1>1, EventOK DEF BlockInv
<1>4. w.layer >= 1
  <2>1. Nest(After(p, file[pos])) = Nest(p) - 1 - (IF p.open[Len(p.open)].keyed THEN 1 ELSE 0)
        /\ ParserOK(After(p, file[pos]))
    BY <1>2, <1>3, AtEvent, ParserStep DEF BlockInv
  <2>2. Nest(After(p, file[pos])) \in Nat /\ Nest(p) \in Nat
    BY <1>3, <2>1, NestOK, AtEvent DEF BlockInv
  <2> QED BY <1>2, <2>1, <2>2
<1>5. w' = v /\ stage' = stage /\ file' = file /\ pos' = pos + 1 /\ csv' = [col |-> 0, row |-> 0]
  BY <1>1 DEF HandlerReturns
<1>6. csv = [col |-> 0, row |-> 0] /\ Legible(w)
  <2>1. csv \in [col : Nat, row : Nat]
    BY DEF BlockInv, IInv, PlaceOK
  <2>2. csv.col = 0 /\ csv.row = 0
    BY <1>1 DEF Event, TreeOK, RowsOK
  <2> QED BY <1>2, <2>1, <2>2 DEF TreeOK, LegibleOK
<1> HIDE DEF n
<1>7. Legible(u) /\ Shuts(w, u) /\ WriterOK(u) /\ ~u.wild /\ FilledTo(u, c, n) /\ u.keyValue = w.keyValue
  BY <1>2, <1>4, <1>6, EndReads
<1> HIDE DEF u
<1>8. Legible(v) /\ Returns(u, v) /\ ~v.wild
  BY <1>2, <1>7, KeyEndReads
<1> HIDE DEF v
<1>9. TreeOK'
  BY <1>1, <1>8, ReturnsTell
<1>10. ReadNodes' = ReadNodes /\ Path' = Outer(Front(Path), ReadNodes)
  BY <1>2, <1>5, <1>7, <1>8, ShutTree
<1>11. Tree!ReadClose
  <2>1. Path' = Tree!Outside(Tree!Front(Path), ReadNodes)
    BY <1>10, TreeEnds DEF Outer, Tree!Outside
  <2> QED BY <1>2, <1>3, <1>5, <1>6, <1>10, <2>1 DEF Tree!ReadClose, Tree!Reading, Tree!Advance, Tree!Idle, Path
<1>12. Tree!Next
  BY <1>5, <1>11 DEF Tree!Next
<1> QED BY <1>9, <1>12 DEF TreeStep

\* handleCsvFile: the end of a column.
LEMMA WriteColumnEndReads == ASSUME BlockInv, TreeOK, BlockInv', UNCHANGED <<options, leftover>>, WriteColumnEnd PROVE TreeStep
<1> DEFINE v == endExpression(w)
           n == UsedAt(pos, csv.col, csv.row)
           N == Len(file[pos].table)
           R == RowCount(file[pos].table)
<1>1. /\ InTable /\ csv.row > 0 /\ csv.row > Len(file[pos].table[csv.col])
      /\ HandlerGoesOn(csv.col + 1, 0, v)
  BY DEF WriteColumnEnd, Column, Table
<1>2. /\ pos \in 1 .. Len(file) /\ WriterOK(w) /\ c \in Counters
      /\ stage = "write" /\ ~w.wild /\ file[pos] \in Token /\ FilledTo(w, c, n)
      /\ N \in Nat /\ R \in Nat /\ csv.col \in Nat \ {0} /\ csv.row \in Nat /\ w.layer # 0
      /\ csv.col <= N /\ csv.row <= R + 1
  BY <1>1, TablePlaced DEF BlockInv
<1>3. csv.row = Len(file[pos].table[csv.col]) + 1
  <2>1. csv.col \in 1 .. N
    BY <1>2
  <2>2. Len(file[pos].table[csv.col]) = R
    BY <1>2, <2>1, ColumnLength
  <2> QED BY <1>1, <1>2, <2>2
<1>4. w.layer >= 1 /\ Legible(w) /\ pos <= Len(file) /\ csv.col > 0 /\ csv.col + 1 # 0 /\ ~(0 > 0)
  <2>1. w.layer >= 1
    BY <1>2, ArgIterOK
  <2>2. pos <= Len(file)
    BY <1>1, InTableOK DEF BlockInv
  <2> QED BY <1>2, <2>1, <2>2 DEF TreeOK, LegibleOK
<1>5. w' = v /\ stage' = stage /\ file' = file /\ pos' = pos /\ csv' = [col |-> csv.col + 1, row |-> 0]
  BY <1>1 DEF HandlerGoesOn
<1> HIDE DEF n
<1>6. Legible(v) /\ Shuts(w, v) /\ ~v.wild
  BY <1>2, <1>4, EndReads
<1> HIDE DEF v
<1>7. TreeOK'
  BY <1>1, <1>4, <1>6, GoesOnTell
<1>8. ReadNodes' = ReadNodes /\ Path' = Front(Path)
  BY <1>2, <1>5, <1>6, ShutTree
<1>9. Tree!CloseColumn
  <2>1. Path' = Tree!Front(Path)
    BY <1>8, TreeEnds
  <2> QED BY <1>1, <1>3, <1>4, <1>5, <1>8, <2>1 DEF Tree!CloseColumn, Tree!ReadingTable, Tree!Step, Tree!Table, Path
<1>10. Tree!Next
  BY <1>5, <1>9 DEF Tree!Next
<1> QED BY <1>7, <1>10 DEF TreeStep

\* handleCsvFile: the end of the table, and of a key in front of it.
LEMMA WriteTableEndReads == ASSUME BlockInv, TreeOK, BlockInv', UNCHANGED <<options, leftover>>, WriteTableEnd PROVE TreeStep
<1> DEFINE u == endExpression(w)
           v == handleKeyValueEnd(u)
           n == UsedAt(pos, csv.col, csv.row)
           N == Len(file[pos].table)
<1>1. InTable /\ csv.row = 0 /\ csv.col > N /\ HandlerReturns(v)
  BY DEF WriteTableEnd, Table
<1>2. /\ pos \in 1 .. Len(file) /\ WriterOK(w) /\ c \in Counters
      /\ stage = "write" /\ ~w.wild /\ FilledTo(w, c, n)
      /\ N \in Nat /\ csv.col \in Nat \ {0} /\ w.layer # 0 /\ csv.col <= N + 1 /\ 0 \notin w.keyValue
  BY <1>1, TablePlaced DEF BlockInv
<1>3. csv.col = N + 1 /\ csv.col > 0
  BY <1>1, <1>2
<1>4. w.layer >= 1 /\ Legible(w) /\ pos <= Len(file)
  <2>1. w.layer >= 1
    BY <1>2, ArgIterOK
  <2>2. pos <= Len(file)
    BY <1>1, InTableOK DEF BlockInv
  <2> QED BY <1>2, <2>1, <2>2 DEF TreeOK, LegibleOK
<1>5. w' = v /\ stage' = stage /\ file' = file /\ pos' = pos + 1 /\ csv' = [col |-> 0, row |-> 0]
  BY <1>1 DEF HandlerReturns
<1> HIDE DEF n
<1>6. Legible(u) /\ Shuts(w, u) /\ WriterOK(u) /\ ~u.wild /\ FilledTo(u, c, n) /\ u.keyValue = w.keyValue
  BY <1>2, <1>4, EndReads
<1> HIDE DEF u
<1>7. Legible(v) /\ Returns(u, v) /\ ~v.wild
  BY <1>2, <1>6, KeyEndReads
<1> HIDE DEF v
<1>8. TreeOK'
  BY <1>1, <1>7, ReturnsTell
<1>9. ReadNodes' = ReadNodes /\ Path' = Outer(Front(Path), ReadNodes)
  BY <1>2, <1>5, <1>6, <1>7, ShutTree
<1>10. Tree!CloseTable
  <2>1. Path' = Tree!Outside(Tree!Front(Path), ReadNodes)
    BY <1>9, TreeEnds DEF Outer, Tree!Outside
  <2> QED BY <1>1, <1>3, <1>4, <1>5, <1>9, <2>1
          DEF Tree!CloseTable, Tree!ReadingTable, Tree!Advance, Tree!Idle, Tree!Table, Path
<1>11. Tree!Next
  BY <1>5, <1>10 DEF Tree!Next
<1> QED BY <1>8, <1>11 DEF TreeStep

(***************************************************************************)
(* Cells.                                                                  *)
(***************************************************************************)
LEMMA CellReady ==
  ASSUME BlockInv, TreeOK, InTable, csv.row > 0, csv.row <= Len(Column)
  PROVE  /\ Ready(w) /\ WriterOK(w) /\ ~w.wild /\ Last(w.exprStack) \in DOMAIN w.exprs
         /\ pos <= Len(file) /\ stage = "write" /\ Column \in Seq(Cell) /\ csv.row \in DOMAIN Column /\ csv.col > 0
         /\ csv \in [col : Nat, row : Nat]
<1> DEFINE n == UsedAt(pos, csv.col, csv.row)
           L == Nest(At(pos).parser)
           N == Len(file[pos].table)
           R == RowCount(file[pos].table)
<1>1. /\ HistoryOK /\ Complete /\ pos \in 1 .. Len(file) /\ WriterOK(w) /\ c \in Counters
      /\ stage = "write" /\ ~w.wild /\ IsCsv(file[pos]) /\ file[pos] \in Token
      /\ FilledTo(w, c, n)
      /\ N \in Nat /\ R \in Nat /\ csv.col \in Nat \ {0} /\ csv.row \in Nat /\ w.layer # 0
      /\ csv.col <= N /\ L \in Nat
  BY TablePlaced DEF BlockInv
<1>2. w.layer = L + 2
  BY TablePlaced DEF BlockInv
<1>3. csv.col \in 1 .. N
  BY <1>1
<1>4. Len(file[pos].table[csv.col]) = R /\ file[pos].table[csv.col] \in Seq(Cell)
  BY <1>1, <1>3, ColumnLength
<1>5. csv.row \in 1 .. R
  BY <1>1, <1>4 DEF Column, Table
<1>6. n[L + 2] < c.perLayer[L + 2]
  BY <1>1, <1>3, <1>5, TableSlots
<1>7. Last(w.exprStack) \in DOMAIN w.exprs
  <2>1. w.layer \in Nat /\ Last(w.exprStack) = w.exprStack[w.layer + 1]
    BY <1>1, ArgIterOK
  <2>2. w.layer + 1 \in 2 .. w.layer + 1
    BY <1>1, <2>1
  <2> QED BY <1>1, <2>1, <2>2, SlotsCases DEF FilledTo
<1>8. csv \in [col : Nat, row : Nat]
  BY DEF BlockInv, IInv, PlaceOK
<1>9. Column \in Seq(Cell) /\ csv.row \in DOMAIN Column /\ pos <= Len(file) /\ csv.col > 0
  <2>1. DOMAIN Column = 1 .. R
    BY <1>4 DEF Column, Table
  <2> QED BY <1>1, <1>4, <1>5, <2>1 DEF Column, Table
<1> HIDE DEF n
<1>10. RoomFor(w, c, n)
  BY <1>1, <1>2, <1>6 DEF RoomFor
<1>11. Ready(w)
  BY <1>1, <1>10, RoomReady DEF TreeOK, LegibleOK
<1> QED BY <1>1, <1>7, <1>8, <1>9, <1>11

\* The cell that the abstract tree reads.
CellKid(kid) ==
  \/ Column[csv.row] = "empty" /\ Tree!ColumnType # "String" /\ kid = [type |-> "Symbol", value |-> Text("missing", Place)]
  \/ /\ Column[csv.row] # "empty" /\ Tree!ColumnType # "String"
     /\ kid = [type |-> Tree!ColumnType, value |-> Text("number", Place)]
  \/ Tree!ColumnType = "String" /\ kid = [type |-> "String", value |-> Text("cell", Place)]

\* A stored cell is the next kid of its column.
LEMMA CellTells ==
  ASSUME BlockInv, TreeOK, BlockInv', UNCHANGED <<options, leftover>>, InTable, csv.row > 0, csv.row <= Len(Column),
         NEW v, HandlerGoesOn(csv.col, csv.row + 1, v), NEW kid, CellKid(kid),
         ~v.wild, Legible(v), Argued(w, v, kid)
  PROVE  TreeStep
<1>1. /\ WriterOK(w) /\ pos <= Len(file) /\ stage = "write" /\ csv.col > 0 /\ csv \in [col : Nat, row : Nat]
  BY CellReady
<1>2. /\ w' = v /\ csv' = [col |-> csv.col, row |-> csv.row + 1] /\ pos' = pos /\ stage' = stage /\ file' = file
  BY DEF HandlerGoesOn
<1>3. TreeOK'
  <2>1. csv.col # 0 /\ TypeOfCsvColumn(file[pos].table[csv.col]) # "exception"
    BY <1>1 DEF TreeOK, TypedOK, Column, Table
  <2> QED BY <2>1, GoesOnTell
<1>4. WriterOK(v)
  BY <1>1, <1>2, ApartNext
<1>5. ReadNodes = NodesOf(w) /\ Path = PathOf(w)
  BY <1>1, TreeNow
<1>6. ReadNodes' = NodesOf(v) /\ Path' = PathOf(v)
  BY <1>2, <1>4, TreeNext
<1>7. ReadNodes' = [ReadNodes EXCEPT ![Last(Path)].kids = Append(@, kid)] /\ Path' = Path
  BY <1>5, <1>6 DEF Argued
<1>8. Tree!AddLeaf(kid.type, kid.value)
  <2>1. kid = [type |-> kid.type, value |-> kid.value]
    BY DEF CellKid
  <2> QED BY <1>7, <2>1, TreeEnds DEF Tree!AddLeaf, Tree!Added, Path
<1>9. /\ Tree!Text("missing") = Text("missing", Place) /\ Tree!Text("number") = Text("number", Place)
      /\ Tree!Text("cell") = Text("cell", Place)
  BY DEF Tree!Text, Text, Place
<1>10. Tree!Table[csv.col] = Column
  BY DEF Tree!Table, Column, Table
<1>11. \/ Column[csv.row] = "empty" /\ Tree!ColumnType # "String" /\ Tree!AddLeaf("Symbol", Tree!Text("missing"))
       \/ /\ Column[csv.row] # "empty" /\ Tree!ColumnType # "String"
          /\ Tree!AddLeaf(Tree!ColumnType, Tree!Text("number"))
       \/ Tree!ColumnType = "String" /\ Tree!AddLeaf("String", Tree!Text("cell"))
  BY <1>8, <1>9 DEF CellKid
<1>12. Tree!ReadCell
  BY <1>1, <1>2, <1>7, <1>10, <1>11 DEF Tree!ReadCell, Tree!ReadingTable, Tree!Step, Path
<1>13. Tree!Next
  BY <1>2, <1>12 DEF Tree!Next
<1> QED BY <1>3, <1>13 DEF TreeStep

\* handleCsvFile: one cell, converted or missing.
LEMMA WriteCellReads == ASSUME BlockInv, TreeOK, BlockInv', UNCHANGED <<options, leftover>>, WriteCell PROVE TreeStep
<1> DEFINE T == TypeOfCsvColumn(Column)
           missing == Text("missing", Place)
           cell == Text("cell", Place)
           v == IF ConvertCell(T, Column[csv.row]) = "missing"
                THEN addText(w, ARGUMENT_TYPE_SYMBOL, missing)
                ELSE IF T = "int64_t" THEN addNumber(w, ARGUMENT_TYPE_LONG, Place)
                ELSE IF T = "double_t" THEN addNumber(w, ARGUMENT_TYPE_DOUBLE, Place)
                ELSE addText(w, ARGUMENT_TYPE_STRING, cell)
<1>1. InTable /\ csv.row > 0 /\ csv.row <= Len(Column) /\ HandlerGoesOn(csv.col, csv.row + 1, v)
  BY DEF WriteCell
<1>2. /\ Ready(w) /\ WriterOK(w) /\ ~w.wild /\ Last(w.exprStack) \in DOMAIN w.exprs
      /\ pos <= Len(file) /\ stage = "write" /\ Column \in Seq(Cell) /\ csv.row \in DOMAIN Column /\ csv.col > 0
  BY <1>1, CellReady
<1>3. missing \in String /\ cell \in String /\ Place \in Seq(Nat)
  <2>1. "missing" \in Texts /\ "cell" \in Texts
    BY DEF Texts
  <2> QED BY <1>1, <2>1, InTableOK DEF BlockInv
<1>4. T # "exception"
  BY <1>1, <1>2 DEF TreeOK, TypedOK
<1>5. /\ Tree!ColumnHas({"empty", "int"}) <=> \A r \in DOMAIN Column : Column[r] \in {"empty", "int"}
      /\ Tree!ColumnHas({"empty", "int", "real", "overflow"})
           <=> \A r \in DOMAIN Column : Column[r] \in {"empty", "int", "real", "overflow"}
  BY DEF Tree!ColumnHas, Tree!Table, Column, Table
<1>6. /\ T \in {"int64_t", "double_t", "string"}
      /\ T = "int64_t" => Tree!ColumnType = "Long"
      /\ T = "double_t" => Tree!ColumnType = "Double"
      /\ T = "string" => Tree!ColumnType = "String"
  <2>1. /\ T \in {"int64_t", "double_t", "string", "exception"}
        /\ T = "int64_t" => Tree!ColumnHas({"empty", "int"})
        /\ T = "double_t" => /\ Tree!ColumnHas({"empty", "int", "real", "overflow"})
                             /\ ~Tree!ColumnHas({"empty", "int"})
        /\ T = "string" => /\ ~Tree!ColumnHas({"empty", "int", "real", "overflow"})
                           /\ ~Tree!ColumnHas({"empty", "int"})
    BY <1>2, <1>5, ColumnTyped
  <2> HIDE DEF T
  <2> QED BY <1>4, <2>1 DEF Tree!ColumnType
<1>7. Column[csv.row] \in Cell
  BY <1>2
<1>8. /\ T = "int64_t" \/ T = "double_t" => (ConvertCell(T, Column[csv.row]) = "missing" <=> Column[csv.row] = "empty")
      /\ T = "string" => ConvertCell(T, Column[csv.row]) # "missing"
  BY <1>7, CellTyped
<1>9. ASSUME NEW type \in Texted, NEW text \in String
      PROVE  LET u == addText(w, type, text) IN
             WriterOK(u) /\ Stored(w, u) /\ (Apart(u) => Legible(u) /\ Argued(w, u, [type |-> TypeName(type), value |-> text]))
  <2>1. NextArgumentIndex(w) \in DOMAIN w.types /\ type \in Nat
    BY <1>2, TagsOK DEF Ready, Texted
  <2>2. WriterOK(addText(w, type, text)) /\ Stored(w, addText(w, type, text))
    BY <1>2, <2>1, AddTextOK, TextStores
  <2> QED BY <1>2, <2>2, TextTells
<1>10. ASSUME NEW type \in {ARGUMENT_TYPE_LONG, ARGUMENT_TYPE_DOUBLE}
       PROVE  LET u == addNumber(w, type, Place) IN
              WriterOK(u) /\ Stored(w, u) /\ (Apart(u) => Legible(u) /\ Argued(w, u, NumberKid(type, Place)))
  <2>1. NextArgumentIndex(w) \in DOMAIN w.types /\ type \in Nat
    BY <1>2, TagsOK DEF Ready
  <2>2. WriterOK(addNumber(w, type, Place)) /\ Stored(w, addNumber(w, type, Place))
    BY <1>2, <1>3, <2>1, AddNumberOK, NumberStores
  <2> QED BY <1>2, <1>3, <2>2, NumberReads
<1> DEFINE kid == IF Tree!ColumnType = "String" THEN [type |-> "String", value |-> cell]
                  ELSE IF Column[csv.row] = "empty" THEN [type |-> "Symbol", value |-> missing]
                  ELSE [type |-> Tree!ColumnType, value |-> Text("number", Place)]
<1>11. CellKid(kid)
  BY DEF CellKid
<1>12. WriterOK(v) /\ Stored(w, v) /\ (Apart(v) => Legible(v) /\ Argued(w, v, kid))
  <2>1. CASE T = "string"
    <3>1. v = addText(w, ARGUMENT_TYPE_STRING, cell)
      BY <1>8, <2>1
    <3>2. kid = [type |-> TypeName(ARGUMENT_TYPE_STRING), value |-> cell]
      BY <1>6, <2>1, TypesPlain
    <3> HIDE DEF v, kid, cell
    <3> QED BY <1>3, <1>9, <3>1, <3>2, TypesPlain
  <2>2. CASE T # "string" /\ Column[csv.row] = "empty"
    <3>1. v = addText(w, ARGUMENT_TYPE_SYMBOL, missing)
      BY <1>6, <1>8, <2>2
    <3>2. kid = [type |-> TypeName(ARGUMENT_TYPE_SYMBOL), value |-> missing]
      BY <1>6, <2>2, TypesPlain
    <3> HIDE DEF v, kid, missing
    <3> QED BY <1>3, <1>9, <3>1, <3>2, TypesPlain
  <2>3. CASE T = "int64_t" /\ Column[csv.row] # "empty"
    <3>1. v = addNumber(w, ARGUMENT_TYPE_LONG, Place)
      BY <1>8, <2>3
    <3>2. kid = NumberKid(ARGUMENT_TYPE_LONG, Place)
      BY <1>6, <2>3, TypesPlain DEF NumberKid, Text
    <3> HIDE DEF v, kid
    <3> QED BY <1>10, <3>1, <3>2
  <2>4. CASE T = "double_t" /\ Column[csv.row] # "empty"
    <3>1. v = addNumber(w, ARGUMENT_TYPE_DOUBLE, Place)
      BY <1>8, <2>4
    <3>2. kid = NumberKid(ARGUMENT_TYPE_DOUBLE, Place)
      BY <1>6, <2>4, TypesPlain DEF NumberKid, Text
    <3> HIDE DEF v, kid
    <3> QED BY <1>10, <3>1, <3>2
  <2> HIDE DEF v, kid, T
  <2> QED BY <1>6, <2>1, <2>2, <2>3, <2>4
<1>13. HandlerGoesOn(csv.col, csv.row + 1, v)
  BY <1>1
<1> HIDE DEF v, kid
<1>14. ~v.wild
  BY <1>2, <1>12 DEF Stored
<1>15. w' = v /\ stage' = stage
  BY <1>13 DEF HandlerGoesOn
<1>16. Apart(v)
  BY <1>2, <1>14, <1>15, ApartNext
<1> QED BY <1>1, <1>11, <1>12, <1>13, <1>14, <1>16, CellTells

(***************************************************************************)
(* The block before its first event.                                       *)
(***************************************************************************)
Unwritten(v) ==
  /\ v.nextExpr = 0 /\ v.layer = 0 /\ v.run = 0
  /\ v.argIter = <<0>> /\ v.exprStack = <<0>>

Root == <<[head |-> [text |-> "document", at |-> <<>>], kids |-> <<>>]>>

\* A writer that has written nothing has the root alone, which is open.
LEMMA UnwrittenReads ==
  ASSUME NEW v, Unwritten(v)
  PROVE  Legible(v) /\ NodesOf(v) = Root /\ PathOf(v) = <<1>>
<1>1. Ids(v) = {-1} /\ StartOf(v, -1) = 0 /\ EndOf(v, -1) = 0 /\ RunIn(v, -1) = 0
  BY DEF Unwritten, Ids, StartOf, EndOf, RunIn
<1>2. EncodedIn(v)
  BY <1>1, EncodedEmpty DEF EncodedIn
<1>3. HeadsIn(v) /\ KeysIn(v) /\ RunOff(v)
  BY <1>1 DEF HeadsIn, KeysIn, RunOff, Unwritten
<1>4. TextsIn(v)
  <2>1. SlotsOf(v, -1) = {}
    BY <1>1 DEF SlotsOf
  <2> QED BY <1>1, <2>1 DEF TextsIn, TextsOf
<1>5. NodeOf(v, -1) = [head |-> [text |-> "document", at |-> <<>>], kids |-> <<>>]
  <2>1. KidsOf(v, -1) = <<>>
    BY <1>1, EmptySeq DEF KidsOf
  <2> QED BY <2>1 DEF NodeOf, HeadAt
<1>6. NodesOf(v) = Root
  <2>1. NodesOf(v) = [n \in 1 .. 1 |-> NodeOf(v, -1)]
    BY DEF NodesOf, Unwritten
  <2> HIDE DEF NodeOf
  <2> QED BY <1>5, <2>1 DEF Root
<1>7. PathOf(v) = <<1>>
  BY DEF PathOf, Unwritten
<1> QED BY <1>2, <1>3, <1>4, <1>6, <1>7 DEF Legible

\* So what is read of a block that is not there yet is legible.
LEMMA UnwrittenLegible == Unwritten(w) => Legible(w)
BY UnwrittenReads

\* The writer is such a one before the load and after the constructor.
LEMMA StartsUnwritten == Unwritten(NoBlock) /\ Unwritten(NewWriter(c, leftover))
BY DEF Unwritten, NoBlock, NewWriter

(***************************************************************************)
(* The first traversal, and the ends of a load.                            *)
(***************************************************************************)
Read == <<options, file, pos, csv, ReadNodes, Path>>

\* The invariant holds before the first event is read.
LEMMA InitTells == ASSUME Init PROVE TreeOK /\ Tree!Init
<1>1. w = NoBlock /\ csv = [col |-> 0, row |-> 0] /\ pos = 1 /\ stage = "count"
  BY DEF Init
<1>2. WriterOK(w)
  BY <1>1, NoBlockOK
<1>3. Legible(w) /\ NodesOf(w) = Root /\ PathOf(w) = <<1>>
  BY <1>1, StartsUnwritten, UnwrittenReads
<1>4. ReadNodes = Root /\ Path = <<1>>
  BY <1>2, <1>3, TreeNow
<1>5. TreeOK
  BY <1>1, <1>3 DEF TreeOK, LegibleOK, RowsOK, TypedOK
<1> QED BY <1>1, <1>4, <1>5 DEF Tree!Init, Tree!Idle, Root, Path

\* The first traversal leaves it, and the tree, alone.
LEMMA CountTells == ASSUME BlockInv, BlockInv', TreeOK, UNCHANGED <<options, leftover>>, CountNext PROVE TreeStep
<1>1. stage = "count" /\ UNCHANGED <<pos, csv>> /\ (w' = w \/ w' = NewWriter(c, leftover))
  BY DEF CountNext, CountKeyEvent, CountStartEvent, CountEndEvent, CountValueEvent, CountFails, Construct, Parse
<1>2. w = NoBlock /\ pos = 1 /\ csv = [col |-> 0, row |-> 0]
  <2>1. w = NoBlock
    BY <1>1 DEF BlockInv, FillOK, Built
  <2>2. csv \in [col : Nat, row : Nat] /\ pos = 1 /\ csv.col = 0 /\ csv.row = 0
    BY <1>1 DEF BlockInv, IInv, PlaceOK, TreeOK, RowsOK
  <2> QED BY <2>1, <2>2
<1>3. Unwritten(w) /\ Unwritten(w')
  BY <1>1, <1>2, StartsUnwritten
<1>4. WriterOK(w) /\ WriterOK(w')
  BY DEF BlockInv, IInv
<1>5. /\ Legible(w) /\ NodesOf(w) = Root /\ PathOf(w) = <<1>>
      /\ NodesOf(w') = Root /\ PathOf(w') = <<1>>
  BY <1>3, UnwrittenReads
<1>6. Legible(w)'
  <2>1. (Unwritten(w) => Legible(w))'
    BY UnwrittenLegible, PTL
  <2>2. Unwritten(w)'
    BY <1>3 DEF Unwritten
  <2> QED BY <2>1, <2>2
<1>7. ReadNodes = Root /\ Path = <<1>> /\ ReadNodes' = Root /\ Path' = <<1>>
  BY <1>4, <1>5, TreeNow, TreeNext
<1>8. TreeOK'
  BY <1>1, <1>2, <1>6 DEF TreeOK, LegibleOK, RowsOK, TypedOK
<1>9. Tree!Draw
  <2>1. Len(ReadNodes[1].kids) = 0
    BY <1>7 DEF Root
  <2> QED BY <1>1, <1>2, <1>7, <2>1 DEF Tree!Draw, Tree!Idle, Path
<1> QED BY <1>8, <1>9 DEF TreeStep, Tree!Next

\* A load that has ended does as well.
LEMMA StaysTell ==
  ASSUME BlockInv, BlockInv', TreeOK, UNCHANGED <<options, leftover, file, pos, csv, w>>, stage' # "write" \/ stage' = stage
  PROVE  TreeOK' /\ Read' = Read
<1>1. WriterOK(w) /\ WriterOK(w')
  BY DEF BlockInv, IInv
<1>2. ReadNodes' = ReadNodes /\ Path' = Path
  BY <1>1, TreeNow, TreeNext
<1>3. LegibleOK'
  BY DEF TreeOK, LegibleOK, Legible, RunOff
<1>4. RowsOK' /\ TypedOK'
  BY DEF TreeOK, RowsOK, TypedOK, Column, Table
<1> QED BY <1>2, <1>3, <1>4 DEF TreeOK, Read

(***************************************************************************)
(* Every step.                                                             *)
(***************************************************************************)
LEMMA StepTells ==
  ASSUME BlockInv, TreeOK, [Next]_vars
  PROVE  TreeOK' /\ [w'.wild \/ Tree!Next]_(Tree!vars)
<1>1. BlockInv'
  BY BlockStep
<1>2. Tree!vars = Read
  BY DEF Tree!vars, Read, Path
<1>3. TreeStep \/ (TreeOK' /\ Read' = Read)
  <2>1. CASE UNCHANGED vars
    BY <1>1, <2>1, StaysTell DEF vars
  <2>2. CASE UNCHANGED <<options, leftover>> /\ CountNext
    BY <1>1, <2>2, CountTells
  <2>3. CASE UNCHANGED <<options, leftover>> /\ WriteNext
    <3>1. CASE WriteSymbol \/ WriteNumber \/ WriteString
      BY <1>1, <2>3, <3>1, WriteSymbolReads, WriteNumberReads, WriteStringReads
    <3>2. CASE WriteStart \/ WriteKey \/ WriteEnd
      BY <1>1, <2>3, <3>2, WriteStartReads, WriteKeyReads, WriteEndReads
    <3>3. CASE WriteTableStart \/ WriteColumnStart \/ WriteCell
      BY <1>1, <2>3, <3>3, WriteTableStartReads, WriteColumnStartReads, WriteCellReads
    <3>4. CASE WriteColumnEnd \/ WriteTableEnd
      BY <1>1, <2>3, <3>4, WriteColumnEndReads, WriteTableEndReads
    <3>5. CASE WriteFails
      BY <1>1, <2>3, <3>5, StaysTell DEF WriteFails
    <3>6. CASE Finish
      BY <1>1, <2>3, <3>6, StaysTell DEF Finish
    <3> QED BY <2>3, <3>1, <3>2, <3>3, <3>4, <3>5, <3>6 DEF WriteNext
  <2>4. CASE UNCHANGED <<options, leftover>> /\ Returned
    BY <1>1, <2>4, StaysTell DEF Returned
  <2> QED BY <2>1, <2>2, <2>3, <2>4 DEF Next
<1>4. Tree!vars' = Read'
  BY DEF Tree!vars, Read, Path
<1> QED BY <1>2, <1>3, <1>4 DEF TreeStep

\* The block is legible in every state of a load.
LEMMA TreeAlways == Spec => [](CleanRoot => BlockInv /\ TreeOK)
<1>1. Init => TreeOK
  BY InitTells
<1>2. (CleanRoot => BlockInv /\ TreeOK) /\ [Next]_vars => (CleanRoot => TreeOK)'
  BY StepTells, RootStays
<1> QED BY <1>1, <1>2, InvBlock, PTL DEF Spec

(***************************************************************************)
(* Given CleanRoot, that the memory of the block was new or had a zero     *)
(* where the root's offset is read before it is written, the block that a  *)
(* load fills is the tree of the document: from the first event to the     *)
(* last, each handler adds to what is read of the block the member, the    *)
(* expression or the cell that the event says, on the path from the root,  *)
(* and changes nothing else.                                               *)
(***************************************************************************)
THEOREM BlockTellsDocument == Spec => BlockIsTree
<1> DEFINE A == ~CleanRoot \/ w'.wild \/ Tree!Next
           x == Tree!vars
           I == Tree!Init
<1>1. (CleanRoot => BlockInv /\ TreeOK) /\ [Next]_vars => [A]_x
  BY StepTells
<1>2. Init => I
  BY InitTells
<1> HIDE DEF A, x, I
<1>3. Spec => I /\ [][A]_x
  BY <1>1, <1>2, TreeAlways, PTL DEF Spec
<1> QED BY <1>3 DEF BlockIsTree, A, x, I

\* Every slice of the block is one of runs and single tags.
LEMMA SlotsEncoded ==
  ASSUME BlockInv, TreeOK, ~w.wild, NEW e \in Expressions \cup {-1}
  PROVE  \E run : Encoded(w.types, StartSlot(e), EndSlot(e), run)
<1>1. Expressions \cup {-1} = Ids(w)
  BY SlotsAgree DEF BlockInv
<1>2. StartSlot(e) = StartOf(w, e) /\ EndSlot(e) = EndOf(w, e)
  BY DEF StartSlot, StartOf, EndSlot, EndOf, OpenAt, OpenIn
<1>3. Encoded(w.types, StartOf(w, e), EndOf(w, e), RunIn(w, e))
  BY <1>1 DEF TreeOK, LegibleOK, Legible, EncodedIn
<1> QED BY <1>2, <1>3

(***************************************************************************)
(* Given CleanRoot, no run of equal types reaches over the end of its      *)
(* expression's slice: the writer ends a run with the expression, and      *)
(* marks it with a length that fits.                                       *)
(***************************************************************************)
THEOREM RunsStayInside == Spec => []RunsInsideSlices
<1>1. (CleanRoot => BlockInv /\ TreeOK) => RunsInsideSlices
  <2> SUFFICES ASSUME BlockInv, TreeOK, ~w.wild, NEW e \in Expressions \cup {-1}, NEW i \in Slots(e),
                      HasRLEBit(w.types[RunOf(w.types, StartSlot(e), EndSlot(e))[i]])
               PROVE  LET h == RunOf(w.types, StartSlot(e), EndSlot(e))[i] IN
                      /\ h + RunLength(w.types, h) <= EndSlot(e)
                      /\ RunLength(w.types, h) >= RLE_MINIMUM_SIZE
    BY DEF RunsInsideSlices
  <2> DEFINE h == RunOf(w.types, StartSlot(e), EndSlot(e))[i]
  <2>1. PICK run : Encoded(w.types, StartSlot(e), EndSlot(e), run)
    BY SlotsEncoded
  <2>2. i \in StartSlot(e) .. EndSlot(e) - 1
    BY DEF Slots
  <2>3. h + RunLength(w.types, h) <= EndSlot(e) /\ h \in Nat /\ StartSlot(e) \in Nat /\ EndSlot(e) \in Nat
    BY <2>1, <2>2, Covered DEF Encoded
  <2>4. HeaderOK(w.types, EndSlot(e), run, h) /\ run \in Nat
    BY <2>1, <2>2 DEF Encoded
  <2> HIDE DEF h
  <2>5. w.types[h + 1] \in RLE_MINIMUM_SIZE .. (EndSlot(e) - run) - h /\ RunLength(w.types, h) = w.types[h + 1]
    BY <2>4 DEF HeaderOK, RunLength, h
  <2>6. RunLength(w.types, h) >= RLE_MINIMUM_SIZE
    BY <2>3, <2>4, <2>5, RunLengthAssumption
  <2> QED BY <2>3, <2>6 DEF h
<1> QED BY <1>1, TreeAlways, PTL
=============================================================================
