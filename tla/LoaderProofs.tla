----------------------------- MODULE LoaderProofs -----------------------------
(***************************************************************************)
(* The loader up to the block it fills: what the parser's stack and the    *)
(* counters of the first traversal's callback have to do with one another, *)
(* what each operation of the second traversal leaves of the buffers and   *)
(* stacks of JsonToWisent, and the theorems about wisent::serializer::load *)
(* that say so, for every document, every CSV file and all its options.    *)
(***************************************************************************)
EXTENDS LoadedTree, SequenceTheorems, FiniteSetTheorems, WellFoundedInduction, TLAPS

(***************************************************************************)
(* Sequences, as far as stacks use them.                                   *)
(***************************************************************************)
LEMMA PushStack ==
  ASSUME NEW S, NEW s \in Seq(S), NEW x \in S
  PROVE  /\ Append(s, x) \in Seq(S) /\ Append(s, x) # <<>>
         /\ Len(Append(s, x)) = Len(s) + 1
         /\ Last(Append(s, x)) = x /\ Append(s, x)[Len(s) + 1] = x
         /\ \A i \in 1 .. Len(s) : Append(s, x)[i] = s[i]
  BY DEF Last

\* Popping a nonempty stack takes one from its length.
LEMMA PopLength ==
  ASSUME NEW n \in Nat, n > 0
  PROVE  /\ (IF 1 <= n - 1 THEN n - 1 - 1 + 1 ELSE 0) = n - 1
         /\ n # 1 => n - 1 \in 1 .. n - 1 /\ n - 1 \in 1 .. n
  OBVIOUS

\* Front and Last, which stand for pop_back and back of the code's vectors.
LEMMA PopStack ==
  ASSUME NEW S, NEW s \in Seq(S), s # <<>>
  PROVE  /\ Front(s) \in Seq(S) /\ Last(s) \in S /\ Last(s) = s[Len(s)]
         /\ Len(s) \in Nat /\ Len(s) > 0 /\ Len(Front(s)) = Len(s) - 1
         /\ \A i \in 1 .. Len(s) - 1 : Front(s)[i] = s[i]
         /\ Len(s) > 1 => Last(Front(s)) = s[Len(s) - 1]
<1>1. Len(s) \in Nat /\ Len(s) > 0
  BY EmptySeq
<1>2. /\ Front(s) \in Seq(S) /\ Len(Front(s)) = Len(s) - 1
      /\ \A i \in 1 .. Len(s) - 1 : Front(s)[i] = s[i]
  <2>1. \A i \in 1 .. Len(s) - 1 : s[i] \in S
    BY <1>1, ElementOfSeq
  <2>2. /\ SubSeq(s, 1, Len(s) - 1) \in Seq(S)
        /\ Len(SubSeq(s, 1, Len(s) - 1)) = IF 1 <= Len(s) - 1 THEN Len(s) - 1 - 1 + 1 ELSE 0
        /\ \A i \in 1 .. Len(s) - 1 - 1 + 1 : SubSeq(s, 1, Len(s) - 1)[i] = s[1 + i - 1]
    BY <1>1, <2>1, SubSeqProperties
  <2>3. Front(s) = SubSeq(s, 1, Len(s) - 1)
    BY DEF Front
  <2>4. \A i \in 1 .. Len(s) - 1 : i \in 1 .. Len(s) - 1 - 1 + 1 /\ 1 + i - 1 = i
    BY <1>1
  <2>5. \A i \in 1 .. Len(s) - 1 : SubSeq(s, 1, Len(s) - 1)[i] = s[i]
    <3> TAKE i \in 1 .. Len(s) - 1
    <3>1. SubSeq(s, 1, Len(s) - 1)[i] = s[1 + i - 1]
      BY <2>2, <2>4
    <3> QED BY <2>4, <3>1
  <2>6. Len(SubSeq(s, 1, Len(s) - 1)) = Len(s) - 1
    BY <1>1, <2>2, PopLength, Zenon
  <2> QED BY <2>2, <2>3, <2>5, <2>6
<1>3. Last(s) = s[Len(s)] /\ Last(s) \in S
  BY <1>1 DEF Last
<1>4. Len(s) > 1 => Last(Front(s)) = s[Len(s) - 1]
  BY <1>1, <1>2 DEF Last
<1> QED BY <1>1, <1>2, <1>3, <1>4

(***************************************************************************)
(* The parser.  The containers that are open are nested in one another,    *)
(* each one layer deeper than the one around it, or two if it has a key.   *)
(***************************************************************************)
Frame == [object : BOOLEAN, keyed : BOOLEAN, nest : Nat]
Blank == [open |-> <<>>, pending |-> FALSE]

ParserOK(p) ==
  /\ p \in [open : Seq(Frame), pending : BOOLEAN]
  /\ \A i, j \in 1 .. Len(p.open) : i < j => p.open[i].nest < p.open[j].nest
  /\ \A i \in 1 .. Len(p.open) :
       p.open[i].nest = (IF i = 1 THEN 0 ELSE p.open[i - 1].nest + 1)
                        + (IF p.open[i].keyed THEN 1 ELSE 0)

\* The events that the grammar allows, and the parser after one.
Legal(p, t) ==
  /\ t.event = "key" => p.open # <<>> /\ ~p.pending
  /\ t.event = "end" => p.open # <<>> /\ ~p.pending

Pushed(p, t) ==
  [open |-> Append(p.open, [object |-> t.event = "object", keyed |-> p.pending, nest |-> Nest(p)]),
   pending |-> FALSE]

After(p, t) ==
  IF t.event = "key" THEN [p EXCEPT !.pending = TRUE]
  ELSE IF t.event \in {"object", "array"} THEN Pushed(p, t)
  ELSE IF t.event = "end" THEN [p EXCEPT !.open = Front(@)]
  ELSE [p EXCEPT !.pending = FALSE]

\* Every open container is on a layer above the next value's, and only a
\* blank parser is on layer 0.
LEMMA NestOK ==
  ASSUME NEW p, ParserOK(p)
  PROVE  /\ Nest(p) \in Nat
         /\ Nest(p) = (IF p.open = <<>> THEN 0 ELSE p.open[Len(p.open)].nest + 1)
                      + (IF p.pending THEN 1 ELSE 0)
         /\ \A i \in 1 .. Len(p.open) : p.open[i] \in Frame /\ p.open[i].nest < Nest(p)
         /\ Nest(p) = 0 => p = Blank
<1>1. p.open \in Seq(Frame) /\ p.pending \in BOOLEAN /\ p = [open |-> p.open, pending |-> p.pending]
  BY DEF ParserOK
<1>2. CASE p.open = <<>>
  BY <1>1, <1>2 DEF Nest, Blank
<1>3. CASE p.open # <<>>
  <2>1. Last(p.open) = p.open[Len(p.open)] /\ Len(p.open) \in Nat /\ Len(p.open) > 0 /\ Last(p.open) \in Frame
    BY <1>1, <1>3, PopStack
  <2>2. Nest(p) = p.open[Len(p.open)].nest + 1 + (IF p.pending THEN 1 ELSE 0)
    BY <1>3, <2>1 DEF Nest
  <2>3. \A i \in 1 .. Len(p.open) : p.open[i] \in Frame /\ p.open[i].nest <= p.open[Len(p.open)].nest
    <3> TAKE i \in 1 .. Len(p.open)
    <3>1. p.open[i] \in Frame /\ p.open[Len(p.open)] \in Frame
      BY <1>1, <2>1
    <3>2. i < Len(p.open) => p.open[i].nest < p.open[Len(p.open)].nest
      BY <2>1 DEF ParserOK
    <3> QED BY <2>1, <3>1, <3>2 DEF Frame
  <2> QED BY <1>1, <1>3, <2>1, <2>2, <2>3 DEF Frame
<1> QED BY <1>2, <1>3

\* An event keeps the nests of the open containers in order, and moves the
\* next value by the layers that it opens or closes.
LEMMA ParserStep ==
  ASSUME NEW p, ParserOK(p), NEW t \in Token, Legal(p, t)
  PROVE  /\ ParserOK(After(p, t))
         /\ t.event = "key" => Nest(After(p, t)) = Nest(p) + 1
         /\ t.event \in {"object", "array"} => Nest(After(p, t)) = Nest(p) + 1
         /\ t.event = "end" => Nest(After(p, t)) = Nest(p) - 1
                                - (IF p.open[Len(p.open)].keyed THEN 1 ELSE 0)
         /\ t.event \notin {"key", "object", "array", "end"} =>
               Nest(After(p, t)) = Nest(p) - (IF p.pending THEN 1 ELSE 0)
<1> DEFINE q == After(p, t)
<1>1. p.open \in Seq(Frame) /\ p.pending \in BOOLEAN /\ Len(p.open) \in Nat
  BY DEF ParserOK
<1>2. CASE t.event = "key"
  <2>1. q.open = p.open /\ q.pending /\ q \in [open : Seq(Frame), pending : BOOLEAN] /\ ~p.pending
    BY <1>1, <1>2 DEF After, Legal, ParserOK
  <2>2. ParserOK(q)
    BY <2>1 DEF ParserOK
  <2>3. Nest(q) = Nest(p) + 1
    <3>1. p.open # <<>> => p.open[Len(p.open)].nest \in Nat
      BY <1>1, NestOK, EmptySeq DEF Frame
    <3> HIDE DEF q
    <3> QED BY <2>1, <2>2, <3>1, NestOK
  <2> QED BY <1>2, <2>2, <2>3
<1>3. CASE t.event \in {"object", "array"}
  <2> DEFINE frame == [object |-> t.event = "object", keyed |-> p.pending, nest |-> Nest(p)]
  <2>1. frame \in Frame
    BY <1>1, NestOK DEF Frame
  <2>2. q.open = Append(p.open, frame) /\ q.pending = FALSE
        /\ q = [open |-> Append(p.open, frame), pending |-> FALSE]
    BY <1>3 DEF After, Pushed
  <2>3. /\ q.open \in Seq(Frame) /\ q.open # <<>> /\ Len(q.open) = Len(p.open) + 1
        /\ q.open[Len(p.open) + 1] = frame
        /\ \A i \in 1 .. Len(p.open) : q.open[i] = p.open[i]
    <3> HIDE DEF frame
    <3> QED BY <1>1, <2>1, <2>2, PushStack
  <2>4. frame.nest = Nest(p) /\ frame.keyed = p.pending
    OBVIOUS
  <2> HIDE DEF frame, q
  <2>5. \A i, j \in 1 .. Len(q.open) : i < j => q.open[i].nest < q.open[j].nest
    <3> TAKE i, j \in 1 .. Len(q.open)
    <3> HAVE i < j
    <3>1. i \in 1 .. Len(p.open) /\ q.open[i] = p.open[i]
      BY <1>1, <2>3
    <3>2. CASE j = Len(p.open) + 1
      BY <2>3, <2>4, <3>1, <3>2, NestOK
    <3>3. CASE j # Len(p.open) + 1
      <4>1. j \in 1 .. Len(p.open)
        BY <1>1, <2>3, <3>3
      <4> QED BY <2>3, <3>1, <4>1 DEF ParserOK
    <3> QED BY <3>2, <3>3
  <2>6. \A i \in 1 .. Len(q.open) :
          q.open[i].nest = (IF i = 1 THEN 0 ELSE q.open[i - 1].nest + 1)
                           + (IF q.open[i].keyed THEN 1 ELSE 0)
    <3> TAKE i \in 1 .. Len(q.open)
    <3>1. CASE i = Len(p.open) + 1
      <4>1. CASE p.open = <<>>
        BY <1>1, <2>3, <2>4, <3>1, <4>1, NestOK
      <4>2. CASE p.open # <<>>
        <5>1. Len(p.open) > 0
          BY <1>1, <4>2, EmptySeq
        <5> QED BY <1>1, <2>3, <2>4, <3>1, <4>2, <5>1, NestOK
      <4> QED BY <4>1, <4>2
    <3>2. CASE i # Len(p.open) + 1
      <4>1. i \in 1 .. Len(p.open) /\ q.open[i] = p.open[i]
        BY <1>1, <2>3, <3>2
      <4>2. i # 1 => i - 1 \in 1 .. Len(p.open) /\ q.open[i - 1] = p.open[i - 1]
        BY <1>1, <2>3, <4>1
      <4> QED BY <4>1, <4>2 DEF ParserOK
    <3> QED BY <3>1, <3>2
  <2>7. ParserOK(q)
    BY <2>2, <2>3, <2>5, <2>6 DEF ParserOK
  <2>8. Nest(q) = Nest(p) + 1
    BY <1>1, <2>2, <2>3, <2>4, <2>7, NestOK
  <2> QED BY <1>3, <2>7, <2>8 DEF q
<1>4. CASE t.event = "end"
  <2>1. p.open # <<>> /\ ~p.pending
    BY <1>4 DEF Legal
  <2>2. q.open = Front(p.open) /\ q.pending = FALSE /\ q = [open |-> Front(p.open), pending |-> FALSE]
    BY <1>1, <1>4, <2>1 DEF After, ParserOK
  <2>3. /\ q.open \in Seq(Frame) /\ Len(q.open) = Len(p.open) - 1 /\ Len(p.open) > 0
        /\ \A i \in 1 .. Len(p.open) - 1 : q.open[i] = p.open[i]
    BY <1>1, <2>1, <2>2, PopStack
  <2> HIDE DEF q
  <2>4. ParserOK(q)
    <3>1. \A i \in 1 .. Len(q.open) : i \in 1 .. Len(p.open) /\ q.open[i] = p.open[i]
      BY <1>1, <2>3
    <3>2. \A i \in 1 .. Len(q.open) : i # 1 => q.open[i - 1] = p.open[i - 1]
      BY <1>1, <2>3
    <3>3. q \in [open : Seq(Frame), pending : BOOLEAN]
      BY <2>2, <2>3
    <3>4. \A i, j \in 1 .. Len(q.open) : i < j => q.open[i].nest < q.open[j].nest
      BY <3>1 DEF ParserOK
    <3>5. \A i \in 1 .. Len(q.open) :
            q.open[i].nest = (IF i = 1 THEN 0 ELSE q.open[i - 1].nest + 1)
                             + (IF q.open[i].keyed THEN 1 ELSE 0)
      BY <3>1, <3>2 DEF ParserOK
    <3> QED BY <3>3, <3>4, <3>5 DEF ParserOK
  <2>5. Nest(q) = Nest(p) - 1 - (IF p.open[Len(p.open)].keyed THEN 1 ELSE 0)
    <3>1. Nest(p) = p.open[Len(p.open)].nest + 1
      <4>1. p.open[Len(p.open)].nest \in Nat
        BY <1>1, <2>3, NestOK DEF Frame
      <4> QED BY <2>1, <4>1, NestOK
    <3>2. p.open[Len(p.open)].nest = (IF Len(p.open) = 1 THEN 0 ELSE p.open[Len(p.open) - 1].nest + 1)
                                     + (IF p.open[Len(p.open)].keyed THEN 1 ELSE 0)
      <4>1. Len(p.open) \in 1 .. Len(p.open)
        BY <1>1, <2>3
      <4> QED BY <4>1 DEF ParserOK
    <3>3. CASE Len(p.open) = 1
      <4>1. q.open = <<>>
        BY <2>3, <3>3, EmptySeq
      <4> QED BY <2>2, <2>4, <3>1, <3>2, <3>3, <4>1, NestOK
    <3>4. CASE Len(p.open) # 1
      <4>1. Len(q.open) = Len(p.open) - 1 /\ Len(p.open) - 1 \in 1 .. Len(p.open) - 1
            /\ Len(p.open) - 1 \in 1 .. Len(p.open)
        <5>1. Len(p.open) \in Nat /\ Len(p.open) > 0 /\ Len(q.open) = Len(p.open) - 1
          BY <1>1, <2>3
        <5> QED BY <3>4, <5>1, PopLength, Zenon
      <4>4. q.open # <<>>
        BY <4>1, EmptySeq
      <4>2. q.open[Len(q.open)] = p.open[Len(p.open) - 1] /\ p.open[Len(p.open) - 1].nest \in Nat
        BY <2>3, <4>1, NestOK DEF Frame
      <4>3. Nest(q) = p.open[Len(p.open) - 1].nest + 1
        BY <2>2, <2>4, <4>2, <4>4, NestOK
      <4> QED BY <3>1, <3>2, <3>4, <4>2, <4>3
    <3> QED BY <3>3, <3>4
  <2> QED BY <1>4, <2>4, <2>5 DEF q
<1>5. CASE t.event \notin {"key", "object", "array", "end"}
  <2>1. q.open = p.open /\ q.pending = FALSE /\ q \in [open : Seq(Frame), pending : BOOLEAN]
    BY <1>1, <1>5 DEF After, ParserOK
  <2>2. ParserOK(q)
    BY <2>1 DEF ParserOK
  <2>3. Nest(q) = Nest(p) - (IF p.pending THEN 1 ELSE 0)
    <3>1. p.open # <<>> => p.open[Len(p.open)].nest \in Nat
      BY <1>1, NestOK, EmptySeq DEF Frame
    <3> HIDE DEF q
    <3> QED BY <1>1, <2>1, <2>2, <3>1, NestOK
  <2> QED BY <1>5, <2>2, <2>3
<1> QED BY <1>2, <1>3, <1>4, <1>5

(***************************************************************************)
(* Which keys wait for their value: the counting handler knows them by the *)
(* depth of the parser, the writer by its own layer.                       *)
(***************************************************************************)
Keyed(p) == {i \in 1 .. Len(p.open) : p.open[i].keyed}
KeyDepths(p) == {i - 1 : i \in Keyed(p)} \cup (IF p.pending THEN {Len(p.open)} ELSE {})
KeyLayers(p) == {p.open[i].nest : i \in Keyed(p)} \cup (IF p.pending THEN {Nest(p)} ELSE {})

\* Which open containers have a key in front of them, after an event.
LEMMA KeyedStep ==
  ASSUME NEW p, ParserOK(p), NEW t \in Token, Legal(p, t)
  PROVE  /\ t.event = "key" => Keyed(After(p, t)) = Keyed(p)
         /\ t.event \in {"object", "array"} =>
              Keyed(After(p, t)) = Keyed(p) \cup (IF p.pending THEN {Len(p.open) + 1} ELSE {})
         /\ t.event = "end" => Keyed(After(p, t)) = Keyed(p) \ {Len(p.open)}
         /\ t.event \notin {"key", "object", "array", "end"} => Keyed(After(p, t)) = Keyed(p)
         /\ t.event \notin {"end", "object", "array"} => After(p, t).open = p.open
         /\ \A i \in 1 .. Len(p.open) :
              i <= Len(After(p, t).open) => After(p, t).open[i] = p.open[i]
<1> DEFINE q == After(p, t)
<1>1. p.open \in Seq(Frame) /\ p.pending \in BOOLEAN /\ Len(p.open) \in Nat
      /\ p = [open |-> p.open, pending |-> p.pending]
  BY DEF ParserOK
<1>2. CASE t.event \notin {"object", "array", "end"}
  <2>1. q.open = p.open
    BY <1>1, <1>2 DEF After
  <2> QED BY <1>2, <2>1 DEF Keyed
<1>3. CASE t.event \in {"object", "array"}
  <2> DEFINE frame == [object |-> t.event = "object", keyed |-> p.pending, nest |-> Nest(p)]
  <2>1. frame \in Frame /\ frame.keyed = p.pending
    BY <1>1, NestOK DEF Frame
  <2>2. q.open = Append(p.open, frame)
    BY <1>3 DEF After, Pushed
  <2> HIDE DEF frame, q
  <2>3. /\ Len(q.open) = Len(p.open) + 1 /\ q.open[Len(p.open) + 1] = frame
        /\ \A i \in 1 .. Len(p.open) : q.open[i] = p.open[i]
    BY <1>1, <2>1, <2>2, PushStack
  <2>4. Keyed(q) = Keyed(p) \cup (IF p.pending THEN {Len(p.open) + 1} ELSE {})
    BY <1>1, <2>1, <2>3 DEF Keyed
  <2> QED BY <1>3, <2>3, <2>4 DEF q
<1>4. CASE t.event = "end"
  <2>1. q.open = Front(p.open) /\ p.open # <<>>
    BY <1>1, <1>4 DEF After, Legal
  <2> HIDE DEF q
  <2>2. /\ Len(q.open) = Len(p.open) - 1 /\ Len(p.open) > 0
        /\ \A i \in 1 .. Len(p.open) - 1 : q.open[i] = p.open[i]
    BY <1>1, <2>1, PopStack
  <2>3. Keyed(q) = Keyed(p) \ {Len(p.open)}
    BY <1>1, <2>2 DEF Keyed
  <2>4. \A i \in 1 .. Len(p.open) : i <= Len(q.open) => q.open[i] = p.open[i]
    BY <1>1, <2>2
  <2> QED BY <1>4, <2>3, <2>4 DEF q
<1> QED BY <1>2, <1>3, <1>4

\* The parser is the same for both bookkeepings; the depths first.
LEMMA DepthsStep ==
  ASSUME NEW p, ParserOK(p), NEW t \in Token, Legal(p, t)
  PROVE  /\ t.event = "key" => KeyDepths(After(p, t)) = KeyDepths(p) \cup {Len(p.open)}
         /\ t.event \in {"object", "array"} => KeyDepths(After(p, t)) = KeyDepths(p)
         /\ t.event = "end" =>
              /\ KeyDepths(After(p, t)) = KeyDepths(p) \ {Len(p.open) - 1}
              /\ Len(p.open) - 1 \in KeyDepths(p) <=> p.open[Len(p.open)].keyed
         /\ t.event \notin {"key", "object", "array", "end"} =>
              /\ KeyDepths(After(p, t)) = KeyDepths(p) \ {Len(p.open)}
              /\ Len(p.open) \in KeyDepths(p) <=> p.pending
<1> DEFINE q == After(p, t)
<1>1. p.open \in Seq(Frame) /\ p.pending \in BOOLEAN /\ Len(p.open) \in Nat
      /\ p = [open |-> p.open, pending |-> p.pending]
  BY DEF ParserOK
<1>2. Keyed(p) \subseteq 1 .. Len(p.open)
  BY DEF Keyed
<1>3. CASE t.event = "key"
  <2>1. q.open = p.open /\ q.pending = TRUE /\ p.pending = FALSE /\ Keyed(q) = Keyed(p)
    BY <1>1, <1>3, KeyedStep DEF After, Legal
  <2> HIDE DEF q
  <2>2. KeyDepths(q) = KeyDepths(p) \cup {Len(p.open)}
    BY <2>1 DEF KeyDepths
  <2> QED BY <1>3, <2>2 DEF q
<1>4. CASE t.event \in {"object", "array"}
  <2>1. q.pending = FALSE /\ Keyed(q) = Keyed(p) \cup (IF p.pending THEN {Len(p.open) + 1} ELSE {})
    BY <1>1, <1>4, KeyedStep DEF After, Pushed
  <2> HIDE DEF q
  <2>2. KeyDepths(q) = KeyDepths(p)
    <3>1. KeyDepths(q) = {i - 1 : i \in Keyed(q)}
      BY <2>1 DEF KeyDepths
    <3>2. CASE p.pending
      <4>1. Keyed(q) = Keyed(p) \cup {Len(p.open) + 1} /\ Len(p.open) + 1 - 1 = Len(p.open)
        BY <1>1, <2>1, <3>2
      <4>2. {i - 1 : i \in Keyed(q)} = {i - 1 : i \in Keyed(p)} \cup {Len(p.open)}
        <5> DEFINE K == Keyed(p)
                   n == Len(p.open)
        <5>1. K \subseteq 1 .. n /\ n \in Nat /\ Keyed(q) = K \cup {n + 1}
          BY <1>1, <1>2, <4>1
        <5> HIDE DEF K, n
        <5>2. \A i \in K \cup {n + 1} : i - 1 \in {j - 1 : j \in K} \cup {n}
          BY <5>1
        <5>3. \A x \in {j - 1 : j \in K} \cup {n} : \E i \in K \cup {n + 1} : x = i - 1
          BY <5>1
        <5>4. {i - 1 : i \in K \cup {n + 1}} = {j - 1 : j \in K} \cup {n}
          BY <5>2, <5>3
        <5> QED BY <5>1, <5>4 DEF K, n
      <4>3. KeyDepths(p) = {i - 1 : i \in Keyed(p)} \cup {Len(p.open)}
        BY <3>2 DEF KeyDepths
      <4> QED BY <3>1, <4>2, <4>3
    <3>3. CASE ~p.pending
      BY <2>1, <3>1, <3>3 DEF KeyDepths
    <3> QED BY <3>2, <3>3
  <2> QED BY <1>4, <2>2 DEF q
<1>5. CASE t.event = "end"
  <2>1. q.pending = FALSE /\ p.pending = FALSE /\ Keyed(q) = Keyed(p) \ {Len(p.open)}
        /\ p.open # <<>>
    BY <1>1, <1>5, KeyedStep DEF After, Legal
  <2> HIDE DEF q
  <2>2. KeyDepths(q) = KeyDepths(p) \ {Len(p.open) - 1}
    BY <1>1, <1>2, <2>1 DEF KeyDepths
  <2>3. Len(p.open) > 0
    BY <1>1, <2>1, EmptySeq
  <2>4. Len(p.open) - 1 \in KeyDepths(p) <=> Len(p.open) \in Keyed(p)
    BY <1>1, <1>2, <2>1 DEF KeyDepths
  <2>5. Len(p.open) \in Keyed(p) <=> p.open[Len(p.open)].keyed
    BY <1>1, <2>3 DEF Keyed
  <2> QED BY <1>5, <2>2, <2>4, <2>5 DEF q
<1>6. CASE t.event \notin {"key", "object", "array", "end"}
  <2>1. q.pending = FALSE /\ Keyed(q) = Keyed(p) /\ q.open = p.open
    BY <1>1, <1>6, KeyedStep DEF After
  <2> HIDE DEF q
  <2>2. KeyDepths(q) = KeyDepths(p) \ {Len(p.open)}
    BY <1>1, <1>2, <2>1 DEF KeyDepths
  <2>3. Len(p.open) \in KeyDepths(p) <=> p.pending
    BY <1>1, <1>2 DEF KeyDepths
  <2> QED BY <1>6, <2>2, <2>3 DEF q
<1> QED BY <1>3, <1>4, <1>5, <1>6

\* The layers: a container's layer is above those around it, so it has a bit of its own.
LEMMA LayersStep ==
  ASSUME NEW p, ParserOK(p), NEW t \in Token, Legal(p, t)
  PROVE  /\ t.event = "key" => KeyLayers(After(p, t)) = KeyLayers(p) \cup {Nest(p) + 1}
         /\ t.event \in {"object", "array"} => KeyLayers(After(p, t)) = KeyLayers(p)
         /\ t.event = "end" =>
              /\ KeyLayers(After(p, t)) = KeyLayers(p) \ {Nest(p) - 1}
              /\ Nest(p) - 1 \in KeyLayers(p) <=> p.open[Len(p.open)].keyed
         /\ t.event \notin {"key", "object", "array", "end"} =>
              /\ KeyLayers(After(p, t)) = KeyLayers(p) \ {Nest(p)}
              /\ Nest(p) \in KeyLayers(p) <=> p.pending
         /\ KeyLayers(p) \subseteq Nat \ {0}
<1> DEFINE q == After(p, t)
<1>1. p.open \in Seq(Frame) /\ p.pending \in BOOLEAN /\ Len(p.open) \in Nat
      /\ p = [open |-> p.open, pending |-> p.pending]
  BY DEF ParserOK
<1>2. Keyed(p) \subseteq 1 .. Len(p.open) /\ \A i \in Keyed(p) : p.open[i].keyed
  BY DEF Keyed
<1>3. Nest(p) \in Nat /\ \A i \in Keyed(p) : p.open[i].nest \in Nat /\ p.open[i].nest < Nest(p)
  BY <1>2, NestOK DEF Frame
<1>7. KeyLayers(p) \subseteq Nat \ {0}
  <2>1. \A i \in Keyed(p) : p.open[i].nest # 0
    <3> TAKE i \in Keyed(p)
    <3>1. i \in 1 .. Len(p.open) /\ p.open[i].keyed
      BY <1>2
    <3>2. i # 1 => i - 1 \in 1 .. Len(p.open)
      BY <1>1, <3>1
    <3>3. i # 1 => p.open[i - 1].nest \in Nat
      BY <3>2, NestOK DEF Frame
    <3>4. p.open[i].nest = (IF i = 1 THEN 0 ELSE p.open[i - 1].nest + 1) + 1
      BY <3>1 DEF ParserOK
    <3> QED BY <3>3, <3>4
  <2>2. p.pending => Nest(p) # 0
    <3>1. Nest(p) = 0 => p = Blank
      BY NestOK
    <3> QED BY <3>1 DEF Blank
  <2> QED BY <1>3, <2>1, <2>2 DEF KeyLayers
<1>4. CASE t.event = "key"
  <2>1. q.open = p.open /\ q.pending = TRUE /\ p.pending = FALSE /\ Keyed(q) = Keyed(p)
    BY <1>1, <1>4, KeyedStep DEF After, Legal
  <2>2. Nest(q) = Nest(p) + 1
    BY <1>4, ParserStep
  <2> HIDE DEF q
  <2>3. KeyLayers(q) = KeyLayers(p) \cup {Nest(p) + 1}
    BY <2>1, <2>2 DEF KeyLayers
  <2> QED BY <1>4, <1>7, <2>3 DEF q
<1>5. CASE t.event \in {"object", "array"}
  <2> DEFINE frame == [object |-> t.event = "object", keyed |-> p.pending, nest |-> Nest(p)]
  <2>1. q.pending = FALSE /\ Keyed(q) = Keyed(p) \cup (IF p.pending THEN {Len(p.open) + 1} ELSE {})
    BY <1>1, <1>5, KeyedStep DEF After, Pushed
  <2>2. q.open = Append(p.open, frame) /\ frame.nest = Nest(p) /\ frame \in Frame
    BY <1>1, <1>3, <1>5 DEF After, Pushed, Frame
  <2> HIDE DEF q, frame
  <2>3. q.open[Len(p.open) + 1] = frame /\ \A i \in 1 .. Len(p.open) : q.open[i] = p.open[i]
    BY <1>1, <2>2, PushStack
  <2>4. KeyLayers(q) = {q.open[i].nest : i \in Keyed(q)}
    BY <2>1 DEF KeyLayers
  <2>5. \A i \in Keyed(p) : q.open[i].nest = p.open[i].nest
    BY <1>2, <2>3
  <2>6. q.open[Len(p.open) + 1].nest = Nest(p)
    BY <2>2, <2>3
  <2>7. CASE p.pending
    <3>1. Keyed(q) = Keyed(p) \cup {Len(p.open) + 1}
      BY <2>1, <2>7
    <3>2. KeyLayers(p) = {p.open[i].nest : i \in Keyed(p)} \cup {Nest(p)}
      BY <2>7 DEF KeyLayers
    <3> QED BY <1>5, <1>7, <2>4, <2>5, <2>6, <3>1, <3>2 DEF q
  <2>8. CASE ~p.pending
    <3>1. Keyed(q) = Keyed(p)
      BY <2>1, <2>8
    <3>2. KeyLayers(p) = {p.open[i].nest : i \in Keyed(p)}
      BY <2>8 DEF KeyLayers
    <3> QED BY <1>5, <1>7, <2>4, <2>5, <3>1, <3>2 DEF q
  <2> QED BY <1>1, <2>7, <2>8
<1>6. CASE t.event = "end"
  <2>1. q.pending = FALSE /\ p.pending = FALSE /\ p.open # <<>> /\ Keyed(q) = Keyed(p) \ {Len(p.open)}
    BY <1>1, <1>6, KeyedStep DEF After, Legal
  <2>2. q.open = Front(p.open)
    BY <1>1, <1>6 DEF After
  <2> HIDE DEF q
  <2>3. /\ Len(p.open) > 0
        /\ \A i \in 1 .. Len(p.open) - 1 : q.open[i] = p.open[i]
    BY <1>1, <2>1, <2>2, PopStack
  <2>4. Len(p.open) \in 1 .. Len(p.open)
    BY <1>1, <2>3
  <2>5. p.open[Len(p.open)].nest \in Nat /\ Nest(p) = p.open[Len(p.open)].nest + 1
    <3>1. p.open[Len(p.open)].nest \in Nat
      BY <2>4, NestOK DEF Frame
    <3> QED BY <2>1, <3>1, NestOK
  <2>6. \A i \in Keyed(p) \ {Len(p.open)} : i \in 1 .. Len(p.open) /\ i < Len(p.open)
    BY <1>1, <1>2
  <2>7. \A i \in Keyed(p) \ {Len(p.open)} :
          p.open[i].nest < Nest(p) - 1 /\ q.open[i].nest = p.open[i].nest
    <3> TAKE i \in Keyed(p) \ {Len(p.open)}
    <3>1. p.open[i].nest < p.open[Len(p.open)].nest
      BY <2>4, <2>6 DEF ParserOK
    <3>2. i \in 1 .. Len(p.open) - 1
      BY <1>1, <2>6
    <3> QED BY <2>3, <2>5, <3>1, <3>2
  <2>8. KeyLayers(q) = {p.open[i].nest : i \in Keyed(p) \ {Len(p.open)}}
    BY <2>1, <2>7 DEF KeyLayers
  <2>9. KeyLayers(p) = {p.open[i].nest : i \in Keyed(p)}
    BY <2>1 DEF KeyLayers
  <2>10. p.open[Len(p.open)].nest = Nest(p) - 1
    BY <2>5
  <2>11. Len(p.open) \in Keyed(p) <=> p.open[Len(p.open)].keyed
    BY <2>4 DEF Keyed
  <2>12. \A i \in Keyed(p) \ {Len(p.open)} : p.open[i].nest # Nest(p) - 1
    BY <1>3, <2>7
  <2>13. KeyLayers(q) = KeyLayers(p) \ {Nest(p) - 1}
    BY <2>8, <2>9, <2>10, <2>12, Zenon
  <2>14. Nest(p) - 1 \in KeyLayers(p) <=> Len(p.open) \in Keyed(p)
    BY <2>9, <2>10, <2>12, Zenon
  <2> QED BY <1>6, <1>7, <2>11, <2>13, <2>14 DEF q
<1>8. CASE t.event \notin {"key", "object", "array", "end"}
  <2>1. q.pending = FALSE /\ Keyed(q) = Keyed(p) /\ q.open = p.open
    BY <1>1, <1>8, KeyedStep DEF After
  <2> HIDE DEF q
  <2>2. KeyLayers(q) = KeyLayers(p) \ {Nest(p)}
    BY <1>3, <2>1 DEF KeyLayers
  <2>3. Nest(p) \in KeyLayers(p) <=> p.pending
    BY <1>3 DEF KeyLayers
  <2> QED BY <1>7, <1>8, <2>2, <2>3 DEF q
<1> QED BY <1>4, <1>5, <1>6, <1>8

(***************************************************************************)
(* The counting handler.                                                   *)
(***************************************************************************)
Vector(S) == UNION {[0 .. n - 1 -> S] : n \in Nat}
Layers == Vector(Nat)
Counters == [expressionCount : Nat, perLayer : Layers, layer : Nat, keyValue : SUBSET Nat]
CountersOK(p, k) == k \in Counters /\ k.layer = Nest(p) /\ k.keyValue = KeyDepths(p)

CountOf(p, k, t) ==
  IF t.event = "key" THEN CountKey(k, Len(p.open))
  ELSE IF t.event \in {"object", "array"} THEN CountStart(k)
  ELSE IF t.event = "end" THEN CountEnd(k, Len(p.open) - 1)
  ELSE CountValue(k, Len(p.open), t)

\* The count of a layer, and what an event on layer L adds to that of layer l;
\* tabled says whether it is taken for a CSV file.
Count(f, l) == IF l \in DOMAIN f THEN f[l] ELSE 0
Adds(t, tabled, L, l) ==
  (IF l = L /\ t.event # "end" THEN 1 ELSE 0)
  + (IF tabled /\ l = L + 1 THEN Len(t.table) ELSE 0)
  + (IF tabled /\ l = L + 2 THEN Len(t.table) * RowCount(t.table) ELSE 0)
AddsExpressions(t, tabled) ==
  IF t.event \in {"key", "object", "array"} THEN 1
  ELSE IF tabled THEN 1 + Len(t.table) ELSE 0
Grew(k, j, t, tabled, L) ==
  /\ j.expressionCount = k.expressionCount + AddsExpressions(t, tabled)
  /\ DOMAIN k.perLayer \cup 0 .. L \subseteq DOMAIN j.perLayer
  /\ tabled => 0 .. L + 2 \subseteq DOMAIN j.perLayer
  /\ \A l \in Nat : Count(j.perLayer, l) = Count(k.perLayer, l) + Adds(t, tabled, L, l)

\* std::vector::resize of argumentCountPerLayer keeps the counts it has.
LEMMA ResizeOK ==
  ASSUME NEW f \in Layers, NEW m \in Nat
  PROVE  /\ Resize(f, m) \in Layers
         /\ DOMAIN f \subseteq Nat
         /\ DOMAIN Resize(f, m) = DOMAIN f \cup 0 .. m - 1
         /\ \A l \in Nat : Count(Resize(f, m), l) = Count(f, l) /\ Count(f, l) \in Nat
<1>1. PICK n \in Nat : f \in [0 .. n - 1 -> Nat]
  BY DEF Layers, Vector
<1>2. DOMAIN Resize(f, m) = DOMAIN f \cup 0 .. m - 1
  BY DEF Resize
<1>3. \A l \in DOMAIN f \cup 0 .. m - 1 :
        Resize(f, m)[l] = IF l \in DOMAIN f THEN f[l] ELSE 0
  BY DEF Resize
<1>4. \A l \in DOMAIN f \cup 0 .. m - 1 : Resize(f, m)[l] \in Nat
  BY <1>1, <1>3
<1>5. PICK o \in Nat : DOMAIN f \cup 0 .. m - 1 = 0 .. o - 1
  <2>1. CASE m <= n
    BY <1>1, <2>1
  <2>2. CASE m > n
    BY <1>1, <2>2
  <2> QED BY <2>1, <2>2
<1>6. Resize(f, m) \in [0 .. o - 1 -> Nat]
  BY <1>2, <1>4, <1>5 DEF Resize
<1>7. Resize(f, m) \in Layers
  BY <1>6 DEF Layers, Vector
<1>8. \A l \in Nat : Count(Resize(f, m), l) = Count(f, l) /\ Count(f, l) \in Nat
  BY <1>1, <1>2, <1>3 DEF Count
<1> QED BY <1>1, <1>2, <1>7, <1>8

\* Every callback counts one argument of its layer first.
CountedOne(k) == [Resized(k) EXCEPT !.perLayer[k.layer] = @ + 1]

\* Every callback counts one argument on the layer it is on.
LEMMA CountOneOK ==
  ASSUME NEW k \in Counters
  PROVE  /\ CountedOne(k) \in Counters
         /\ CountedOne(k).layer = k.layer /\ CountedOne(k).keyValue = k.keyValue
         /\ CountedOne(k).expressionCount = k.expressionCount
         /\ DOMAIN CountedOne(k).perLayer = DOMAIN k.perLayer \cup 0 .. k.layer
         /\ \A l \in Nat : Count(CountedOne(k).perLayer, l)
                           = Count(k.perLayer, l) + (IF l = k.layer THEN 1 ELSE 0)
<1> DEFINE f == Resize(k.perLayer, k.layer + 1)
           g == [f EXCEPT ![k.layer] = @ + 1]
<1>1. k.perLayer \in Layers /\ k.layer \in Nat /\ k.layer + 1 \in Nat
  BY DEF Counters
<1>2. f \in Layers /\ DOMAIN f = DOMAIN k.perLayer \cup 0 .. k.layer
      /\ \A l \in Nat : Count(f, l) = Count(k.perLayer, l) /\ Count(k.perLayer, l) \in Nat
  <2>1. 0 .. (k.layer + 1) - 1 = 0 .. k.layer
    BY <1>1
  <2> QED BY <1>1, <2>1, ResizeOK
<1>3. CountedOne(k) = [k EXCEPT !.perLayer = g]
  BY DEF CountedOne, Resized, Counters
<1> HIDE DEF f
<1>4. g \in Layers /\ DOMAIN g = DOMAIN f
  <2>1. PICK n \in Nat : f \in [0 .. n - 1 -> Nat]
    BY <1>2 DEF Layers, Vector
  <2>2. \A l \in 0 .. n - 1 : g[l] \in Nat
    <3> TAKE l \in 0 .. n - 1
    <3>1. f[l] \in Nat /\ l \in DOMAIN f
      BY <2>1
    <3>2. g[l] = IF l = k.layer THEN f[l] + 1 ELSE f[l]
      BY <3>1
    <3> QED BY <3>1, <3>2
  <2>3. g \in [0 .. n - 1 -> Nat]
    BY <2>1, <2>2
  <2> QED BY <2>1, <2>2, <2>3 DEF Layers, Vector
<1>5. \A l \in Nat : Count(g, l) = Count(f, l) + (IF l = k.layer THEN 1 ELSE 0)
  <2>1. k.layer \in DOMAIN f
    BY <1>1, <1>2
  <2>2. \A l \in DOMAIN f : f[l] \in Nat
    BY <1>2 DEF Layers, Vector
  <2> QED BY <1>1, <2>1, <2>2 DEF Count
<1> HIDE DEF g
<1> QED BY <1>1, <1>2, <1>3, <1>4, <1>5 DEF Counters

\* The end of a value takes back the key bit of its depth and the layer.
LEMMA LeaveKeyOK ==
  ASSUME NEW k \in Counters, NEW d \in Nat, d \in k.keyValue => k.layer > 0
  PROVE  /\ LeaveKey(k, d) \in Counters
         /\ LeaveKey(k, d).layer = k.layer - (IF d \in k.keyValue THEN 1 ELSE 0)
         /\ LeaveKey(k, d).keyValue = k.keyValue \ {d}
         /\ LeaveKey(k, d).expressionCount = k.expressionCount
         /\ LeaveKey(k, d).perLayer = k.perLayer
<1>1. k.layer \in Nat
  BY DEF Counters
<1>2. CASE d \in k.keyValue
  <2>1. LeaveKey(k, d) = [k EXCEPT !.keyValue = k.keyValue \ {d}, !.layer = k.layer - 1]
    BY <1>2 DEF LeaveKey
  <2>2. k.layer - 1 \in Nat
    BY <1>1, <1>2
  <2>3. k.keyValue \ {d} \in SUBSET Nat
    BY DEF Counters
  <2>4. k \in [expressionCount : Nat, perLayer : Layers, layer : Nat, keyValue : SUBSET Nat]
    BY DEF Counters
  <2>5. LeaveKey(k, d) \in Counters
    BY <2>1, <2>2, <2>3, <2>4 DEF Counters
  <2> QED BY <1>2, <2>1, <2>4, <2>5
<1>3. CASE d \notin k.keyValue
  <2>1. LeaveKey(k, d) = k
    BY <1>3 DEF LeaveKey
  <2>2. k.keyValue \ {d} = k.keyValue
    BY <1>3
  <2> QED BY <1>1, <1>3, <2>1, <2>2
<1> QED BY <1>2, <1>3

\* A table in a document has whole numbers of columns and rows.
LEMMA TableOK ==
  ASSUME NEW t \in Token
  PROVE  /\ t.table \in Seq(Seq(Cell)) /\ Len(t.table) \in Nat /\ RowCount(t.table) \in Nat
         /\ Len(t.table) * RowCount(t.table) \in Nat
         /\ IsCsv(t) => t.event \notin {"key", "object", "array", "end"}
<1>1. t.table \in Seq(Seq(Cell))
  <2>1. t.table \in Tables \cup {<<>>}
    BY DEF Token
  <2>2. Tables \subseteq Seq(Seq(Cell))
    BY LoadAssumption
  <2>3. <<>> \in Seq(Seq(Cell))
    BY EmptySeq
  <2> QED BY <2>1, <2>2, <2>3
<1>2. RowCount(t.table) \in Nat
  <2>1. CASE t.table = <<>>
    BY <2>1 DEF RowCount
  <2>2. CASE t.table # <<>>
    <3>1. t.table[1] \in Seq(Cell)
      BY <1>1, <2>2
    <3> QED BY <2>2, <3>1 DEF RowCount
  <2> QED BY <2>1, <2>2
<1>3. \A m, n \in Nat : m * n \in Nat
  OBVIOUS
<1> QED BY <1>1, <1>2, <1>3 DEF IsCsv

\* The counts of a CSV file: columns one layer down, cells two.
LEMMA AddTableOK ==
  ASSUME NEW k \in Counters, NEW a \in Nat, NEW m \in Nat, NEW n \in Nat
  PROVE  /\ AddTable(k, a, m, n) \in Counters
         /\ AddTable(k, a, m, n).layer = k.layer /\ AddTable(k, a, m, n).keyValue = k.keyValue
         /\ AddTable(k, a, m, n).expressionCount = k.expressionCount + a
         /\ DOMAIN k.perLayer \subseteq DOMAIN AddTable(k, a, m, n).perLayer
         /\ 0 .. k.layer + 2 \subseteq DOMAIN AddTable(k, a, m, n).perLayer
         /\ \A l \in Nat : Count(AddTable(k, a, m, n).perLayer, l)
                           = Count(k.perLayer, l) + (IF l = k.layer + 1 THEN m ELSE 0)
                                                  + (IF l = k.layer + 2 THEN n ELSE 0)
<1> DEFINE f == Resize(k.perLayer, k.layer + 3)
           g == [l \in DOMAIN f |-> f[l] + (IF l = k.layer + 1 THEN m ELSE 0)
                                         + (IF l = k.layer + 2 THEN n ELSE 0)]
<1>1. k.perLayer \in Layers /\ k.layer \in Nat /\ k.layer + 3 \in Nat /\ k.expressionCount \in Nat
  BY DEF Counters
<1>2. f \in Layers /\ DOMAIN f = DOMAIN k.perLayer \cup 0 .. k.layer + 2
      /\ \A l \in Nat : Count(f, l) = Count(k.perLayer, l) /\ Count(k.perLayer, l) \in Nat
  <2>1. 0 .. (k.layer + 3) - 1 = 0 .. k.layer + 2
    BY <1>1
  <2> QED BY <1>1, <2>1, ResizeOK
<1>3. AddTable(k, a, m, n) = [k EXCEPT !.expressionCount = @ + a, !.perLayer = g]
  BY DEF AddTable, Counters
<1> HIDE DEF f
<1>4. g \in Layers /\ DOMAIN g = DOMAIN f
  <2>1. PICK o \in Nat : f \in [0 .. o - 1 -> Nat]
    BY <1>2 DEF Layers, Vector
  <2>2. \A l \in 0 .. o - 1 : f[l] \in Nat /\ g[l] \in Nat
    <3> TAKE l \in 0 .. o - 1
    <3>1. f[l] \in Nat
      BY <2>1
    <3> QED BY <2>1, <3>1
  <2>3. g \in [0 .. o - 1 -> Nat]
    BY <2>1, <2>2
  <2> QED BY <2>1, <2>3 DEF Layers, Vector
<1>5. \A l \in Nat : Count(g, l) = Count(f, l) + (IF l = k.layer + 1 THEN m ELSE 0)
                                               + (IF l = k.layer + 2 THEN n ELSE 0)
  <2>1. k.layer + 1 \in DOMAIN f /\ k.layer + 2 \in DOMAIN f
    BY <1>1, <1>2
  <2>2. \A l \in DOMAIN f : f[l] \in Nat
    BY <1>2 DEF Layers, Vector
  <2> QED BY <1>1, <2>1, <2>2 DEF Count
<1> HIDE DEF g
<1>6. AddTable(k, a, m, n) \in Counters
  <2>1. k.expressionCount + a \in Nat /\ g \in Layers
    BY <1>1, <1>2, <1>4
  <2>2. k \in [expressionCount : Nat, perLayer : Layers, layer : Nat, keyValue : SUBSET Nat]
    BY DEF Counters
  <2> QED BY <1>3, <2>1, <2>2 DEF Counters
<1>7. AddTable(k, a, m, n).perLayer = g
  BY <1>3 DEF Counters
<1>8. \A l \in Nat : Count(g, l) = Count(k.perLayer, l) + (IF l = k.layer + 1 THEN m ELSE 0)
                                                       + (IF l = k.layer + 2 THEN n ELSE 0)
  BY <1>2, <1>5
<1>9. /\ AddTable(k, a, m, n).layer = k.layer /\ AddTable(k, a, m, n).keyValue = k.keyValue
      /\ AddTable(k, a, m, n).expressionCount = k.expressionCount + a
  BY <1>3 DEF Counters
<1> QED BY <1>2, <1>4, <1>6, <1>7, <1>8, <1>9

\* What an event adds to the counters is what Adds says of it.
LEMMA AddsOf ==
  ASSUME NEW t \in Token, NEW L \in Nat
  PROVE  /\ t.event \in {"key", "object", "array", "end"} => ~IsCsv(t)
         /\ ~IsCsv(t) => \A l \in Nat : Adds(t, IsCsv(t), L, l) = IF l = L /\ t.event # "end" THEN 1 ELSE 0
         /\ IsCsv(t) => \A l \in Nat :
              Adds(t, IsCsv(t), L, l) = (IF l = L THEN 1 ELSE 0)
                              + (IF l = L + 1 THEN Len(t.table) ELSE 0)
                              + (IF l = L + 2 THEN Len(t.table) * RowCount(t.table) ELSE 0)
         /\ AddsExpressions(t, IsCsv(t)) \in Nat /\ \A l \in Nat : Adds(t, IsCsv(t), L, l) \in Nat
<1> DEFINE m == Len(t.table)
           n == Len(t.table) * RowCount(t.table)
<1>1. m \in Nat /\ n \in Nat /\ (IsCsv(t) => t.event \notin {"key", "object", "array", "end"})
  BY TableOK
<1>2. \A l \in Nat : Adds(t, IsCsv(t), L, l) = (IF l = L /\ t.event # "end" THEN 1 ELSE 0)
                                     + (IF IsCsv(t) /\ l = L + 1 THEN m ELSE 0)
                                     + (IF IsCsv(t) /\ l = L + 2 THEN n ELSE 0)
  BY DEF Adds
<1>3. AddsExpressions(t, IsCsv(t)) = IF t.event \in {"key", "object", "array"} THEN 1
                           ELSE IF IsCsv(t) THEN 1 + m ELSE 0
  BY DEF AddsExpressions
<1> HIDE DEF m, n
<1>4. AddsExpressions(t, IsCsv(t)) \in Nat /\ \A l \in Nat : Adds(t, IsCsv(t), L, l) \in Nat
  BY <1>1, <1>2, <1>3
<1>5. ~IsCsv(t) => \A l \in Nat : Adds(t, IsCsv(t), L, l) = IF l = L /\ t.event # "end" THEN 1 ELSE 0
  BY <1>2
<1>6. IsCsv(t) => t.event # "end"
  BY <1>1
<1>7. IsCsv(t) => \A l \in Nat : Adds(t, IsCsv(t), L, l) = (IF l = L THEN 1 ELSE 0)
                              + (IF l = L + 1 THEN m ELSE 0) + (IF l = L + 2 THEN n ELSE 0)
  BY <1>2, <1>6
<1> QED BY <1>1, <1>4, <1>5, <1>7 DEF m, n

\* A callback keeps the counters with the parser, and adds what its event holds.
LEMMA CountStep ==
  ASSUME NEW p, ParserOK(p), NEW t \in Token, Legal(p, t), NEW k, CountersOK(p, k)
  PROVE  /\ CountersOK(After(p, t), CountOf(p, k, t))
         /\ Grew(k, CountOf(p, k, t), t, IsCsv(t), Nest(p))
<1> DEFINE j == CountOf(p, k, t)
           L == Nest(p)
           one == CountedOne(k)
<1>1. p.open \in Seq(Frame) /\ p.pending \in BOOLEAN /\ Len(p.open) \in Nat
  BY DEF ParserOK
<1>2. k \in Counters /\ k.layer = L /\ k.keyValue = KeyDepths(p) /\ L \in Nat
  BY NestOK DEF CountersOK
<1>3. k.expressionCount \in Nat /\ k.keyValue \in SUBSET Nat /\ \A l \in Nat : Count(k.perLayer, l) \in Nat
  BY <1>2, ResizeOK DEF Counters
<1>4. /\ one \in Counters /\ one.layer = L /\ one.keyValue = k.keyValue
      /\ one.expressionCount = k.expressionCount
      /\ DOMAIN one.perLayer = DOMAIN k.perLayer \cup 0 .. L
      /\ \A l \in Nat : Count(one.perLayer, l) = Count(k.perLayer, l) + (IF l = L THEN 1 ELSE 0)
  BY <1>2, CountOneOK
<1> HIDE DEF L
<1>5. CASE t.event = "key"
  <2>1. j = [one EXCEPT !.expressionCount = @ + 1, !.keyValue = @ \cup {Len(p.open)}, !.layer = @ + 1]
    BY <1>2, <1>5 DEF CountOf, CountKey, CountedOne, Resized, Counters
  <2> HIDE DEF one
  <2>2. /\ j \in Counters /\ j.layer = L + 1 /\ j.keyValue = k.keyValue \cup {Len(p.open)}
        /\ j.expressionCount = k.expressionCount + 1 /\ j.perLayer = one.perLayer
    <3>1. one \in [expressionCount : Nat, perLayer : Layers, layer : Nat, keyValue : SUBSET Nat]
      BY <1>4 DEF Counters
    <3>2. one.expressionCount + 1 \in Nat /\ one.layer + 1 \in Nat /\ one.keyValue \cup {Len(p.open)} \in SUBSET Nat
      <4>1. one.expressionCount \in Nat /\ one.layer \in Nat
        BY <1>2, <1>3, <1>4
      <4>2. one.keyValue \cup {Len(p.open)} \in SUBSET Nat
        BY <1>1, <1>3, <1>4
      <4> QED BY <4>1, <4>2
    <3>3. j \in Counters
      BY <2>1, <3>1, <3>2 DEF Counters
    <3> QED BY <1>4, <2>1, <3>1, <3>3
  <2> HIDE DEF j
  <2>3. CountersOK(After(p, t), j)
    BY <1>2, <1>5, <2>2, ParserStep, DepthsStep DEF CountersOK, L
  <2>4. AddsExpressions(t, IsCsv(t)) = 1 /\ ~IsCsv(t) /\ \A l \in Nat : Adds(t, IsCsv(t), L, l) = IF l = L THEN 1 ELSE 0
    <3>1. t.event # "end" /\ ~IsCsv(t) /\ AddsExpressions(t, IsCsv(t)) = 1
      BY <1>5, AddsOf, <1>2 DEF AddsExpressions
    <3> QED BY <1>2, <3>1, AddsOf
  <2> QED BY <1>2, <1>4, <2>2, <2>3, <2>4 DEF j, L, Grew
<1>6. CASE t.event \in {"object", "array"}
  <2>1. j = [one EXCEPT !.expressionCount = @ + 1, !.layer = @ + 1]
    BY <1>2, <1>6 DEF CountOf, CountStart, CountedOne, Resized, Counters
  <2> HIDE DEF one
  <2>2. /\ j \in Counters /\ j.layer = L + 1 /\ j.keyValue = k.keyValue
        /\ j.expressionCount = k.expressionCount + 1 /\ j.perLayer = one.perLayer
    <3>1. one \in [expressionCount : Nat, perLayer : Layers, layer : Nat, keyValue : SUBSET Nat]
      BY <1>4 DEF Counters
    <3>2. one.expressionCount + 1 \in Nat /\ one.layer + 1 \in Nat /\ one.keyValue \cup {Len(p.open)} \in SUBSET Nat
      <4>1. one.expressionCount \in Nat /\ one.layer \in Nat
        BY <1>2, <1>3, <1>4
      <4>2. one.keyValue \cup {Len(p.open)} \in SUBSET Nat
        BY <1>1, <1>3, <1>4
      <4> QED BY <4>1, <4>2
    <3>3. j \in Counters
      BY <2>1, <3>1, <3>2 DEF Counters
    <3> QED BY <1>4, <2>1, <3>1, <3>3
  <2> HIDE DEF j
  <2>3. CountersOK(After(p, t), j)
    BY <1>2, <1>6, <2>2, ParserStep, DepthsStep DEF CountersOK, L
  <2>4. AddsExpressions(t, IsCsv(t)) = 1 /\ ~IsCsv(t) /\ \A l \in Nat : Adds(t, IsCsv(t), L, l) = IF l = L THEN 1 ELSE 0
    <3>1. t.event # "end" /\ ~IsCsv(t) /\ AddsExpressions(t, IsCsv(t)) = 1
      BY <1>6, AddsOf, <1>2 DEF AddsExpressions
    <3> QED BY <1>2, <3>1, AddsOf
  <2> QED BY <1>2, <1>4, <2>2, <2>3, <2>4 DEF j, L, Grew
<1>7. CASE t.event = "end"
  <2> DEFINE f == Resize(k.perLayer, L + 1)
             u == [k EXCEPT !.perLayer = f, !.layer = @ - 1]
             d == Len(p.open) - 1
  <2>1. j = LeaveKey(u, d)
    <3>1. Resized(k) = [k EXCEPT !.perLayer = f]
      BY <1>2 DEF Resized
    <3>2. [Resized(k) EXCEPT !.layer = @ - 1] = u
      BY <1>2, <3>1 DEF Counters
    <3> QED BY <1>7, <3>2 DEF CountOf, CountEnd
  <2>2. p.open # <<>> /\ p.pending = FALSE /\ d \in Nat
    <3>1. p.open # <<>> /\ p.pending = FALSE
      BY <1>1, <1>7 DEF Legal
    <3> QED BY <1>1, <3>1, EmptySeq
  <2>3. /\ f \in Layers /\ DOMAIN f = DOMAIN k.perLayer \cup 0 .. L
        /\ \A l \in Nat : Count(f, l) = Count(k.perLayer, l)
    <3>1. k.perLayer \in Layers /\ L + 1 \in Nat /\ (L + 1) - 1 = L
      BY <1>2 DEF Counters
    <3> QED BY <3>1, ResizeOK
  <2>4. /\ Nest(After(p, t)) = L - 1 - (IF p.open[Len(p.open)].keyed THEN 1 ELSE 0)
        /\ ParserOK(After(p, t))
        /\ KeyDepths(After(p, t)) = KeyDepths(p) \ {d}
        /\ d \in KeyDepths(p) <=> p.open[Len(p.open)].keyed
    BY <1>7, ParserStep, DepthsStep DEF L
  <2>5. Nest(After(p, t)) \in Nat
    BY <2>4, NestOK
  <2>6. L - 1 \in Nat /\ (d \in KeyDepths(p) => L - 1 > 0)
    BY <1>2, <2>4, <2>5
  <2>7. /\ u \in Counters /\ u.layer = L - 1 /\ u.keyValue = k.keyValue /\ u.perLayer = f
        /\ u.expressionCount = k.expressionCount
    <3> HIDE DEF f
    <3> QED BY <1>2, <2>3, <2>6 DEF Counters
  <2> HIDE DEF u, f, d
  <2>8. /\ j \in Counters /\ j.layer = u.layer - (IF d \in u.keyValue THEN 1 ELSE 0)
        /\ j.keyValue = u.keyValue \ {d} /\ j.expressionCount = u.expressionCount
        /\ j.perLayer = u.perLayer
    BY <1>2, <2>1, <2>2, <2>6, <2>7, LeaveKeyOK
  <2> HIDE DEF j
  <2>9. CountersOK(After(p, t), j)
    BY <1>2, <2>4, <2>7, <2>8 DEF CountersOK
  <2>10. AddsExpressions(t, IsCsv(t)) = 0 /\ ~IsCsv(t) /\ \A l \in Nat : Adds(t, IsCsv(t), L, l) = 0
    <3>1. ~IsCsv(t) /\ AddsExpressions(t, IsCsv(t)) = 0
      BY <1>7, AddsOf, <1>2 DEF AddsExpressions
    <3> QED BY <1>2, <1>7, <3>1, AddsOf
  <2> QED BY <1>2, <1>3, <2>3, <2>7, <2>8, <2>9, <2>10 DEF j, L, Grew
<1>8. CASE t.event \notin {"key", "object", "array", "end"}
  <2> DEFINE u == IF IsCsv(t) THEN CountTable(one, t.table) ELSE one
             d == Len(p.open)
             m == Len(t.table)
             n == Len(t.table) * RowCount(t.table)
  <2>1. j = LeaveKey(u, d)
    BY <1>8 DEF CountOf, CountValue, CountedOne
  <2>2. m \in Nat /\ n \in Nat /\ 1 + m \in Nat
    BY TableOK
  <2> HIDE DEF one
  <2>3. /\ u \in Counters /\ u.layer = L /\ u.keyValue = k.keyValue
        /\ u.expressionCount = k.expressionCount + (IF IsCsv(t) THEN 1 + m ELSE 0)
        /\ DOMAIN k.perLayer \cup 0 .. L \subseteq DOMAIN u.perLayer
        /\ IsCsv(t) => 0 .. L + 2 \subseteq DOMAIN u.perLayer
        /\ \A l \in Nat : Count(u.perLayer, l) = Count(k.perLayer, l) + Adds(t, IsCsv(t), L, l)
    <3>1. CASE IsCsv(t)
      <4>1. u = AddTable(one, 1 + m, m, n)
        BY <3>1 DEF CountTable
      <4>2. t.event # "end"
        BY <1>8
      <4>3. \A l \in Nat : Adds(t, IsCsv(t), L, l) = (IF l = L THEN 1 ELSE 0) + (IF l = L + 1 THEN m ELSE 0)
                                                                   + (IF l = L + 2 THEN n ELSE 0)
        BY <1>2, <3>1, AddsOf, ZenonT(40)
      <4> DEFINE a == 1 + m
      <4>6. a \in Nat
        BY <2>2
      <4> HIDE DEF u, m, n, a
      <4>4. /\ u \in Counters /\ u.layer = L /\ u.keyValue = one.keyValue
            /\ u.expressionCount = one.expressionCount + (1 + m)
            /\ DOMAIN one.perLayer \subseteq DOMAIN u.perLayer /\ 0 .. L + 2 \subseteq DOMAIN u.perLayer
            /\ \A l \in Nat : Count(u.perLayer, l)
                              = Count(one.perLayer, l) + (IF l = L + 1 THEN m ELSE 0)
                                                       + (IF l = L + 2 THEN n ELSE 0)
        <5>1. u = AddTable(one, a, m, n)
          BY <4>1 DEF a
        <5>2. one \in Counters /\ a \in Nat /\ m \in Nat /\ n \in Nat
          BY <1>4, <2>2, <4>6
        <5> DEFINE v == AddTable(one, a, m, n)
        <5>3. v \in Counters
          BY <5>2, AddTableOK
        <5>5. v.layer = one.layer /\ v.keyValue = one.keyValue /\ v.expressionCount = one.expressionCount + a
          BY <5>2, AddTableOK
        <5>6. DOMAIN one.perLayer \subseteq DOMAIN v.perLayer /\ 0 .. one.layer + 2 \subseteq DOMAIN v.perLayer
          BY <5>2, AddTableOK
        <5>7. \A l \in Nat : Count(v.perLayer, l)
                             = Count(one.perLayer, l) + (IF l = one.layer + 1 THEN m ELSE 0)
                                                      + (IF l = one.layer + 2 THEN n ELSE 0)
          BY <5>2, AddTableOK
        <5> HIDE DEF v
        <5>4. u = v
          BY <5>1 DEF v
        <5> QED BY <1>4, <5>3, <5>4, <5>5, <5>6, <5>7 DEF a
      <4>5. \A l \in Nat : Count(u.perLayer, l) = Count(k.perLayer, l) + Adds(t, IsCsv(t), L, l)
        <5> TAKE l \in Nat
        <5>1. Count(u.perLayer, l) = Count(one.perLayer, l) + (IF l = L + 1 THEN m ELSE 0)
                                                            + (IF l = L + 2 THEN n ELSE 0)
          BY <4>4
        <5>2. Count(one.perLayer, l) = Count(k.perLayer, l) + (IF l = L THEN 1 ELSE 0)
          BY <1>4
        <5>3. Count(k.perLayer, l) \in Nat
          BY <1>3
        <5>4. Adds(t, IsCsv(t), L, l) = (IF l = L THEN 1 ELSE 0) + (IF l = L + 1 THEN m ELSE 0)
                                                      + (IF l = L + 2 THEN n ELSE 0)
          BY <4>3
        <5> QED BY <1>2, <2>2, <5>1, <5>2, <5>3, <5>4
      <4> QED BY <1>4, <3>1, <4>4, <4>5
    <3>2. CASE ~IsCsv(t)
      <4>1. u = one
        BY <3>2
      <4>2. \A l \in Nat : Adds(t, IsCsv(t), L, l) = IF l = L THEN 1 ELSE 0
        BY <1>2, <1>8, <3>2, AddsOf
      <4>3. k.expressionCount + (IF IsCsv(t) THEN 1 + m ELSE 0) = k.expressionCount
        BY <1>3, <3>2
      <4> QED BY <1>4, <3>2, <4>1, <4>2, <4>3
    <3> QED BY <3>1, <3>2
  <2>4. /\ Nest(After(p, t)) = L - (IF p.pending THEN 1 ELSE 0) /\ ParserOK(After(p, t))
        /\ KeyDepths(After(p, t)) = KeyDepths(p) \ {d}
        /\ d \in KeyDepths(p) <=> p.pending
    BY <1>8, ParserStep, DepthsStep DEF L
  <2>5. Nest(After(p, t)) \in Nat
    BY <2>4, NestOK
  <2>6. d \in KeyDepths(p) => L > 0
    BY <1>2, <2>4, <2>5
  <2> HIDE DEF u
  <2>7. /\ j \in Counters /\ j.layer = u.layer - (IF d \in u.keyValue THEN 1 ELSE 0)
        /\ j.keyValue = u.keyValue \ {d} /\ j.expressionCount = u.expressionCount
        /\ j.perLayer = u.perLayer
    BY <1>1, <1>2, <2>1, <2>3, <2>6, LeaveKeyOK
  <2> HIDE DEF j
  <2>8. CountersOK(After(p, t), j)
    BY <1>2, <2>3, <2>4, <2>7 DEF CountersOK
  <2>9. AddsExpressions(t, IsCsv(t)) = IF IsCsv(t) THEN 1 + m ELSE 0
    BY <1>8 DEF AddsExpressions
  <2>10. 0 \in 0 .. L
    BY <1>2
  <2> QED BY <2>3, <2>7, <2>8, <2>9, <2>10 DEF j, L, Grew
<1> QED BY <1>5, <1>6, <1>7, <1>8

(***************************************************************************)
(* The history: before event i the first traversal had At(i), and every    *)
(* event of the file led from one to the next.                             *)
(***************************************************************************)
Parser == [open : Seq(Frame), pending : BOOLEAN]
At(i) == IF i <= Len(file) THEN seen[i] ELSE [parser |-> parser, c |-> c]

Below(j, k) ==
  /\ j.expressionCount <= k.expressionCount /\ DOMAIN j.perLayer \subseteq DOMAIN k.perLayer
  /\ \A l \in Nat : Count(j.perLayer, l) <= Count(k.perLayer, l)

HistoryOK ==
  /\ file \in Seq(Token) /\ seen \in Seq([parser : Parser, c : Counters]) /\ Len(seen) = Len(file)
  /\ \A i \in 1 .. Len(file) + 1 : ParserOK(At(i).parser) /\ CountersOK(At(i).parser, At(i).c)
  /\ \A i \in 1 .. Len(file) :
       /\ Legal(At(i).parser, file[i]) /\ At(i + 1).parser = After(At(i).parser, file[i])
       /\ Grew(At(i).c, At(i + 1).c, file[i], IsCsv(file[i]), Nest(At(i).parser))
  /\ At(1) = [parser |-> Blank, c |-> InitCounters]
  /\ \A i \in 1 .. Len(file) + 1 : Below(At(i).c, c)
  /\ \A i \in 2 .. Len(file) : At(i).parser # Blank

\* Counters only grow.
LEMMA GrewBelow ==
  ASSUME NEW i \in Counters, NEW k \in Counters, NEW j \in Counters, Below(i, k),
         NEW t \in Token, NEW L \in Nat, Grew(k, j, t, IsCsv(t), L)
  PROVE  Below(i, j) /\ Below(j, j)
<1>1. i.perLayer \in Layers /\ k.perLayer \in Layers /\ j.perLayer \in Layers
      /\ i.expressionCount \in Nat /\ k.expressionCount \in Nat /\ j.expressionCount \in Nat
  BY DEF Counters
<1>2. AddsExpressions(t, IsCsv(t)) \in Nat /\ \A l \in Nat : Adds(t, IsCsv(t), L, l) \in Nat
  BY AddsOf
<1>3. \A l \in Nat : Count(i.perLayer, l) \in Nat /\ Count(k.perLayer, l) \in Nat /\ Count(j.perLayer, l) \in Nat
  BY <1>1, ResizeOK
<1>4. \A l \in Nat : Count(i.perLayer, l) <= Count(j.perLayer, l)
  <2> TAKE l \in Nat
  <2>1. Count(i.perLayer, l) <= Count(k.perLayer, l)
    BY DEF Below
  <2>2. Count(j.perLayer, l) = Count(k.perLayer, l) + Adds(t, IsCsv(t), L, l)
    BY DEF Grew
  <2>3. Adds(t, IsCsv(t), L, l) \in Nat
    BY <1>2
  <2> QED BY <1>3, <2>1, <2>2, <2>3
<1>5. i.expressionCount <= j.expressionCount
  BY <1>1, <1>2 DEF Below, Grew
<1>6. DOMAIN i.perLayer \subseteq DOMAIN j.perLayer
  BY DEF Below, Grew
<1> QED BY <1>1, <1>3, <1>4, <1>5, <1>6 DEF Below

\* What an action of the first traversal does, in terms of its event.
LEMMA ParseStep ==
  ASSUME HistoryOK, NEW t \in Token, Legal(parser, t), options' = options, ~Complete,
         file' = Append(file, t), seen' = Append(seen, [parser |-> parser, c |-> c]),
         parser' = After(parser, t), c' = CountOf(parser, c, t)
  PROVE  HistoryOK'
<1> DEFINE n == Len(file)
           here == [parser |-> parser, c |-> c]
<1>1. /\ file \in Seq(Token) /\ seen \in Seq([parser : Parser, c : Counters])
      /\ Len(seen) = n /\ n \in Nat
  BY DEF HistoryOK
<1>2. here = At(n + 1) /\ ParserOK(parser) /\ CountersOK(parser, c)
  <2>1. n + 1 \in 1 .. n + 1 /\ ~(n + 1 <= n)
    BY <1>1
  <2>2. here = At(n + 1)
    BY <2>1 DEF At
  <2>3. ParserOK(At(n + 1).parser) /\ CountersOK(At(n + 1).parser, At(n + 1).c)
    BY <2>1 DEF HistoryOK
  <2> QED BY <2>2, <2>3
<1>3. here \in [parser : Parser, c : Counters]
  BY <1>2 DEF ParserOK, CountersOK, Parser
<1>4. /\ file' \in Seq(Token) /\ Len(file') = n + 1 /\ file'[n + 1] = t
      /\ \A i \in 1 .. n : file'[i] = file[i]
  BY <1>1, PushStack
<1>5. /\ seen' \in Seq([parser : Parser, c : Counters]) /\ Len(seen') = n + 1 /\ seen'[n + 1] = here
      /\ \A i \in 1 .. n : seen'[i] = seen[i]
  <2> HIDE DEF here
  <2>1. seen' = Append(seen, here)
    BY DEF here
  <2> QED BY <1>1, <1>3, <2>1, PushStack
<1>6. \A i \in 1 .. n + 1 : At(i)' = At(i)
  <2> TAKE i \in 1 .. n + 1
  <2>1. CASE i = n + 1
    BY <1>1, <1>2, <1>4, <1>5, <2>1 DEF At
  <2>2. CASE i # n + 1
    BY <1>1, <1>4, <1>5, <2>2 DEF At
  <2> QED BY <2>1, <2>2
<1>7. \A i \in Nat : i = n + 2 => At(i)' = [parser |-> After(parser, t), c |-> CountOf(parser, c, t)]
  <2> TAKE i \in Nat
  <2> HAVE i = n + 2
  <2>1. ~(i <= Len(file'))
    BY <1>1, <1>4
  <2> QED BY <2>1 DEF At
<1>8. /\ ParserOK(After(parser, t)) /\ CountersOK(After(parser, t), CountOf(parser, c, t))
      /\ Grew(c, CountOf(parser, c, t), t, IsCsv(t), Nest(parser))
  BY <1>2, ParserStep, CountStep
<1>9. \A i \in 1 .. n + 2 : ParserOK(At(i)'.parser) /\ CountersOK(At(i)'.parser, At(i)'.c)
  <2> TAKE i \in 1 .. n + 2
  <2>1. CASE i = n + 2
    BY <1>1, <1>7, <1>8, <2>1
  <2>2. CASE i # n + 2
    <3>1. i \in 1 .. n + 1
      BY <1>1, <2>2
    <3> QED BY <1>6, <3>1 DEF HistoryOK
  <2> QED BY <2>1, <2>2
<1>10. \A i \in 1 .. n + 1 :
         /\ Legal(At(i)'.parser, file'[i]) /\ At(i + 1)'.parser = After(At(i)'.parser, file'[i])
         /\ Grew(At(i)'.c, At(i + 1)'.c, file'[i], IsCsv(file'[i]), Nest(At(i)'.parser))
  <2> TAKE i \in 1 .. n + 1
  <2>1. CASE i = n + 1
    <3>1. At(i)'.parser = parser /\ At(i)'.c = c /\ file'[i] = t
      BY <1>1, <1>2, <1>4, <1>6, <2>1
    <3>2. i + 1 \in Nat /\ i + 1 = n + 2
      BY <1>1, <2>1
    <3>3. At(i + 1)' = [parser |-> After(parser, t), c |-> CountOf(parser, c, t)]
      BY <1>7, <3>2
    <3> QED BY <1>8, <3>1, <3>3
  <2>2. CASE i # n + 1
    <3>1. i \in 1 .. n /\ i + 1 \in 1 .. n + 1 /\ file'[i] = file[i]
      BY <1>1, <1>4, <2>2
    <3>2. At(i)' = At(i) /\ At(i + 1)' = At(i + 1)
      BY <1>6, <3>1
    <3> QED BY <3>1, <3>2 DEF HistoryOK
  <2> QED BY <2>1, <2>2
<1>11. \A x : IsCsv(x)' = IsCsv(x)
  BY DEF IsCsv
<1>12. At(1)' = [parser |-> Blank, c |-> InitCounters]
  <2>1. 1 \in 1 .. n + 1
    BY <1>1
  <2> QED BY <1>6, <2>1 DEF HistoryOK
<1>13. Len(file') + 1 = n + 2
  BY <1>1, <1>4
<1>14. \A i \in 1 .. n + 2 : Below(At(i)'.c, c')
  <2>1. c' = CountOf(parser, c, t) /\ c \in Counters /\ c' \in Counters /\ Nest(parser) \in Nat
        /\ Grew(c, c', t, IsCsv(t), Nest(parser)) /\ Below(c, c)
    <3>1. Below(At(n + 1).c, c) /\ At(n + 1).c = c
      <4>1. n + 1 \in 1 .. n + 1
        BY <1>1
      <4> QED BY <1>2, <4>1 DEF HistoryOK
    <3> QED BY <1>2, <1>8, <3>1, NestOK DEF CountersOK
  <2> TAKE i \in 1 .. n + 2
  <2>2. CASE i = n + 2
    <3>1. At(i)'.c = c'
      BY <1>1, <1>7, <2>2
    <3> QED BY <2>1, <3>1, GrewBelow
  <2>3. CASE i # n + 2
    <3>1. i \in 1 .. n + 1
      BY <1>1, <2>3
    <3>2. At(i)'.c = At(i).c /\ At(i).c \in Counters /\ Below(At(i).c, c)
      BY <1>6, <3>1 DEF HistoryOK, CountersOK
    <3> QED BY <2>1, <3>2, GrewBelow
  <2> QED BY <2>2, <2>3
<1>15. \A i \in 2 .. n + 1 : At(i)'.parser # Blank
  <2> TAKE i \in 2 .. n + 1
  <2>0. i \in 1 .. n + 1 /\ At(i)' = At(i)
    BY <1>1, <1>6
  <2>1. CASE i = n + 1
    <3>1. file # <<>>
      BY <1>1, <2>1
    <3>2. parser # Blank
      BY <3>1 DEF Complete, Blank
    <3> QED BY <1>2, <2>0, <2>1, <3>2
  <2>2. CASE i # n + 1
    <3>1. i \in 2 .. n
      BY <1>1, <2>2
    <3> QED BY <2>0, <3>1 DEF HistoryOK
  <2> QED BY <2>1, <2>2
<1> HIDE DEF n
<1> QED BY <1>4, <1>5, <1>9, <1>10, <1>11, <1>12, <1>13, <1>14, <1>15 DEF HistoryOK

(***************************************************************************)
(* The second traversal's operations: each leaves the buffers and stacks   *)
(* of JsonToWisent sound (WriterOK), and its layer and key bits as said.   *)
(***************************************************************************)

(***************************************************************************)
(* The buffers, and the stacks that go with the layer.                     *)
(***************************************************************************)
Expression == [head : Nat, start : Nat, end : Nat]
String == [text : Texts, at : Seq(Nat)]
Writer ==
  [types : Vector(Nat), args : Vector(Seq(Nat)), exprs : Vector(Expression),
   strings : Seq(String), cumul : Vector(Nat), keyValue : SUBSET Nat,
   argIter : Seq(Nat), exprStack : Seq(Nat), nextExpr : Nat, layer : Nat,
   run : Nat, wild : BOOLEAN]

StacksOK(v) ==
  /\ DOMAIN v.args = DOMAIN v.types
  /\ Len(v.argIter) = v.layer + 1 /\ Len(v.exprStack) = v.layer + 1
  /\ \A j \in 2 .. Len(v.exprStack) : v.exprStack[j] \in DOMAIN v.exprs
  /\ v.run <= Last(v.argIter)
WriterOK(v) == v \in Writer /\ StacksOK(v)

\* What a store of one argument leaves alone.
SameLayer(v, r) == r.layer = v.layer /\ r.keyValue = v.keyValue

\* An element of a vector has the vector's element type.
LEMMA VectorOK ==
  ASSUME NEW S, NEW f \in Vector(S)
  PROVE  /\ DOMAIN f \subseteq Nat /\ IsFiniteSet(DOMAIN f) /\ Cardinality(DOMAIN f) \in Nat
         /\ \A i \in DOMAIN f : f[i] \in S
         /\ \A i \in DOMAIN f : \A j \in Nat : j <= i => j \in DOMAIN f
         /\ \A g : DOMAIN g = DOMAIN f /\ g = [i \in DOMAIN f |-> g[i]] /\ (\A i \in DOMAIN f : g[i] \in S)
                   => g \in Vector(S)
<1>1. PICK n \in Nat : f \in [0 .. n - 1 -> S]
  BY DEF Vector
<1>2. 0 \in Int /\ n - 1 \in Int
  OBVIOUS
<1>3. IsFiniteSet(0 .. n - 1)
  BY <1>2, FS_Interval
<1>4. Cardinality(0 .. n - 1) \in Nat
  BY <1>3, FS_CardinalityType
<1>5. DOMAIN f = 0 .. n - 1
  BY <1>1
<1>6. \A i \in DOMAIN f : \A j \in Nat : j <= i => j \in DOMAIN f
  BY <1>5
<1>7. ASSUME NEW g, DOMAIN g = DOMAIN f, g = [i \in DOMAIN f |-> g[i]], \A i \in DOMAIN f : g[i] \in S
      PROVE  g \in Vector(S)
  <2>1. g \in [0 .. n - 1 -> S]
    BY <1>5, <1>7
  <2> QED BY <2>1 DEF Vector
<1> QED BY <1>1, <1>3, <1>4, <1>5, <1>6, <1>7

\* A store into a vector, in bounds or not, leaves a vector of the same size.
LEMMA SetOK ==
  ASSUME NEW S, NEW f \in Vector(S), NEW i, NEW x \in S
  PROVE  /\ [f EXCEPT ![i] = x] \in Vector(S) /\ DOMAIN [f EXCEPT ![i] = x] = DOMAIN f
         /\ \A j \in DOMAIN f : [f EXCEPT ![i] = x][j] = IF j = i THEN x ELSE f[j]
<1> DEFINE g == [f EXCEPT ![i] = x]
<1>1. PICK n \in Nat : f \in [0 .. n - 1 -> S]
  BY DEF Vector
<1>2. DOMAIN g = DOMAIN f /\ g = [j \in DOMAIN f |-> g[j]] /\ \A j \in DOMAIN f : g[j] = IF j = i THEN x ELSE f[j]
  BY <1>1
<1>3. \A j \in DOMAIN f : f[j] \in S
  BY <1>1
<1> HIDE DEF g
<1>4. \A j \in DOMAIN f : g[j] \in S
  BY <1>2, <1>3
<1>5. g \in Vector(S)
  BY <1>2, <1>4, VectorOK
<1> QED BY <1>2, <1>5 DEF g

(***************************************************************************)
(* Single operators of the writer.                                         *)
(***************************************************************************)
LEMMA LastOK ==
  ASSUME NEW v, WriterOK(v)
  PROVE  /\ v.argIter \in Seq(Nat) /\ v.exprStack \in Seq(Nat) /\ v.argIter # <<>> /\ v.exprStack # <<>>
         /\ Last(v.argIter) \in Nat /\ Last(v.argIter) = v.argIter[Len(v.argIter)]
         /\ Last(v.exprStack) \in Nat /\ Last(v.exprStack) = v.exprStack[Len(v.exprStack)]
         /\ Len(v.argIter) = v.layer + 1 /\ Len(v.exprStack) = v.layer + 1 /\ v.layer \in Nat
         /\ v.run \in Nat /\ v.run <= Last(v.argIter)
<1>1. /\ v.argIter \in Seq(Nat) /\ v.exprStack \in Seq(Nat) /\ v.layer \in Nat /\ v.run \in Nat
      /\ Len(v.argIter) = v.layer + 1 /\ Len(v.exprStack) = v.layer + 1 /\ v.run <= Last(v.argIter)
  BY DEF WriterOK, Writer, StacksOK
<1>2. v.argIter # <<>> /\ v.exprStack # <<>>
  BY <1>1, EmptySeq
<1> QED BY <1>1, <1>2, PopStack

\* storeString touches the String Buffer only.
LEMMA StoreStringOK ==
  ASSUME NEW v, WriterOK(v), NEW text \in String
  PROVE  /\ WriterOK(storeString(v, text)) /\ SameLayer(v, storeString(v, text))
         /\ storeString(v, text) = [v EXCEPT !.strings = Append(v.strings, text)]
<1> DEFINE T == Append(v.strings, text)
<1>1. v \in Writer /\ v.strings \in Seq(String)
  BY DEF WriterOK, Writer
<1>2. T \in Seq(String)
  BY <1>1
<1>3. storeString(v, text) = [v EXCEPT !.strings = T]
  BY DEF storeString
<1> HIDE DEF T
<1> QED BY <1>1, <1>2, <1>3 DEF WriterOK, Writer, StacksOK, SameLayer, T

\* The next argument's index is a natural number, and the run ends before it.
LEMMA IndexOK ==
  ASSUME NEW v, WriterOK(v)
  PROVE  /\ \A e \in Nat : StartChildOffset(v, e) \in Nat
         /\ NextArgumentIndex(v) \in Nat /\ NextArgumentIndex(v) >= Last(v.argIter)
<1>1. v.types \in Vector(Nat) /\ v.exprs \in Vector(Expression)
  BY DEF WriterOK, Writer
<1>2. \A e \in Nat : StartChildOffset(v, e) \in Nat
  <2>1. \A e \in DOMAIN v.exprs : v.exprs[e].start \in Nat
    <3>1. \A e \in DOMAIN v.exprs : v.exprs[e] \in Expression
      BY <1>1, VectorOK
    <3> QED BY <3>1 DEF Expression
  <2>2. Cardinality(DOMAIN v.types) \in Nat
    BY <1>1, VectorOK
  <2> QED BY <2>1, <2>2 DEF StartChildOffset
<1>3. Last(v.exprStack) \in Nat /\ Last(v.argIter) \in Nat
  BY LastOK
<1>4. StartChildOffset(v, Last(v.exprStack)) \in Nat
  BY <1>2, <1>3
<1>5. NextArgumentIndex(v) = StartChildOffset(v, Last(v.exprStack)) + Last(v.argIter)
  BY DEF NextArgumentIndex
<1> QED BY <1>2, <1>3, <1>4, <1>5

\* What the handler of one value may change: the next slot, tags, the strings.
OneStored(v, r) ==
  /\ DOMAIN r.types = DOMAIN v.types /\ r.exprs = v.exprs /\ r.cumul = v.cumul
  /\ r.keyValue = v.keyValue /\ r.exprStack = v.exprStack /\ r.nextExpr = v.nextExpr /\ r.layer = v.layer

\* One more slot of the expression on top of the stack.
LEMMA PutOK ==
  ASSUME NEW v, WriterOK(v), NEW type \in Nat, NEW value \in Seq(Nat)
  PROVE  LET r == PutArgument(v, type, value) IN
         /\ WriterOK(r) /\ OneStored(v, r) /\ r.run = v.run
         /\ ~r.wild => /\ NextArgumentIndex(v) \in DOMAIN v.types
                       /\ Last(r.argIter) = Last(v.argIter) + 1
<1> DEFINE i == NextArgumentIndex(v)
           T == [v.types EXCEPT ![i] = type]
           A == [v.args EXCEPT ![i] = value]
           I == [v.argIter EXCEPT ![Len(v.argIter)] = @ + 1]
           r == PutArgument(v, type, value)
<1>1. v \in Writer /\ StacksOK(v)
  BY DEF WriterOK
<1>2. CASE i \notin DOMAIN v.types
  <2>1. r = [v EXCEPT !.wild = TRUE]
    BY <1>2 DEF PutArgument
  <2> HIDE DEF i
  <2>2. r \in Writer /\ r.wild = TRUE
    BY <1>1, <2>1 DEF Writer
  <2>3. /\ r.types = v.types /\ r.args = v.args /\ r.argIter = v.argIter /\ r.exprStack = v.exprStack
        /\ r.exprs = v.exprs /\ r.run = v.run /\ r.layer = v.layer /\ r.keyValue = v.keyValue
        /\ r.cumul = v.cumul /\ r.nextExpr = v.nextExpr
    BY <1>1, <2>1 DEF Writer
  <2> HIDE DEF r
  <2>4. StacksOK(r)
    BY <1>1, <2>3 DEF StacksOK
  <2> QED BY <2>2, <2>3, <2>4 DEF WriterOK, OneStored, r
<1>3. CASE i \in DOMAIN v.types
  <2>1. r = [v EXCEPT !.types = T, !.args = A, !.argIter = I]
    BY <1>1, <1>3 DEF PutArgument, Writer
  <2>2. T \in Vector(Nat) /\ DOMAIN T = DOMAIN v.types
    <3>1. v.types \in Vector(Nat)
      BY <1>1 DEF Writer
    <3> QED BY <3>1, SetOK
  <2>3. A \in Vector(Seq(Nat)) /\ DOMAIN A = DOMAIN v.args
    <3>1. v.args \in Vector(Seq(Nat))
      BY <1>1 DEF Writer
    <3> QED BY <3>1, SetOK
  <2>4. /\ I \in Seq(Nat) /\ Len(I) = Len(v.argIter) /\ I[Len(I)] = Last(v.argIter) + 1
        /\ I # <<>>
    <3>1. /\ v.argIter \in Seq(Nat) /\ v.argIter # <<>> /\ Len(v.argIter) \in Nat
          /\ Last(v.argIter) \in Nat /\ Last(v.argIter) = v.argIter[Len(v.argIter)]
          /\ Len(v.argIter) > 0
      BY LastOK, PopStack
    <3>2. Last(v.argIter) + 1 \in Nat
      BY <3>1
    <3>3. /\ I \in Seq(Nat) /\ Len(I) = Len(v.argIter) /\ I[Len(I)] = Last(v.argIter) + 1
      BY <3>1, <3>2
    <3> QED BY <3>1, <3>3, EmptySeq
  <2>5. Last(I) = Last(v.argIter) + 1
    BY <2>4, PopStack
  <2> HIDE DEF T, A, I, i
  <2>6. r \in Writer
    BY <1>1, <2>1, <2>2, <2>3, <2>4 DEF Writer
  <2>7. /\ r.types = T /\ r.args = A /\ r.argIter = I /\ r.exprStack = v.exprStack
        /\ r.exprs = v.exprs /\ r.run = v.run /\ r.layer = v.layer /\ r.keyValue = v.keyValue
        /\ r.cumul = v.cumul /\ r.nextExpr = v.nextExpr
    BY <1>1, <2>1 DEF Writer
  <2> HIDE DEF r
  <2>8. StacksOK(r)
    <3>1. v.run \in Nat /\ v.run <= Last(v.argIter) /\ Last(v.argIter) \in Nat
      BY LastOK
    <3>2. r.run <= Last(r.argIter)
      BY <2>5, <2>7, <3>1
    <3> QED BY <1>1, <2>2, <2>3, <2>4, <2>7, <3>2 DEF StacksOK
  <2> QED BY <1>3, <2>2, <2>5, <2>6, <2>7, <2>8 DEF WriterOK, OneStored, r, i
<1> QED BY <1>2, <1>3

\* A run is marked inside the vector; the vector keeps its shape.
LEMMA RunMarked ==
  ASSUME NEW T \in Vector(Nat), NEW i \in Nat, NEW n \in Nat
  PROVE  /\ setRLEArgumentFlagOrPropagateTypes(T, i, n) \in Vector(Nat)
         /\ DOMAIN setRLEArgumentFlagOrPropagateTypes(T, i, n) = DOMAIN T
<1> DEFINE size == n % UINT32_RANGE
           S == setRLEArgumentFlagOrPropagateTypes(T, i, n)
<1>1. size \in Nat
  BY RunLengthAssumption
<1>2. DOMAIN T \subseteq Nat /\ \A j \in DOMAIN T : T[j] \in Nat
  BY VectorOK
<1>3. \A j \in DOMAIN T : i < j => i \in DOMAIN T
  <2> TAKE j \in DOMAIN T
  <2> HAVE i < j
  <2>1. j \in Nat /\ i <= j
    BY <1>2
  <2> QED BY <2>1, VectorOK
<1>4. CASE size < RLE_MINIMUM_SIZE
  <2>1. S = [j \in DOMAIN T |-> IF i < j /\ j < i + size THEN T[i] ELSE T[j]]
    BY <1>4 DEF setRLEArgumentFlagOrPropagateTypes
  <2> HIDE DEF size, S
  <2>2. \A j \in DOMAIN T : S[j] \in Nat
    BY <1>2, <1>3, <2>1
  <2>3. DOMAIN S = DOMAIN T /\ S = [j \in DOMAIN T |-> S[j]]
    BY <2>1
  <2>4. S \in Vector(Nat)
    BY <2>2, <2>3, VectorOK
  <2> QED BY <2>3, <2>4 DEF S
<1>5. CASE ~(size < RLE_MINIMUM_SIZE)
  <2> DEFINE U == [T EXCEPT ![i] = SetRLEBit(T[i])]
  <2>1. S = [U EXCEPT ![i + 1] = size]
    BY <1>5 DEF setRLEArgumentFlagOrPropagateTypes
  <2>2. U \in Vector(Nat) /\ DOMAIN U = DOMAIN T
    <3>1. CASE i \in DOMAIN T
      <4>1. T[i] \in Nat
        BY <1>2, <3>1
      <4>2. SetRLEBit(T[i]) \in Nat
        BY <4>1 DEF SetRLEBit, RLE_BIT
      <4> QED BY <4>2, SetOK
    <3>2. CASE i \notin DOMAIN T
      <4>1. PICK m \in Nat : T \in [0 .. m - 1 -> Nat]
        BY DEF Vector
      <4>2. U = T
        BY <3>2, <4>1
      <4> QED BY <4>2
    <3> QED BY <3>1, <3>2
  <2> HIDE DEF size, U, S
  <2>3. [U EXCEPT ![i + 1] = size] \in Vector(Nat) /\ DOMAIN [U EXCEPT ![i + 1] = size] = DOMAIN U
    BY <1>1, <2>2, SetOK
  <2> QED BY <2>1, <2>2, <2>3 DEF S
<1> QED BY <1>4, <1>5

\* What the run-length encoding may change: tags and the run, nothing else.
OnlyTypes(v, r) ==
  /\ DOMAIN r.types = DOMAIN v.types /\ r.args = v.args /\ r.exprs = v.exprs /\ r.strings = v.strings
  /\ r.cumul = v.cumul /\ r.keyValue = v.keyValue /\ r.argIter = v.argIter /\ r.exprStack = v.exprStack
  /\ r.nextExpr = v.nextExpr /\ r.layer = v.layer /\ r.wild = v.wild
Retyped(v, T, n) == [v EXCEPT !.types = T, !.run = n]

\* Writing other tags of the same vector keeps the writer sound.
LEMMA RetypeOK ==
  ASSUME NEW v, WriterOK(v), NEW T \in Vector(Nat), DOMAIN T = DOMAIN v.types,
         NEW n \in Nat, n <= Last(v.argIter)
  PROVE  /\ WriterOK(Retyped(v, T, n)) /\ OnlyTypes(v, Retyped(v, T, n))
         /\ Retyped(v, T, n).run = n /\ Retyped(v, T, n).types = T
<1> DEFINE r == Retyped(v, T, n)
<1>1. v \in Writer /\ StacksOK(v) /\ r = [v EXCEPT !.types = T, !.run = n]
  BY DEF WriterOK, Retyped
<1> HIDE DEF r
<1>2. r \in Writer
  BY <1>1 DEF Writer
<1>3. /\ r.types = T /\ r.run = n /\ r.args = v.args /\ r.argIter = v.argIter /\ r.exprStack = v.exprStack
      /\ r.exprs = v.exprs /\ r.layer = v.layer /\ r.keyValue = v.keyValue
      /\ r.cumul = v.cumul /\ r.nextExpr = v.nextExpr /\ r.strings = v.strings /\ r.wild = v.wild
  BY <1>1 DEF Writer
<1>4. StacksOK(r)
  BY <1>1, <1>3 DEF StacksOK
<1>5. OnlyTypes(v, r)
  BY <1>3 DEF OnlyTypes
<1> QED BY <1>2, <1>3, <1>4, <1>5 DEF WriterOK, r

\* resetTypeRLE touches the Type Vector only, and ends the run.
LEMMA ResetOK ==
  ASSUME NEW v, WriterOK(v), NEW end \in Nat, v.run <= end
  PROVE  /\ WriterOK(resetTypeRLE(v, end)) /\ OnlyTypes(v, resetTypeRLE(v, end))
         /\ resetTypeRLE(v, end).run = 0
<1> DEFINE T == IF v.run >= RLE_MINIMUM_SIZE
                THEN setRLEArgumentFlagOrPropagateTypes(v.types, end - v.run, v.run)
                ELSE v.types
<1>1. v.types \in Vector(Nat) /\ v.run \in Nat
  BY DEF WriterOK, Writer
<1>2. end - v.run \in Nat
  BY <1>1
<1>3. T \in Vector(Nat) /\ DOMAIN T = DOMAIN v.types
  BY <1>1, <1>2, RunMarked
<1>4. resetTypeRLE(v, end) = Retyped(v, T, 0)
  BY DEF resetTypeRLE, Retyped
<1>5. 0 \in Nat /\ 0 <= Last(v.argIter)
  BY LastOK
<1> HIDE DEF T
<1>6. WriterOK(Retyped(v, T, 0)) /\ OnlyTypes(v, Retyped(v, T, 0)) /\ Retyped(v, T, 0).run = 0
  BY <1>3, <1>5, RetypeOK
<1> QED BY <1>4, <1>6

\* The slot before the one at i is counted in the run, or begins one.
LEMMA ApplyOK ==
  ASSUME NEW v, WriterOK(v), NEW i \in Nat, v.run + 1 <= Last(v.argIter), v.run <= i
  PROVE  WriterOK(applyTypeRLE(v, i)) /\ OnlyTypes(v, applyTypeRLE(v, i))
<1> DEFINE r == applyTypeRLE(v, i)
           u == resetTypeRLE(v, i)
<1>1. v \in Writer /\ v.types \in Vector(Nat) /\ v.run \in Nat /\ Last(v.argIter) \in Nat
  BY LastOK DEF WriterOK, Writer
<1>2. r = v \/ r = [v EXCEPT !.run = 1] \/ r = [v EXCEPT !.run = v.run + 1] \/ r = [u EXCEPT !.run = 1]
  BY DEF applyTypeRLE
<1>3. WriterOK(u) /\ OnlyTypes(v, u)
  BY ResetOK
<1>4. \A n \in Nat : [v EXCEPT !.run = n] = Retyped(v, v.types, n)
  BY <1>1 DEF Writer, Retyped
<1> HIDE DEF r, u
<1>5. [u EXCEPT !.run = 1] = Retyped(u, u.types, 1) /\ u.types \in Vector(Nat)
  BY <1>3 DEF WriterOK, Writer, Retyped
<1>6. 1 \in Nat /\ 1 <= Last(v.argIter) /\ v.run + 1 \in Nat /\ Last(u.argIter) = Last(v.argIter)
  BY <1>1, <1>3 DEF OnlyTypes
<1>7. CASE r = v
  BY <1>7 DEF OnlyTypes, r
<1>8. CASE r = Retyped(v, v.types, 1) \/ r = Retyped(v, v.types, v.run + 1)
  <2>1. PICK n \in Nat : r = Retyped(v, v.types, n) /\ n <= Last(v.argIter)
    BY <1>6, <1>8
  <2> QED BY <1>1, <2>1, RetypeOK DEF r
<1>9. CASE r = Retyped(u, u.types, 1)
  <2>1. WriterOK(r) /\ OnlyTypes(u, r)
    BY <1>3, <1>5, <1>6, <1>9, RetypeOK
  <2>2. OnlyTypes(v, r)
    BY <1>3, <2>1 DEF OnlyTypes
  <2> QED BY <2>1, <2>2 DEF r
<1> QED BY <1>2, <1>4, <1>5, <1>6, <1>7, <1>8, <1>9

\* addLong and addDouble leave the layer, the keys and the stacks' height.
LEMMA AddNumberOK ==
  ASSUME NEW v, WriterOK(v), NEW type \in Nat, NEW at \in Seq(Nat)
  PROVE  WriterOK(addNumber(v, type, at)) /\ OneStored(v, addNumber(v, type, at))
<1> DEFINE s == PutArgument(v, type, at)
           i == NextArgumentIndex(v)
<1>1. WriterOK(s) /\ OneStored(v, s) /\ s.run = v.run /\ (~s.wild => Last(s.argIter) = Last(v.argIter) + 1)
  BY PutOK
<1>2. i \in Nat /\ i >= Last(v.argIter) /\ v.run \in Nat /\ v.run <= Last(v.argIter) /\ Last(v.argIter) \in Nat
  BY IndexOK, LastOK
<1> HIDE DEF s, i
<1>3. CASE s.wild
  <2>1. addNumber(v, type, at) = s
    BY <1>3 DEF addNumber, s
  <2> QED BY <1>1, <2>1
<1>4. CASE ~s.wild
  <2>1. addNumber(v, type, at) = applyTypeRLE(s, i)
    BY <1>4 DEF addNumber, s, i
  <2>2. s.run + 1 <= Last(s.argIter) /\ s.run <= i
    BY <1>1, <1>2, <1>4
  <2>3. WriterOK(applyTypeRLE(s, i)) /\ OnlyTypes(s, applyTypeRLE(s, i))
    BY <1>1, <1>2, <2>2, ApplyOK
  <2>4. OneStored(v, applyTypeRLE(s, i))
    BY <1>1, <2>3 DEF OneStored, OnlyTypes
  <2> QED BY <2>1, <2>3, <2>4
<1> QED BY <1>3, <1>4

\* addString and addSymbol likewise.
LEMMA AddTextOK ==
  ASSUME NEW v, WriterOK(v), NEW type \in Nat, NEW text \in String
  PROVE  WriterOK(addText(v, type, text)) /\ OneStored(v, addText(v, type, text))
<1> DEFINE s == storeString(v, text)
           at == <<Len(v.strings)>>
<1>1. WriterOK(s) /\ OneStored(v, s)
  <2>1. v \in Writer
    BY DEF WriterOK
  <2>2. s = [v EXCEPT !.strings = Append(v.strings, text)]
    BY StoreStringOK
  <2> HIDE DEF s
  <2>3. OneStored(v, s)
    BY <2>1, <2>2 DEF OneStored, Writer
  <2> QED BY <2>3, StoreStringOK DEF s
<1>2. at \in Seq(Nat)
  <2>1. v.strings \in Seq(String)
    BY DEF WriterOK, Writer
  <2>2. Len(v.strings) \in Nat
    BY <2>1
  <2> QED BY <2>2
<1>3. addText(v, type, text) = addNumber(s, type, at)
  BY DEF addText
<1> HIDE DEF s, at
<1>4. WriterOK(addNumber(s, type, at)) /\ OneStored(s, addNumber(s, type, at))
  BY <1>1, <1>2, AddNumberOK
<1>5. OneStored(v, addNumber(s, type, at))
  BY <1>1, <1>4 DEF OneStored
<1> QED BY <1>3, <1>4, <1>5

\* addExpression likewise; it also ends the run.
LEMMA AddExpressionOK ==
  ASSUME NEW v, WriterOK(v), NEW e \in Nat
  PROVE  /\ WriterOK(addExpression(v, e)) /\ OneStored(v, addExpression(v, e))
         /\ ~addExpression(v, e).wild => addExpression(v, e).run = 0
<1> DEFINE s == PutArgument(v, ARGUMENT_TYPE_EXPRESSION, <<e>>)
           i == NextArgumentIndex(v)
<1>1. WriterOK(s) /\ OneStored(v, s) /\ s.run = v.run
  <2>1. ARGUMENT_TYPE_EXPRESSION \in Nat /\ <<e>> \in Seq(Nat)
    BY DEF ARGUMENT_TYPE_EXPRESSION
  <2> QED BY <2>1, PutOK
<1>2. i \in Nat /\ i >= Last(v.argIter) /\ v.run \in Nat /\ v.run <= Last(v.argIter) /\ Last(v.argIter) \in Nat
  BY IndexOK, LastOK
<1> HIDE DEF s, i
<1>3. CASE s.wild
  <2>1. addExpression(v, e) = s
    BY <1>3 DEF addExpression, s
  <2> QED BY <1>1, <1>3, <2>1
<1>4. CASE ~s.wild
  <2>1. addExpression(v, e) = resetTypeRLE(s, i)
    BY <1>4 DEF addExpression, s, i
  <2>2. s.run <= i
    BY <1>1, <1>2
  <2>3. WriterOK(resetTypeRLE(s, i)) /\ OnlyTypes(s, resetTypeRLE(s, i)) /\ resetTypeRLE(s, i).run = 0
    BY <1>1, <1>2, <2>2, ResetOK
  <2>4. OneStored(v, resetTypeRLE(s, i))
    BY <1>1, <2>3 DEF OneStored, OnlyTypes
  <2> QED BY <2>1, <2>3, <2>4
<1> QED BY <1>3, <1>4

(***************************************************************************)
(* Expressions.                                                            *)
(***************************************************************************)
LEMMA StartOK ==
  ASSUME NEW v, WriterOK(v), NEW head \in String
  PROVE  LET r == startExpression(v, head) IN
         /\ WriterOK(r) /\ r.keyValue = v.keyValue
         /\ ~r.wild => r.layer = v.layer + 1 /\ v.layer \in DOMAIN v.cumul
<1> DEFINE e == v.nextExpr
           u == [v EXCEPT !.nextExpr = e + 1]
           a == storeString(addExpression(u, e), head)
           r == startExpression(v, head)
<1>1. v \in Writer /\ StacksOK(v) /\ e \in Nat /\ v.layer \in Nat
  BY DEF WriterOK, Writer
<1>2. WriterOK(u) /\ u.keyValue = v.keyValue /\ u.layer = v.layer /\ u.exprs = v.exprs
      /\ u.cumul = v.cumul
  <2>1. u \in Writer
    <3>1. e + 1 \in Nat
      BY <1>1
    <3> QED BY <1>1, <3>1 DEF Writer
  <2>2. /\ u.types = v.types /\ u.args = v.args /\ u.argIter = v.argIter /\ u.exprStack = v.exprStack
        /\ u.exprs = v.exprs /\ u.run = v.run /\ u.layer = v.layer /\ u.keyValue = v.keyValue /\ u.cumul = v.cumul
    BY <1>1 DEF Writer
  <2> HIDE DEF u
  <2> QED BY <1>1, <2>1, <2>2 DEF WriterOK, StacksOK
<1>3. /\ WriterOK(a) /\ a.keyValue = v.keyValue /\ a.layer = v.layer /\ a.exprs = v.exprs /\ a.cumul = v.cumul
      /\ ~a.wild => a.run = 0
  <2> DEFINE b == addExpression(u, e)
  <2>1. WriterOK(b) /\ OneStored(u, b) /\ (~b.wild => b.run = 0)
    <3> HIDE DEF u, e
    <3>1. e \in Nat
      BY <1>1
    <3> QED BY <1>2, <3>1, AddExpressionOK
  <2> HIDE DEF b
  <2>2. a = storeString(b, head)
    BY DEF b
  <2> HIDE DEF a
  <2>3. WriterOK(a) /\ a = [b EXCEPT !.strings = Append(b.strings, head)]
    BY <2>1, <2>2, StoreStringOK
  <2>4. /\ a.keyValue = b.keyValue /\ a.layer = b.layer /\ a.exprs = b.exprs /\ a.cumul = b.cumul
        /\ a.wild = b.wild /\ a.run = b.run
    BY <2>1, <2>3 DEF WriterOK, Writer
  <2> QED BY <1>2, <2>1, <2>3, <2>4 DEF OneStored
<1> HIDE DEF u, a
<1>4. CASE a.wild \/ e \notin DOMAIN v.exprs \/ v.layer \notin DOMAIN v.cumul
  <2>1. r = [a EXCEPT !.wild = TRUE]
    BY <1>4 DEF startExpression, a, u
  <2>2. a \in Writer /\ StacksOK(a)
    BY <1>3 DEF WriterOK
  <2> HIDE DEF r
  <2>3. r \in Writer /\ r.wild = TRUE
    BY <2>1, <2>2 DEF Writer
  <2>4. /\ r.types = a.types /\ r.args = a.args /\ r.argIter = a.argIter /\ r.exprStack = a.exprStack
        /\ r.exprs = a.exprs /\ r.run = a.run /\ r.layer = a.layer /\ r.keyValue = a.keyValue
    BY <2>1, <2>2 DEF Writer
  <2>5. StacksOK(r)
    BY <2>2, <2>4 DEF StacksOK
  <2> QED BY <1>3, <2>3, <2>4, <2>5 DEF WriterOK, r
<1>5. CASE ~(a.wild \/ e \notin DOMAIN v.exprs \/ v.layer \notin DOMAIN v.cumul)
  <2> DEFINE x == [head |-> Len(v.strings), start |-> v.cumul[v.layer], end |-> 0]
             E == [a.exprs EXCEPT ![e] = x]
             I == Append(a.argIter, 0)
             S == Append(a.exprStack, e)
  <2>1. a \in Writer /\ StacksOK(a)
    BY <1>3 DEF WriterOK
  <2>2. r = [a EXCEPT !.exprs = E, !.layer = v.layer + 1, !.argIter = I, !.exprStack = S]
    <3>1. r = [a EXCEPT !.exprs[e] = x, !.layer = v.layer + 1, !.argIter = Append(@, 0),
                        !.exprStack = Append(@, e)]
      BY <1>5 DEF startExpression, a, u
    <3> QED BY <2>1, <3>1 DEF Writer
  <2>3. E \in Vector(Expression) /\ DOMAIN E = DOMAIN v.exprs
    <3>1. v.cumul \in Vector(Nat) /\ v.strings \in Seq(String) /\ a.exprs \in Vector(Expression)
      BY <1>1, <2>1 DEF Writer
    <3>2. v.cumul[v.layer] \in Nat /\ Len(v.strings) \in Nat
      BY <1>5, <3>1, VectorOK
    <3>3. x \in Expression
      BY <3>2 DEF Expression
    <3> HIDE DEF x
    <3> QED BY <1>3, <3>1, <3>3, SetOK
  <2>4. /\ a.argIter \in Seq(Nat) /\ a.exprStack \in Seq(Nat) /\ Len(a.argIter) = v.layer + 1
        /\ Len(a.exprStack) = v.layer + 1
    BY <1>3, LastOK
  <2>5. /\ I \in Seq(Nat) /\ Len(I) = v.layer + 2 /\ Last(I) = 0
    <3>1. 0 \in Nat
      OBVIOUS
    <3>2. /\ I \in Seq(Nat) /\ Len(I) = Len(a.argIter) + 1 /\ Last(I) = 0
      BY <2>4, <3>1, PushStack
    <3> HIDE DEF I, a
    <3> QED BY <1>1, <2>4, <3>2
  <2>6. /\ S \in Seq(Nat) /\ Len(S) = v.layer + 2 /\ S[v.layer + 2] = e
        /\ \A j \in 1 .. v.layer + 1 : S[j] = a.exprStack[j]
    <3>1. /\ S \in Seq(Nat) /\ Len(S) = Len(a.exprStack) + 1 /\ S[Len(a.exprStack) + 1] = e
          /\ \A j \in 1 .. Len(a.exprStack) : S[j] = a.exprStack[j]
      BY <1>1, <2>4, PushStack
    <3> HIDE DEF S, e
    <3>2. Len(a.exprStack) + 1 = v.layer + 2
      BY <1>1, <2>4
    <3> QED BY <2>4, <3>1, <3>2
  <2> HIDE DEF E, I, S, a, r
  <2>7. r \in Writer
    <3>1. v.layer + 1 \in Nat
      BY <1>1
    <3> QED BY <2>1, <2>2, <2>3, <2>5, <2>6, <3>1 DEF Writer
  <2>8. /\ r.exprs = E /\ r.layer = v.layer + 1 /\ r.argIter = I /\ r.exprStack = S
        /\ r.types = a.types /\ r.args = a.args /\ r.run = a.run /\ r.keyValue = a.keyValue
    BY <2>1, <2>2 DEF Writer
  <2>9. \A j \in 2 .. v.layer + 2 : S[j] \in DOMAIN E
    <3> TAKE j \in 2 .. v.layer + 2
    <3>1. CASE j = v.layer + 2
      BY <1>5, <2>3, <2>6, <3>1
    <3>2. CASE j # v.layer + 2
      <4>1. j \in 1 .. v.layer + 1 /\ j \in 2 .. Len(a.exprStack)
        BY <1>1, <2>4, <3>2, SMTT(30)
      <4> QED BY <1>3, <2>1, <2>3, <2>6, <4>1 DEF StacksOK
    <3> QED BY <3>1, <3>2
  <2>10. StacksOK(r)
    <3>1. Len(r.argIter) = r.layer + 1 /\ Len(r.exprStack) = r.layer + 1
      BY <1>1, <2>5, <2>6, <2>8
    <3>2. r.run <= Last(r.argIter)
      BY <1>3, <1>5, <2>5, <2>8
    <3>3. \A j \in 2 .. Len(r.exprStack) : r.exprStack[j] \in DOMAIN r.exprs
      BY <2>6, <2>8, <2>9
    <3>4. DOMAIN r.args = DOMAIN r.types
      BY <2>1, <2>8 DEF StacksOK
    <3> QED BY <3>1, <3>2, <3>3, <3>4 DEF StacksOK
  <2> QED BY <1>3, <1>5, <2>7, <2>8, <2>10 DEF WriterOK, r
<1> QED BY <1>4, <1>5

\* endExpression pops both stacks and goes up a layer.
LEMMA EndOK ==
  ASSUME NEW v, WriterOK(v), v.layer >= 1
  PROVE  LET r == endExpression(v) IN
         /\ WriterOK(r) /\ r.keyValue = v.keyValue /\ r.layer = v.layer - 1 /\ r.wild = v.wild
<1> DEFINE e == Last(v.exprStack)
           end == v.exprs[e].start + Last(v.argIter)
           u == resetTypeRLE(v, end)
           x == [v.exprs[e] EXCEPT !.end = end]
           E == [v.exprs EXCEPT ![e] = x]
           I == Front(v.argIter)
           S == Front(v.exprStack)
           C == [v.cumul EXCEPT ![v.layer - 1] = end]
           r == endExpression(v)
<1>1. v \in Writer /\ StacksOK(v)
  BY DEF WriterOK
<1>2. v.layer \in Nat /\ v.layer - 1 \in Nat
  BY LastOK
<1>3. e \in DOMAIN v.exprs /\ v.exprs \in Vector(Expression) /\ v.exprs[e] \in Expression
  <2>1. Len(v.exprStack) \in 2 .. Len(v.exprStack) /\ e = v.exprStack[Len(v.exprStack)]
    BY <1>2, LastOK
  <2>2. v.exprs \in Vector(Expression)
    BY <1>1 DEF Writer
  <2> HIDE DEF e
  <2>3. e \in DOMAIN v.exprs
    BY <1>1, <2>1 DEF StacksOK
  <2> QED BY <2>2, <2>3, VectorOK
<1>4. v.exprs[e].start \in Nat /\ Last(v.argIter) \in Nat
  BY <1>3, LastOK DEF Expression
<1> HIDE DEF e
<1>5. end \in Nat /\ v.run <= end
  <2>1. v.run \in Nat /\ v.run <= Last(v.argIter)
    BY LastOK
  <2> QED BY <1>4, <2>1
<1> HIDE DEF end
<1>6. WriterOK(u) /\ OnlyTypes(v, u) /\ u.run = 0
  BY <1>5, ResetOK
<1> HIDE DEF u
<1>7. u \in Writer /\ StacksOK(u)
  BY <1>6 DEF WriterOK
<1>8. r = [u EXCEPT !.exprs = E, !.argIter = I, !.exprStack = S, !.layer = v.layer - 1, !.cumul = C]
  <2>1. u.exprs = v.exprs /\ u.argIter = v.argIter /\ u.exprStack = v.exprStack /\ u.cumul = v.cumul
    BY <1>6 DEF OnlyTypes
  <2>2. r = [u EXCEPT !.exprs[e].end = end, !.argIter = Front(@), !.exprStack = Front(@),
                      !.layer = v.layer - 1, !.cumul[v.layer - 1] = end]
    BY DEF endExpression, e, end, u
  <2> QED BY <1>7, <2>1, <2>2 DEF Writer
<1>9. E \in Vector(Expression) /\ DOMAIN E = DOMAIN v.exprs
  <2>1. x \in Expression
    BY <1>3, <1>5 DEF Expression
  <2> HIDE DEF x
  <2> QED BY <1>3, <2>1, SetOK
<1>10. C \in Vector(Nat)
  <2>1. v.cumul \in Vector(Nat)
    BY <1>1 DEF Writer
  <2> QED BY <1>5, <2>1, SetOK
<1>11. I \in Seq(Nat) /\ Len(I) = v.layer /\ Last(I) \in Nat
  <2>1. I \in Seq(Nat) /\ Len(I) = Len(v.argIter) - 1
    BY LastOK, PopStack
  <2>2. Len(I) = v.layer
    <3>1. Len(v.argIter) = v.layer + 1
      BY LastOK
    <3> HIDE DEF I
    <3> QED BY <1>2, <2>1, <3>1
  <2>3. I # <<>>
    BY <1>2, <2>1, <2>2, EmptySeq
  <2> HIDE DEF I
  <2> QED BY <2>1, <2>2, <2>3, PopStack
<1>12. /\ S \in Seq(Nat) /\ Len(S) = v.layer
       /\ \A j \in 1 .. v.layer : S[j] = v.exprStack[j]
  <2>1. v.exprStack \in Seq(Nat) /\ v.exprStack # <<>>
    BY LastOK
  <2>3. S \in Seq(Nat) /\ Len(S) = Len(v.exprStack) - 1
    BY <2>1, PopStack
  <2>4. \A j \in 1 .. Len(v.exprStack) - 1 : S[j] = v.exprStack[j]
    BY <2>1, PopStack
  <2>2. Len(v.exprStack) - 1 = v.layer
    BY <1>2, LastOK
  <2> QED BY <2>2, <2>3, <2>4
<1> HIDE DEF E, I, S, C, r
<1>13. r \in Writer
  BY <1>2, <1>7, <1>8, <1>9, <1>10, <1>11, <1>12 DEF Writer
<1>14. /\ r.exprs = E /\ r.layer = v.layer - 1 /\ r.argIter = I /\ r.exprStack = S
       /\ r.types = u.types /\ r.args = u.args /\ r.run = 0 /\ r.keyValue = u.keyValue /\ r.wild = u.wild
  BY <1>6, <1>7, <1>8 DEF Writer
<1>15. \A j \in 2 .. v.layer : S[j] \in DOMAIN E
  <2> TAKE j \in 2 .. v.layer
  <2>1. j \in 1 .. v.layer /\ j \in 2 .. Len(v.exprStack)
    BY <1>2, LastOK
  <2> QED BY <1>1, <1>9, <1>12, <2>1 DEF StacksOK
<1>16. StacksOK(r)
  <2>1. Len(r.argIter) = r.layer + 1 /\ Len(r.exprStack) = r.layer + 1
    BY <1>2, <1>11, <1>12, <1>14
  <2>2. r.run <= Last(r.argIter)
    BY <1>11, <1>14
  <2>3. \A j \in 2 .. Len(r.exprStack) : r.exprStack[j] \in DOMAIN r.exprs
    BY <1>12, <1>14, <1>15
  <2>4. DOMAIN r.args = DOMAIN r.types
    BY <1>7, <1>14 DEF StacksOK
  <2> QED BY <2>1, <2>2, <2>3, <2>4 DEF StacksOK
<1> QED BY <1>6, <1>13, <1>14, <1>16 DEF WriterOK, OnlyTypes, r

\* The document is on no key's layer, so the stacks keep their first entry.
LEMMA KeyEndOK ==
  ASSUME NEW v, WriterOK(v), 0 \notin v.keyValue
  PROVE  LET r == handleKeyValueEnd(v) IN
         /\ WriterOK(r)
         /\ ~r.wild => /\ ~v.wild
                       /\ r.layer = v.layer - (IF v.layer \in v.keyValue THEN 1 ELSE 0)
                       /\ r.keyValue = v.keyValue \ {v.layer}
<1> DEFINE r == handleKeyValueEnd(v)
<1>1. v \in Writer /\ StacksOK(v) /\ v.layer \in Nat /\ v.wild \in BOOLEAN
  BY DEF WriterOK, Writer
<1>2. CASE ~v.wild /\ v.layer \in v.keyValue
  <2> DEFINE u == [v EXCEPT !.keyValue = v.keyValue \ {v.layer}]
  <2>1. r = endExpression(u)
    BY <1>2 DEF handleKeyValueEnd
  <2>2. u \in Writer
    <3>1. v.keyValue \ {v.layer} \in SUBSET Nat
      BY <1>1 DEF Writer
    <3> QED BY <1>1, <3>1 DEF Writer
  <2>3. /\ u.types = v.types /\ u.args = v.args /\ u.argIter = v.argIter /\ u.exprStack = v.exprStack
        /\ u.exprs = v.exprs /\ u.run = v.run /\ u.layer = v.layer /\ u.wild = v.wild
        /\ u.keyValue = v.keyValue \ {v.layer}
    BY <1>1 DEF Writer
  <2> HIDE DEF u, r
  <2>4. WriterOK(u)
    BY <1>1, <2>2, <2>3 DEF WriterOK, StacksOK
  <2>5. u.layer >= 1
    BY <1>1, <1>2, <2>3
  <2>6. WriterOK(r) /\ r.keyValue = u.keyValue /\ r.layer = u.layer - 1 /\ r.wild = u.wild
    BY <2>1, <2>4, <2>5, EndOK
  <2> QED BY <1>1, <1>2, <2>3, <2>6 DEF r
<1>3. CASE ~(~v.wild /\ v.layer \in v.keyValue)
  <2> DEFINE b == v.wild \/ v.layer \notin DOMAIN v.cumul
  <2>1. r = [v EXCEPT !.wild = b]
    BY <1>1, <1>3 DEF handleKeyValueEnd, Writer
  <2>2. b \in BOOLEAN /\ (~b => ~v.wild)
    BY <1>1
  <2> HIDE DEF b, r
  <2>3. r \in Writer
    BY <1>1, <2>1, <2>2 DEF Writer
  <2>4. /\ r.types = v.types /\ r.args = v.args /\ r.argIter = v.argIter /\ r.exprStack = v.exprStack
        /\ r.exprs = v.exprs /\ r.run = v.run /\ r.layer = v.layer /\ r.keyValue = v.keyValue /\ r.wild = b
    BY <1>1, <2>1 DEF Writer
  <2>5. StacksOK(r)
    BY <1>1, <2>4 DEF StacksOK
  <2>6. ~r.wild => v.layer \notin v.keyValue
    BY <1>3, <2>2, <2>4
  <2>7. ~r.wild => r.keyValue = v.keyValue \ {v.layer}
    BY <2>4, <2>6
  <2>8. ~r.wild => r.layer = v.layer - (IF v.layer \in v.keyValue THEN 1 ELSE 0)
    BY <1>1, <2>4, <2>6
  <2> QED BY <2>2, <2>3, <2>4, <2>5, <2>7, <2>8 DEF WriterOK, r
<1> QED BY <1>2, <1>3

(***************************************************************************)
(* Natural numbers and the sums of the first traversal's counts.           *)
(***************************************************************************)
\* A nonempty set of natural numbers has a least element.
LEMMA LeastNat ==
  ASSUME NEW T \in SUBSET Nat, T # {}
  PROVE  \E x \in T : \A y \in T : x <= y
<1>1. IsWellFoundedOn(OpToRel(<, Nat), Nat)
  BY NatLessThanWellFounded
<1>2. PICK x \in T : \A y \in T : ~(<<y, x>> \in OpToRel(<, Nat))
  BY <1>1, WFMin
<1>3. \A y \in T : ~(y < x)
  BY <1>2 DEF OpToRel
<1> QED BY <1>3

\* A layer has as many slots as its count says.
LEMMA LayerCardinality ==
  ASSUME NEW k, NEW m \in Nat
  PROVE  IsFiniteSet({k} \X (0 .. m - 1)) /\ Cardinality({k} \X (0 .. m - 1)) = m
<1>1. IsFiniteSet({k}) /\ Cardinality({k}) = 1
  BY FS_Singleton
<1>2. m - 1 \in Int /\ 0 \in Int
  OBVIOUS
<1>3. IsFiniteSet(0 .. m - 1) /\ Cardinality(0 .. m - 1) = IF 0 > m - 1 THEN 0 ELSE m - 1 - 0 + 1
  BY <1>2, FS_Interval
<1>4. Cardinality(0 .. m - 1) = m
  BY <1>3
<1>5. Cardinality({k} \X (0 .. m - 1)) = 1 * m
  BY <1>1, <1>3, <1>4, FS_Product
<1> QED BY <1>1, <1>3, <1>5, FS_Product

\* The slots of the layers up to l, whose number is the partial sum.
SlotsUpTo(perLayer, l) == UNION {{k} \X (0 .. perLayer[k] - 1) : k \in 0 .. l}

\* The slots of finitely many layers are finite.
LEMMA SlotsFinite ==
  ASSUME NEW n \in Nat, NEW f \in [0 .. n - 1 -> Nat], NEW l \in 0 .. n - 1
  PROVE  IsFiniteSet(SlotsUpTo(f, l))
<1> DEFINE bad == {k \in 0 .. n - 1 : ~IsFiniteSet(SlotsUpTo(f, k))}
<1>1. SUFFICES ASSUME bad # {} PROVE FALSE
  OBVIOUS
<1>2. PICK k \in bad : \A y \in bad : k <= y
  <2>1. bad \in SUBSET Nat
    OBVIOUS
  <2> HIDE DEF bad
  <2> QED BY <1>1, <2>1, LeastNat
<1>3. k \in 0 .. n - 1 /\ IsFiniteSet({k} \X (0 .. f[k] - 1))
  BY <1>2, LayerCardinality
<1>4. CASE k = 0
  <2>1. SlotsUpTo(f, 0) = {0} \X (0 .. f[0] - 1)
    <3>1. 0 .. 0 = {0}
      OBVIOUS
    <3> QED BY <3>1 DEF SlotsUpTo
  <2> QED BY <1>2, <1>3, <1>4, <2>1
<1>5. CASE k # 0
  <2>1. k - 1 \in 0 .. n - 1 /\ k - 1 \notin bad
    BY <1>2, <1>3, <1>5
  <2>2. SlotsUpTo(f, k) = SlotsUpTo(f, k - 1) \cup ({k} \X (0 .. f[k] - 1))
    <3>1. 0 .. k = (0 .. k - 1) \cup {k}
      BY <1>3, <1>5
    <3> QED BY <3>1 DEF SlotsUpTo
  <2>3. IsFiniteSet(SlotsUpTo(f, k - 1))
    BY <2>1
  <2>4. IsFiniteSet(SlotsUpTo(f, k))
    <3>1. IsFiniteSet(SlotsUpTo(f, k - 1) \cup ({k} \X (0 .. f[k] - 1)))
      BY <1>3, <2>3, FS_Union, Zenon
    <3> QED BY <2>2, <3>1, Zenon
  <2> QED BY <1>2, <2>4
<1> QED BY <1>4, <1>5

\* What the constructor's std::partial_sum leaves: layer by layer the counts
\* add up, and no layer's sum is below that of the layer above it.
LEMMA PartialSums ==
  ASSUME NEW n \in Nat, NEW f \in [0 .. n - 1 -> Nat]
  PROVE  /\ PartialSum(f) \in [0 .. n - 1 -> Nat]
         /\ n > 0 => PartialSum(f)[0] = f[0]
         /\ \A l \in 1 .. n - 1 : PartialSum(f)[l] = PartialSum(f)[l - 1] + f[l]
         /\ \A l, m \in 0 .. n - 1 : l <= m => PartialSum(f)[l] <= PartialSum(f)[m]
<1>1. \A l \in 0 .. n - 1 : PartialSum(f)[l] = Cardinality(SlotsUpTo(f, l))
  BY DEF PartialSum, SlotsUpTo
<1>2. \A l \in 0 .. n - 1 : IsFiniteSet({l} \X (0 .. f[l] - 1)) /\ Cardinality({l} \X (0 .. f[l] - 1)) = f[l]
  BY LayerCardinality
<1>3. PartialSum(f) \in [0 .. n - 1 -> Nat]
  <2>1. \A l \in 0 .. n - 1 : Cardinality(SlotsUpTo(f, l)) \in Nat
    BY SlotsFinite, FS_CardinalityType
  <2> QED BY <2>1 DEF PartialSum, SlotsUpTo
<1>4. n > 0 => PartialSum(f)[0] = f[0]
  <2>1. SlotsUpTo(f, 0) = {0} \X (0 .. f[0] - 1)
    <3>1. 0 .. 0 = {0}
      OBVIOUS
    <3> QED BY <3>1 DEF SlotsUpTo
  <2>2. n > 0 => 0 \in 0 .. n - 1
    OBVIOUS
  <2>3. n > 0 => Cardinality({0} \X (0 .. f[0] - 1)) = f[0]
    BY <1>2, <2>2
  <2> QED BY <1>1, <2>1, <2>2, <2>3
<1>5. \A l \in 1 .. n - 1 : PartialSum(f)[l] = PartialSum(f)[l - 1] + f[l]
  <2> TAKE l \in 1 .. n - 1
  <2> DEFINE A == SlotsUpTo(f, l - 1)
             B == {l} \X (0 .. f[l] - 1)
  <2>1. SlotsUpTo(f, l) = A \cup B
    <3>1. 0 .. l = (0 .. l - 1) \cup {l}
      OBVIOUS
    <3> QED BY <3>1 DEF SlotsUpTo
  <2>0. l \in 0 .. n - 1 /\ l - 1 \in 0 .. n - 1
    OBVIOUS
  <2>2. A \cap B = {}
    BY DEF SlotsUpTo
  <2>3. IsFiniteSet(A) /\ IsFiniteSet(B) /\ Cardinality(B) = f[l]
    BY SlotsFinite, <1>2, <2>0
  <2>4. Cardinality(A) \in Nat
    BY <2>3, FS_CardinalityType
  <2>5. Cardinality(A \cup B) = Cardinality(A) + Cardinality(B) - Cardinality(A \cap B)
    BY <2>3, FS_Union
  <2>6. Cardinality(A \cap B) = 0
    BY <2>2, FS_EmptySet
  <2>7. Cardinality(A \cup B) = Cardinality(A) + f[l]
    <3>1. f[l] \in Nat
      BY <2>0
    <3> HIDE DEF A, B
    <3> QED BY <2>3, <2>4, <2>5, <2>6, <3>1
  <2>8. PartialSum(f)[l - 1] = Cardinality(A) /\ PartialSum(f)[l] = Cardinality(A \cup B)
    BY <1>1, <2>0, <2>1
  <2> QED BY <2>7, <2>8
<1>6. \A l, m \in 0 .. n - 1 : l <= m => PartialSum(f)[l] <= PartialSum(f)[m]
  <2> TAKE l, m \in 0 .. n - 1
  <2> HAVE l <= m
  <2>1. SlotsUpTo(f, l) \subseteq SlotsUpTo(f, m)
    BY DEF SlotsUpTo
  <2>2. IsFiniteSet(SlotsUpTo(f, m))
    BY SlotsFinite
  <2>3. Cardinality(SlotsUpTo(f, l)) <= Cardinality(SlotsUpTo(f, m))
    BY <2>1, <2>2, FS_Subset
  <2> QED BY <1>1, <2>3
<1> QED BY <1>3, <1>4, <1>5, <1>6

\* What the memory of a block may hold before it is written.
Found == [type : Nat, arg : Seq(Nat), expr : [head : Nat, start : Nat, end : Nat]]

\* The constructor leaves a sound writer, on layer 0.
LEMMA NewWriterOK ==
  ASSUME NEW k \in Counters, 0 \in DOMAIN k.perLayer, NEW found \in Found
  PROVE  /\ WriterOK(NewWriter(k, found)) /\ NewWriter(k, found).layer = 0
         /\ NewWriter(k, found).keyValue = {} /\ ~NewWriter(k, found).wild
<1> DEFINE C == PartialSum(k.perLayer)
           n == C[Cardinality(DOMAIN C) - 1]
           r == NewWriter(k, found)
<1>1. k.perLayer \in Layers /\ k.expressionCount \in Nat
  BY DEF Counters
<1>2. PICK m \in Nat : k.perLayer \in [0 .. m - 1 -> Nat]
  BY <1>1 DEF Layers, Vector
<1>3. C \in [0 .. m - 1 -> Nat]
  BY <1>2, PartialSums
<1>4. C \in Vector(Nat)
  BY <1>3 DEF Vector
<1>5. n \in Nat
  <2>1. DOMAIN C = 0 .. m - 1 /\ m - 1 \in Nat
    BY <1>2, <1>3
  <2>2. Cardinality(0 .. m - 1) = m
    <3>1. 0 \in Int /\ m - 1 \in Int
      BY <2>1
    <3>2. Cardinality(0 .. m - 1) = IF 0 > m - 1 THEN 0 ELSE m - 1 - 0 + 1
      BY <3>1, FS_Interval
    <3> QED BY <2>1, <3>2
  <2> HIDE DEF C
  <2> QED BY <1>3, <2>1, <2>2
<1> HIDE DEF C, n
<1>f. found.type \in Nat /\ found.arg \in Seq(Nat) /\ found.expr \in Expression
  BY DEF Found, Expression
<1>v. \A S : \A size \in Nat : \A value \in S :
        Filled(size, value) \in Vector(S) /\ DOMAIN Filled(size, value) = 0 .. size - 1
  <2> TAKE S
  <2> TAKE size \in Nat
  <2> TAKE value \in S
  <2>1. Filled(size, value) \in [0 .. size - 1 -> S]
    BY DEF Filled
  <2> QED BY <2>1 DEF Vector
<1>6. Filled(n, found.type) \in Vector(Nat) /\ DOMAIN Filled(n, found.type) = 0 .. n - 1
  BY <1>5, <1>f, <1>v
<1>7. Filled(n, found.arg) \in Vector(Seq(Nat)) /\ DOMAIN Filled(n, found.arg) = 0 .. n - 1
  BY <1>5, <1>f, <1>v
<1>8. Filled(k.expressionCount, found.expr) \in Vector(Expression)
  BY <1>1, <1>f, <1>v
<1>9. r = [types |-> Filled(n, found.type), args |-> Filled(n, found.arg),
           exprs |-> Filled(k.expressionCount, found.expr),
           strings |-> <<>>, cumul |-> C, keyValue |-> {}, argIter |-> <<0>>,
           exprStack |-> <<0>>, nextExpr |-> 0, layer |-> 0, run |-> 0, wild |-> FALSE]
  BY DEF NewWriter, C, n
<1>10. <<>> \in Seq(String) /\ <<0>> \in Seq(Nat) /\ Len(<<0>>) = 1 /\ Last(<<0>>) = 0
  BY DEF Last
<1> HIDE DEF r
<1>11. r \in Writer
  BY <1>4, <1>6, <1>7, <1>8, <1>9, <1>10 DEF Writer
<1>12. StacksOK(r)
  BY <1>6, <1>7, <1>9, <1>10 DEF StacksOK
<1> QED BY <1>9, <1>11, <1>12 DEF WriterOK, r

\* So does the state before the constructor ran.
LEMMA NoBlockOK == WriterOK(NoBlock)
<1>1. Filled(0, 0) = [i \in {} |-> 0] /\ 0 .. 0 - 1 = {}
  BY DEF Filled
<1>2. Filled(0, 0) \in [0 .. 0 - 1 -> Nat] /\ Filled(0, 0) \in [0 .. 0 - 1 -> Seq(Nat)] /\ Filled(0, 0) \in [0 .. 0 - 1 -> Expression]
  BY <1>1
<1>3. Filled(0, 0) \in Vector(Nat) /\ Filled(0, 0) \in Vector(Seq(Nat)) /\ Filled(0, 0) \in Vector(Expression)
  BY <1>2 DEF Vector
<1>4. <<>> \in Seq(String) /\ <<0>> \in Seq(Nat) /\ Len(<<0>>) = 1 /\ Last(<<0>>) = 0
  BY DEF Last
<1>5. NoBlock \in Writer
  BY <1>3, <1>4 DEF NoBlock, Writer
<1>6. StacksOK(NoBlock)
  BY <1>4 DEF NoBlock, StacksOK
<1> QED BY <1>5, <1>6 DEF WriterOK

(***************************************************************************)
(* The load: the writer is at an event of the document, on the layer the   *)
(* parser had there.                                                       *)
(***************************************************************************)

\* Layers that the loop over a CSV file is inside of.
Inside == IF csv.col = 0 THEN 0 ELSE IF csv.row = 0 THEN 1 ELSE 2

PlaceOK ==
  /\ pos \in 1 .. Len(file) + 1 /\ csv \in [col : Nat, row : Nat]
  /\ csv.col > 0 => pos <= Len(file) /\ IsCsv(file[pos])
  /\ stage = "count" => pos = 1 /\ csv.col = 0
  /\ stage \in {"write", "done"} => Complete
  /\ stage = "write" /\ ~w.wild => /\ w.layer = Nest(At(pos).parser) + Inside
                                   /\ w.keyValue = KeyLayers(At(pos).parser)

IInv ==
  /\ options \in Options /\ leftover \in Leftovers \cup {Zeros}
  /\ stage \in {"count", "write", "done", "failed"}
  /\ HistoryOK /\ WriterOK(w) /\ PlaceOK

\* The invariant holds before the first event is read.
LEMMA InitInv == Init => IInv
<1> SUFFICES ASSUME Init PROVE IInv
  OBVIOUS
<1>1. /\ options \in Options /\ leftover \in Leftovers \cup {Zeros} /\ stage = "count" /\ file = <<>> /\ parser = Blank /\ c = InitCounters
      /\ seen = <<>> /\ pos = 1 /\ csv = [col |-> 0, row |-> 0] /\ w = NoBlock
  BY DEF Init, Blank
<1>2. Len(file) = 0 /\ Len(seen) = 0 /\ file \in Seq(Token) /\ seen \in Seq([parser : Parser, c : Counters])
  BY <1>1
<1>3. ParserOK(Blank) /\ Nest(Blank) = 0 /\ KeyDepths(Blank) = {}
  <2>1. Blank.open = <<>> /\ Len(Blank.open) = 0 /\ Blank.open \in Seq(Frame) /\ Blank.pending = FALSE
    BY DEF Blank
  <2>2. Blank \in [open : Seq(Frame), pending : BOOLEAN]
    BY <2>1 DEF Blank
  <2>3. ParserOK(Blank)
    BY <2>1, <2>2 DEF ParserOK
  <2>4. Nest(Blank) = 0 /\ KeyDepths(Blank) = {}
    BY <2>1 DEF Nest, KeyDepths, Keyed
  <2> QED BY <2>3, <2>4
<1>4. CountersOK(Blank, InitCounters)
  <2>1. [l \in {} |-> 0] \in [0 .. 0 - 1 -> Nat]
    OBVIOUS
  <2>2. [l \in {} |-> 0] \in Layers
    BY <2>1 DEF Layers, Vector
  <2> QED BY <1>3, <2>2 DEF CountersOK, Counters, InitCounters
<1>5. \A i \in 1 .. Len(file) + 1 : At(i) = [parser |-> Blank, c |-> InitCounters]
  BY <1>1, <1>2 DEF At
<1>6. HistoryOK
  <2>1. Below(InitCounters, InitCounters)
    <3>1. InitCounters.perLayer \in Layers /\ InitCounters.expressionCount \in Nat
      BY <1>4 DEF CountersOK, Counters
    <3>2. \A l \in Nat : Count(InitCounters.perLayer, l) \in Nat
      BY <3>1, ResizeOK
    <3> QED BY <3>1, <3>2 DEF Below
  <2> QED BY <1>1, <1>2, <1>3, <1>4, <1>5, <2>1 DEF HistoryOK
<1>7. PlaceOK
  BY <1>1, <1>2 DEF PlaceOK
<1> QED BY <1>1, <1>6, <1>7, NoBlockOK DEF IInv

\* The second traversal leaves the document and its history alone.
LEMMA HistoryStays ==
  ASSUME HistoryOK, UNCHANGED <<options, leftover, file, parser, c, seen>>
  PROVE  HistoryOK' /\ \A i : At(i)' = At(i)
<1>1. \A i : At(i)' = At(i)
  BY DEF At
<1>2. \A x : IsCsv(x)' = IsCsv(x)
  BY DEF IsCsv
<1> QED BY <1>1, <1>2 DEF HistoryOK

\* Where the writer is: at an event of the file, with the parser of that event.
LEMMA AtEvent ==
  ASSUME IInv, pos <= Len(file)
  PROVE  /\ pos \in 1 .. Len(file) /\ file[pos] \in Token /\ ParserOK(At(pos).parser)
         /\ Legal(At(pos).parser, file[pos]) /\ At(pos + 1).parser = After(At(pos).parser, file[pos])
         /\ Place \in Seq(Nat) /\ \A text \in Texts : Text(text, Place) \in String
         /\ file[pos].event # "end" => file[pos].event \in Texts
<1>1. pos \in 1 .. Len(file) /\ Len(file) \in Nat /\ file \in Seq(Token)
  BY DEF IInv, PlaceOK, HistoryOK
<1>2. file[pos] \in Token
  BY <1>1
<1>3. pos \in 1 .. Len(file) + 1
  BY <1>1
<1>4. /\ ParserOK(At(pos).parser) /\ Legal(At(pos).parser, file[pos])
      /\ At(pos + 1).parser = After(At(pos).parser, file[pos])
  BY <1>1, <1>3 DEF IInv, HistoryOK
<1>5. Place \in Seq(Nat)
  <2>1. pos \in Nat /\ csv.col \in Nat /\ csv.row \in Nat
    BY <1>1 DEF IInv, PlaceOK
  <2> QED BY <2>1 DEF Place
<1>6. \A text \in Texts : Text(text, Place) \in String
  BY <1>5 DEF Text, String
<1>7. file[pos].event # "end" => file[pos].event \in Texts
  <2>1. file[pos].event \in Leaves \cup {"object", "array", "key", "end"}
    BY <1>2 DEF Token
  <2> QED BY <2>1 DEF Texts
<1> QED BY <1>1, <1>2, <1>4, <1>5, <1>6, <1>7

\* A handler that returns leaves the writer where the next event finds it.
LEMMA ReturnOK ==
  ASSUME IInv, stage = "write", pos <= Len(file), UNCHANGED <<options, leftover>>, NEW v, HandlerReturns(v), WriterOK(v),
         ~v.wild => /\ v.layer = Nest(After(At(pos).parser, file[pos]))
                    /\ v.keyValue = KeyLayers(After(At(pos).parser, file[pos]))
  PROVE  IInv'
<1>1. /\ w' = v /\ pos' = pos + 1 /\ csv' = [col |-> 0, row |-> 0]
      /\ UNCHANGED <<options, leftover, stage, file, parser, c, seen>>
  BY DEF HandlerReturns
<1>2. HistoryOK' /\ \A i : At(i)' = At(i)
  BY <1>1, HistoryStays DEF IInv
<1>3. pos' \in 1 .. Len(file') + 1
  BY <1>1, AtEvent DEF IInv, PlaceOK
<1>4. At(pos)' = At(pos + 1)
  BY <1>1 DEF At
<1>5. At(pos)'.parser = After(At(pos).parser, file[pos])
  BY <1>4, AtEvent
<1>6. Nest(At(pos)'.parser) \in Nat
  <2>1. pos + 1 \in 1 .. Len(file) + 1
    BY <1>1, <1>3
  <2>2. ParserOK(At(pos + 1).parser)
    BY <2>1 DEF IInv, HistoryOK
  <2> QED BY <1>4, <2>2, NestOK
<1>7. Inside' = 0
  BY <1>1 DEF Inside
<1>8. (stage = "write" /\ ~w.wild)' => /\ w'.layer = Nest(At(pos)'.parser) + Inside'
                                       /\ w'.keyValue = KeyLayers(At(pos)'.parser)
  BY <1>1, <1>5, <1>6, <1>7
<1>9. Complete'
  BY <1>1 DEF IInv, PlaceOK, Complete
<1>10. PlaceOK'
  BY <1>1, <1>3, <1>8, <1>9 DEF PlaceOK
<1> QED BY <1>1, <1>2, <1>10 DEF IInv

\* A handler in the middle of a CSV file.
LEMMA GoesOnOK ==
  ASSUME IInv, stage = "write", pos <= Len(file), UNCHANGED <<options, leftover>>, IsCsv(file[pos]),
         NEW col \in Nat \ {0}, NEW row \in Nat, NEW v, HandlerGoesOn(col, row, v), WriterOK(v),
         ~v.wild => /\ v.layer = Nest(At(pos).parser) + (IF row = 0 THEN 1 ELSE 2)
                    /\ v.keyValue = KeyLayers(At(pos).parser)
  PROVE  IInv'
<1>1. /\ w' = v /\ csv' = [col |-> col, row |-> row]
      /\ UNCHANGED <<options, leftover, stage, file, parser, c, seen, pos>>
  BY DEF HandlerGoesOn
<1>2. HistoryOK' /\ \A i : At(i)' = At(i)
  BY <1>1, HistoryStays DEF IInv
<1>3. At(pos)' = At(pos)
  BY <1>1 DEF At
<1>4. Inside' = IF row = 0 THEN 1 ELSE 2
  BY <1>1 DEF Inside
<1>5. (stage = "write" /\ ~w.wild)' => /\ w'.layer = Nest(At(pos)'.parser) + Inside'
                                       /\ w'.keyValue = KeyLayers(At(pos)'.parser)
  BY <1>1, <1>3, <1>4
<1>6. Complete'
  BY <1>1 DEF IInv, PlaceOK, Complete
<1>7. IsCsv(file[pos])'
  BY <1>1 DEF IsCsv
<1>8. PlaceOK'
  BY <1>1, <1>5, <1>6, <1>7 DEF PlaceOK, IInv
<1> QED BY <1>1, <1>2, <1>8 DEF IInv

\* The end of a value: the layer of the key in front of it is left, if there is one.
LEMMA ValueDone ==
  ASSUME IInv, stage = "write", ~w.wild, pos <= Len(file),
         file[pos].event \notin {"key", "object", "array", "end"}, NEW u, WriterOK(u),
         ~u.wild => u.layer = Nest(At(pos).parser),
         u.keyValue = KeyLayers(At(pos).parser), UNCHANGED <<options, leftover>>,
         HandlerReturns(handleKeyValueEnd(u))
  PROVE  IInv'
<1> DEFINE p == At(pos).parser
           v == handleKeyValueEnd(u)
<1>1. ParserOK(p) /\ Legal(p, file[pos]) /\ file[pos] \in Token
  BY AtEvent
<1>2. KeyLayers(p) \subseteq Nat \ {0}
  BY <1>1, LayersStep
<1>3. 0 \notin u.keyValue
  BY <1>2
<1>4. WriterOK(v) /\ (~v.wild => /\ ~u.wild
                                 /\ v.layer = u.layer - (IF u.layer \in u.keyValue THEN 1 ELSE 0)
                                 /\ v.keyValue = u.keyValue \ {u.layer})
  BY <1>3, KeyEndOK
<1>5. /\ Nest(After(p, file[pos])) = Nest(p) - (IF p.pending THEN 1 ELSE 0)
      /\ KeyLayers(After(p, file[pos])) = KeyLayers(p) \ {Nest(p)}
      /\ Nest(p) \in KeyLayers(p) <=> p.pending
  BY <1>1, ParserStep, LayersStep
<1> HIDE DEF v
<1>6. ~v.wild => v.layer = Nest(After(p, file[pos])) /\ v.keyValue = KeyLayers(After(p, file[pos]))
  BY <1>4, <1>5
<1>7. HandlerReturns(v)
  BY DEF v
<1> QED BY <1>4, <1>6, <1>7, ReturnOK

(***************************************************************************)
(* Every action keeps the invariant.                                       *)
(***************************************************************************)
\* The first traversal: the writer waits at the first event.
LEMMA CountKeeps ==
  ASSUME IInv, UNCHANGED <<options, leftover>>, NEW event, NEW table, NEW p, NEW k, Parse(event, table, p, k),
         [event |-> event, table |-> table] \in Token,
         Legal(parser, [event |-> event, table |-> table]),
         p = After(parser, [event |-> event, table |-> table]),
         k = CountOf(parser, c, [event |-> event, table |-> table])
  PROVE  IInv'
<1> DEFINE t == [event |-> event, table |-> table]
<1>1. /\ stage = "count" /\ ~Complete /\ file' = Append(file, t) /\ seen' = Append(seen, [parser |-> parser, c |-> c])
      /\ parser' = p /\ c' = k /\ UNCHANGED <<options, leftover, stage, pos, csv, w>>
  BY DEF Parse
<1>2. HistoryOK'
  <2>1. t \in Token /\ Legal(parser, t) /\ parser' = After(parser, t) /\ c' = CountOf(parser, c, t)
    BY <1>1
  <2> HIDE DEF t
  <2> QED BY <1>1, <2>1, ParseStep DEF IInv
<1>3. Len(file') \in Nat
  <2>1. file' \in Seq(Token)
    BY <1>2 DEF HistoryOK
  <2> QED BY <2>1
<1>4. PlaceOK'
  <2>1. stage' = "count" /\ pos' = 1 /\ csv'.col = 0 /\ csv' \in [col : Nat, row : Nat]
    BY <1>1 DEF IInv, PlaceOK
  <2>2. ~(csv'.col > 0)
    BY <2>1
  <2> QED BY <1>3, <2>1, <2>2 DEF PlaceOK
<1> QED BY <1>1, <1>2, <1>4 DEF IInv

\* A key, while counting.
LEMMA CountKeyEventInv == ASSUME IInv, UNCHANGED <<options, leftover>>, CountKeyEvent PROVE IInv'
<1> DEFINE t == [event |-> "key", table |-> <<>>]
<1>1. t \in Token /\ t.event = "key"
  BY DEF Token
<1>2. parser.open # <<>> /\ ~parser.pending
  BY DEF CountKeyEvent, AfterKey
<1>3. Legal(parser, t)
  BY <1>2 DEF Legal
<1>4. Parse("key", <<>>, After(parser, t), CountOf(parser, c, t))
  BY DEF CountKeyEvent, After, CountOf
<1> QED BY <1>1, <1>3, <1>4, CountKeeps

\* The start of an object or array, while counting.
LEMMA CountStartEventInv == ASSUME IInv, UNCHANGED <<options, leftover>>, CountStartEvent PROVE IInv'
<1>1. PICK event \in {"object", "array"} :
        LET frame == [object |-> event = "object", keyed |-> parser.pending, nest |-> Nest(parser)]
        IN Parse(event, <<>>, [open |-> Append(parser.open, frame), pending |-> FALSE], CountStart(c))
  BY DEF CountStartEvent
<1> DEFINE t == [event |-> event, table |-> <<>>]
<1>2. t \in Token /\ t.event \in {"object", "array"}
  BY DEF Token
<1>3. Legal(parser, t)
  BY <1>2 DEF Legal
<1>4. Parse(event, <<>>, After(parser, t), CountOf(parser, c, t))
  BY <1>1, <1>2 DEF After, CountOf, Pushed
<1> QED BY <1>2, <1>3, <1>4, CountKeeps

\* The end of an object or array, while counting.
LEMMA CountEndEventInv == ASSUME IInv, UNCHANGED <<options, leftover>>, CountEndEvent PROVE IInv'
<1> DEFINE t == [event |-> "end", table |-> <<>>]
<1>1. t \in Token /\ t.event = "end"
  BY DEF Token
<1>2. Legal(parser, t)
  BY DEF Legal, CountEndEvent
<1>3. Parse("end", <<>>, After(parser, t), CountOf(parser, c, t))
  BY DEF CountEndEvent, After, CountOf
<1> QED BY <1>1, <1>2, <1>3, CountKeeps

\* A value without nesting, or the name of a CSV file, while counting.
LEMMA CountValueEventInv == ASSUME IInv, UNCHANGED <<options, leftover>>, CountValueEvent PROVE IInv'
<1>0. PICK event \in Leaves : \E table \in IF event = "csv" THEN Tables ELSE {<<>>} :
        Parse(event, table, [parser EXCEPT !.pending = FALSE],
              CountValue(c, Len(parser.open), [event |-> event, table |-> table]))
  BY DEF CountValueEvent
<1>1. PICK table \in IF event = "csv" THEN Tables ELSE {<<>>} :
        Parse(event, table, [parser EXCEPT !.pending = FALSE],
              CountValue(c, Len(parser.open), [event |-> event, table |-> table]))
  BY <1>0
<1> DEFINE t == [event |-> event, table |-> table]
<1>2. t \in Token /\ t.event = event
  BY <1>1 DEF Token
<1>3. event \notin {"key", "object", "array", "end"}
  BY LoadAssumption
<1>4. Legal(parser, t)
  BY <1>2, <1>3 DEF Legal
<1>5. Parse(event, table, After(parser, t), CountOf(parser, c, t))
  BY <1>1, <1>2, <1>3 DEF After, CountOf
<1> QED BY <1>2, <1>4, <1>5, CountKeeps

\* A stage that ends leaves everything in place.
LEMMA StageInv ==
  ASSUME IInv, UNCHANGED <<options, leftover, file, parser, c, seen, pos, csv, w>>,
         stage' \in {"failed", "done", stage}, stage' = "done" => Complete
  PROVE  IInv'
<1>1. HistoryOK' /\ At(pos)' = At(pos)
  BY HistoryStays DEF IInv, At
<1>2. Inside' = Inside /\ Complete' = Complete /\ IsCsv(file[pos])' = IsCsv(file[pos])
  BY DEF Inside, Complete, IsCsv
<1>3. PlaceOK'
  BY <1>1, <1>2 DEF PlaceOK, IInv
<1> QED BY <1>1, <1>3 DEF IInv

\* The constructor of JsonToWisent, on the counts of a complete document.
LEMMA ConstructInv == ASSUME IInv, UNCHANGED <<options, leftover>>, Construct PROVE IInv'
<1>1. /\ stage = "count" /\ Complete /\ stage' = "write" /\ w' = NewWriter(c, leftover)
      /\ UNCHANGED <<options, leftover, file, parser, c, seen, pos, csv>>
  BY DEF Construct
<1>2. HistoryOK' /\ \A i : At(i)' = At(i)
  BY <1>1, HistoryStays DEF IInv
<1>3. Len(file) \in Nat /\ Len(file) > 0 /\ pos = 1 /\ csv.col = 0
  <2>1. file \in Seq(Token) /\ file # <<>>
    BY <1>1 DEF IInv, HistoryOK, Complete
  <2> QED BY <1>1, <2>1, EmptySeq DEF IInv, PlaceOK
<1>4. c \in Counters /\ 0 \in DOMAIN c.perLayer
  <2> DEFINE n == Len(file)
  <2>1. n \in 1 .. n /\ n + 1 \in 1 .. n + 1 /\ n \in 1 .. n + 1 /\ ~(n + 1 <= n)
    BY <1>3
  <2>2. At(n + 1) = [parser |-> parser, c |-> c]
    BY <2>1 DEF At
  <2>3. CountersOK(parser, c) /\ ParserOK(At(n).parser)
    BY <2>1, <2>2 DEF IInv, HistoryOK
  <2>4. Grew(At(n).c, c, file[n], IsCsv(file[n]), Nest(At(n).parser))
    <3>1. Grew(At(n).c, At(n + 1).c, file[n], IsCsv(file[n]), Nest(At(n).parser))
      BY <2>1 DEF IInv, HistoryOK
    <3> QED BY <2>2, <3>1
  <2>5. Nest(At(n).parser) \in Nat
    BY <2>3, NestOK
  <2> QED BY <2>3, <2>4, <2>5 DEF CountersOK, Grew
<1>5. WriterOK(w') /\ w'.layer = 0 /\ w'.keyValue = {}
  <2>1. leftover \in Found
    <3>1. <<0>> \in Seq(Nat)
      OBVIOUS
    <3>2. Zeros \in Found
      BY <3>1 DEF Zeros, Found
    <3>3. Leftovers \subseteq Found
      BY LoadAssumption DEF Found
    <3> QED BY <3>2, <3>3 DEF IInv
  <2> QED BY <1>1, <1>4, <2>1, NewWriterOK
<1>6. At(pos).parser = Blank
  BY <1>3 DEF IInv, HistoryOK
<1>7. Nest(Blank) = 0 /\ KeyLayers(Blank) = {}
  BY DEF Nest, KeyLayers, Keyed, Blank
<1>8. Inside' = 0
  BY <1>1, <1>3 DEF Inside
<1>9. w'.layer = Nest(At(pos)'.parser) + Inside' /\ w'.keyValue = KeyLayers(At(pos)'.parser)
  <2>1. At(pos)' = At(pos)
    BY <1>1 DEF At
  <2> QED BY <1>5, <1>6, <1>7, <1>8, <2>1
<1>10. Complete' /\ ~(csv'.col > 0)
  BY <1>1, <1>3 DEF Complete
<1>11. PlaceOK'
  BY <1>1, <1>9, <1>10 DEF PlaceOK, IInv
<1> QED BY <1>1, <1>2, <1>5, <1>11 DEF IInv

\* Where an event's handler starts: on the layer of the parser.
LEMMA EventOK ==
  ASSUME IInv, NEW events, Event(events)
  PROVE  /\ stage = "write" /\ ~w.wild /\ pos <= Len(file) /\ WriterOK(w) /\ file[pos].event \in events
         /\ w.layer = Nest(At(pos).parser) /\ w.keyValue = KeyLayers(At(pos).parser)
         /\ w.layer \in Nat /\ 0 \notin w.keyValue
<1>1. stage = "write" /\ ~w.wild /\ pos <= Len(file) /\ csv.col = 0 /\ file[pos].event \in events
  BY DEF Event
<1>2. Nest(At(pos).parser) \in Nat /\ KeyLayers(At(pos).parser) \subseteq Nat \ {0}
  BY <1>1, AtEvent, NestOK, LayersStep
<1>3. Inside = 0
  BY <1>1 DEF Inside
<1> QED BY <1>1, <1>2, <1>3 DEF IInv, PlaceOK

\* The kinds of the tags are numbers.
LEMMA TagsOK ==
  /\ ARGUMENT_TYPE_LONG \in Nat /\ ARGUMENT_TYPE_DOUBLE \in Nat
  /\ ARGUMENT_TYPE_STRING \in Nat /\ ARGUMENT_TYPE_SYMBOL \in Nat
  BY DEF ARGUMENT_TYPE_LONG, ARGUMENT_TYPE_DOUBLE, ARGUMENT_TYPE_STRING, ARGUMENT_TYPE_SYMBOL

\* A handler that stores one value and leaves its key.
LEMMA ValueEvent ==
  ASSUME IInv, UNCHANGED <<options, leftover>>, NEW events, Event(events),
         events \cap {"key", "object", "array", "end"} = {},
         NEW u, WriterOK(u), OneStored(w, u), HandlerReturns(handleKeyValueEnd(u))
  PROVE  IInv'
<1>1. /\ stage = "write" /\ ~w.wild /\ pos <= Len(file) /\ file[pos].event \in events
      /\ w.layer = Nest(At(pos).parser) /\ w.keyValue = KeyLayers(At(pos).parser)
  BY EventOK
<1>2. file[pos].event \notin {"key", "object", "array", "end"}
  BY <1>1
<1>3. u.layer = Nest(At(pos).parser) /\ u.keyValue = KeyLayers(At(pos).parser)
  BY <1>1 DEF OneStored
<1> QED BY <1>1, <1>2, <1>3, ValueDone

\* The handlers null and boolean.
LEMMA WriteSymbolInv == ASSUME IInv, UNCHANGED <<options, leftover>>, WriteSymbol PROVE IInv'
<1> DEFINE text == Text(file[pos].event, Place)
           u == addText(w, ARGUMENT_TYPE_SYMBOL, text)
           events == {"null", "boolean"}
<1>1. Event(events) /\ HandlerReturns(handleKeyValueEnd(u))
  BY DEF WriteSymbol
<1>2. WriterOK(w) /\ file[pos].event \in events /\ pos <= Len(file)
  BY <1>1, EventOK
<1>3. text \in String
  BY <1>2, AtEvent
<1> HIDE DEF text
<1>4. WriterOK(u) /\ OneStored(w, u)
  BY <1>2, <1>3, TagsOK, AddTextOK
<1>5. events \cap {"key", "object", "array", "end"} = {}
  OBVIOUS
<1> HIDE DEF u, events
<1> QED BY <1>1, <1>4, <1>5, ValueEvent

\* The handlers of numbers.
LEMMA WriteNumberInv == ASSUME IInv, UNCHANGED <<options, leftover>>, WriteNumber PROVE IInv'
<1> DEFINE type == IF file[pos].event = "integer" THEN ARGUMENT_TYPE_LONG ELSE ARGUMENT_TYPE_DOUBLE
           u == addNumber(w, type, Place)
           events == {"integer", "float"}
<1>1. Event(events) /\ HandlerReturns(handleKeyValueEnd(u))
  BY DEF WriteNumber
<1>2. WriterOK(w) /\ pos <= Len(file)
  BY <1>1, EventOK
<1>3. type \in Nat /\ Place \in Seq(Nat)
  BY <1>2, AtEvent, TagsOK
<1> HIDE DEF type
<1>4. WriterOK(u) /\ OneStored(w, u)
  BY <1>2, <1>3, AddNumberOK
<1>5. events \cap {"key", "object", "array", "end"} = {}
  OBVIOUS
<1> HIDE DEF u, events
<1> QED BY <1>1, <1>4, <1>5, ValueEvent

\* The handler string, of a text that names no CSV file.
LEMMA WriteStringInv == ASSUME IInv, UNCHANGED <<options, leftover>>, WriteString PROVE IInv'
<1> DEFINE text == Text(file[pos].event, Place)
           u == addText(w, ARGUMENT_TYPE_STRING, text)
           events == {"string", "longstring", "csv"}
<1>1. Event(events) /\ HandlerReturns(handleKeyValueEnd(u))
  BY DEF WriteString
<1>2. WriterOK(w) /\ file[pos].event \in events /\ pos <= Len(file)
  BY <1>1, EventOK
<1>3. text \in String
  BY <1>2, AtEvent
<1> HIDE DEF text
<1>4. WriterOK(u) /\ OneStored(w, u)
  BY <1>2, <1>3, TagsOK, AddTextOK
<1>5. events \cap {"key", "object", "array", "end"} = {}
  OBVIOUS
<1> HIDE DEF u, events
<1> QED BY <1>1, <1>4, <1>5, ValueEvent

\* start_object and start_array.
LEMMA WriteStartInv == ASSUME IInv, UNCHANGED <<options, leftover>>, WriteStart PROVE IInv'
<1> DEFINE text == Text(file[pos].event, Place)
           v == startExpression(w, text)
           p == At(pos).parser
<1>1. Event({"object", "array"}) /\ HandlerReturns(v)
  BY DEF WriteStart
<1>2. /\ stage = "write" /\ pos <= Len(file) /\ WriterOK(w) /\ file[pos].event \in {"object", "array"}
      /\ w.layer = Nest(p) /\ w.keyValue = KeyLayers(p)
  BY <1>1, EventOK
<1>3. text \in String
  BY <1>2, AtEvent
<1> HIDE DEF text
<1>4. WriterOK(v) /\ v.keyValue = w.keyValue /\ (~v.wild => v.layer = w.layer + 1)
  BY <1>2, <1>3, StartOK
<1>5. Nest(After(p, file[pos])) = Nest(p) + 1 /\ KeyLayers(After(p, file[pos])) = KeyLayers(p)
  BY <1>2, AtEvent, ParserStep, LayersStep
<1> HIDE DEF v
<1>6. ~v.wild => v.layer = Nest(After(p, file[pos])) /\ v.keyValue = KeyLayers(After(p, file[pos]))
  BY <1>2, <1>4, <1>5
<1> QED BY <1>1, <1>2, <1>4, <1>6, ReturnOK

\* end_object and end_array, with the key in front, if there is one.
LEMMA WriteEndInv == ASSUME IInv, UNCHANGED <<options, leftover>>, WriteEnd PROVE IInv'
<1> DEFINE u == endExpression(w)
           v == handleKeyValueEnd(u)
           p == At(pos).parser
<1>1. Event({"end"}) /\ HandlerReturns(v)
  BY DEF WriteEnd
<1>2. /\ stage = "write" /\ ~w.wild /\ pos <= Len(file) /\ WriterOK(w) /\ file[pos].event = "end"
      /\ w.layer = Nest(p) /\ w.keyValue = KeyLayers(p) /\ 0 \notin w.keyValue /\ w.layer \in Nat
  BY <1>1, EventOK
<1>3. /\ Nest(After(p, file[pos])) = Nest(p) - 1 - (IF p.open[Len(p.open)].keyed THEN 1 ELSE 0)
      /\ ParserOK(After(p, file[pos]))
      /\ KeyLayers(After(p, file[pos])) = KeyLayers(p) \ {Nest(p) - 1}
      /\ Nest(p) - 1 \in KeyLayers(p) <=> p.open[Len(p.open)].keyed
  BY <1>2, AtEvent, ParserStep, LayersStep
<1>4. w.layer >= 1
  <2>1. Nest(After(p, file[pos])) \in Nat
    BY <1>3, NestOK
  <2> QED BY <1>2, <1>3, <2>1
<1>5. WriterOK(u) /\ u.keyValue = w.keyValue /\ u.layer = w.layer - 1
  BY <1>2, <1>4, EndOK
<1> HIDE DEF u
<1>6. WriterOK(v) /\ (~v.wild => /\ v.layer = u.layer - (IF u.layer \in u.keyValue THEN 1 ELSE 0)
                                 /\ v.keyValue = u.keyValue \ {u.layer})
  BY <1>2, <1>5, KeyEndOK
<1> HIDE DEF v
<1>7. ~v.wild => v.layer = Nest(After(p, file[pos])) /\ v.keyValue = KeyLayers(After(p, file[pos]))
  BY <1>2, <1>3, <1>5, <1>6
<1> QED BY <1>1, <1>2, <1>6, <1>7, ReturnOK

\* The handler key, which starts an expression and sets its layer's bit.
LEMMA WriteKeyInv == ASSUME IInv, UNCHANGED <<options, leftover>>, WriteKey PROVE IInv'
<1> DEFINE text == Text("key", Place)
           s == startExpression(w, text)
           b == s.wild \/ s.layer \notin DOMAIN w.cumul
           v == [s EXCEPT !.keyValue = s.keyValue \cup {s.layer}, !.wild = b]
           p == At(pos).parser
<1>0. WriterOK(w)
  BY DEF IInv
<1>1. Event({"key"})
  BY DEF WriteKey
<1>2. /\ stage = "write" /\ pos <= Len(file) /\ file[pos].event = "key"
      /\ w.layer = Nest(p) /\ w.keyValue = KeyLayers(p)
  BY <1>1, EventOK
<1>3. text \in String
  <2>1. "key" \in Texts
    BY DEF Texts
  <2> QED BY <1>2, <2>1, AtEvent
<1>4. WriterOK(s) /\ s.keyValue = w.keyValue /\ (~s.wild => s.layer = w.layer + 1)
  <2> HIDE DEF text
  <2> QED BY <1>0, <1>3, StartOK
<1>5. s \in Writer /\ StacksOK(s)
  BY <1>4 DEF WriterOK
<1>6. HandlerReturns(v)
  <2>1. HandlerReturns([s EXCEPT !.keyValue = @ \cup {s.layer}, !.wild = @ \/ s.layer \notin DOMAIN w.cumul])
    BY DEF WriteKey
  <2> HIDE DEF s
  <2>2. v = [s EXCEPT !.keyValue = @ \cup {s.layer}, !.wild = @ \/ s.layer \notin DOMAIN w.cumul]
    BY <1>5 DEF Writer
  <2> QED BY <2>1, <2>2
<1> HIDE DEF s
<1>7. s.keyValue \cup {s.layer} \in SUBSET Nat /\ b \in BOOLEAN /\ (~b => ~s.wild)
  BY <1>5 DEF Writer
<1> HIDE DEF b, v
<1>8. v \in Writer
  BY <1>5, <1>7 DEF Writer, v
<1>9. /\ v.types = s.types /\ v.args = s.args /\ v.argIter = s.argIter /\ v.exprStack = s.exprStack
      /\ v.exprs = s.exprs /\ v.run = s.run /\ v.layer = s.layer
      /\ v.keyValue = s.keyValue \cup {s.layer} /\ v.wild = b
  BY <1>5 DEF Writer, v
<1>10. WriterOK(v)
  BY <1>5, <1>8, <1>9 DEF WriterOK, StacksOK
<1>11. Nest(After(p, file[pos])) = Nest(p) + 1 /\ KeyLayers(After(p, file[pos])) = KeyLayers(p) \cup {Nest(p) + 1}
  BY <1>2, AtEvent, ParserStep, LayersStep
<1>12. ~v.wild => v.layer = Nest(After(p, file[pos])) /\ v.keyValue = KeyLayers(After(p, file[pos]))
  BY <1>2, <1>4, <1>7, <1>9, <1>11
<1> QED BY <1>2, <1>6, <1>10, <1>12, ReturnOK

\* Inside a CSV file: on the layer of the table, or of its column.
LEMMA InTableOK ==
  ASSUME IInv, InTable
  PROVE  /\ stage = "write" /\ ~w.wild /\ pos <= Len(file) /\ WriterOK(w) /\ IsCsv(file[pos])
         /\ file[pos].event = "csv" /\ csv.col \in Nat \ {0} /\ csv.row \in Nat
         /\ w.layer = Nest(At(pos).parser) + (IF csv.row = 0 THEN 1 ELSE 2)
         /\ w.keyValue = KeyLayers(At(pos).parser) /\ Nest(At(pos).parser) \in Nat
         /\ Place \in Seq(Nat) /\ \A text \in Texts : Text(text, Place) \in String
<1>1. stage = "write" /\ ~w.wild /\ csv.col > 0
  BY DEF InTable
<1>2. pos <= Len(file) /\ IsCsv(file[pos]) /\ csv.col \in Nat /\ csv.row \in Nat
  BY <1>1 DEF IInv, PlaceOK
<1>3. Nest(At(pos).parser) \in Nat /\ Place \in Seq(Nat) /\ \A text \in Texts : Text(text, Place) \in String
  BY <1>2, AtEvent, NestOK
<1>4. Inside = IF csv.row = 0 THEN 1 ELSE 2
  BY <1>1, <1>2 DEF Inside
<1>5. file[pos].event = "csv"
  BY <1>2 DEF IsCsv
<1>6. WriterOK(w)
  BY DEF IInv
<1>7. /\ w.layer = Nest(At(pos).parser) + (IF csv.row = 0 THEN 1 ELSE 2)
      /\ w.keyValue = KeyLayers(At(pos).parser)
  BY <1>1, <1>4 DEF IInv, PlaceOK
<1>8. csv.col \in Nat \ {0}
  BY <1>1, <1>2
<1> QED BY <1>1, <1>2, <1>3, <1>5, <1>6, <1>7, <1>8

\* handleCsvFile: the expression of the table.
LEMMA WriteTableStartInv == ASSUME IInv, UNCHANGED <<options, leftover>>, WriteTableStart PROVE IInv'
<1> DEFINE text == Text("table", Place)
           v == startExpression(w, text)
<1>1. Event({"csv"}) /\ IsCsv(file[pos]) /\ HandlerGoesOn(1, 0, v)
  BY DEF WriteTableStart
<1>2. /\ stage = "write" /\ pos <= Len(file) /\ WriterOK(w)
      /\ w.layer = Nest(At(pos).parser) /\ w.keyValue = KeyLayers(At(pos).parser)
  BY <1>1, EventOK
<1>3. text \in String
  <2>1. "table" \in Texts
    BY DEF Texts
  <2> QED BY <1>2, <2>1, AtEvent
<1> HIDE DEF text
<1>4. WriterOK(v) /\ v.keyValue = w.keyValue /\ (~v.wild => v.layer = w.layer + 1)
  BY <1>2, <1>3, StartOK
<1> HIDE DEF v
<1>5. ~v.wild => /\ v.layer = Nest(At(pos).parser) + (IF 0 = 0 THEN 1 ELSE 2)
                 /\ v.keyValue = KeyLayers(At(pos).parser)
  BY <1>2, <1>4
<1>6. 1 \in Nat \ {0} /\ 0 \in Nat
  OBVIOUS
<1> QED BY <1>1, <1>2, <1>4, <1>5, <1>6, GoesOnOK

\* handleCsvFile: the expression of a column.
LEMMA WriteColumnStartInv == ASSUME IInv, UNCHANGED <<options, leftover>>, WriteColumnStart PROVE IInv'
<1> DEFINE text == Text("column", Place)
           v == startExpression(w, text)
<1>1. InTable /\ csv.row = 0 /\ HandlerGoesOn(csv.col, 1, v)
  BY DEF WriteColumnStart
<1>2. /\ stage = "write" /\ pos <= Len(file) /\ WriterOK(w) /\ IsCsv(file[pos]) /\ csv.col \in Nat \ {0}
      /\ w.layer = Nest(At(pos).parser) + 1 /\ w.keyValue = KeyLayers(At(pos).parser)
      /\ Nest(At(pos).parser) \in Nat
  BY <1>1, InTableOK
<1>3. text \in String
  <2>1. "column" \in Texts
    BY DEF Texts
  <2> QED BY <1>1, <2>1, InTableOK
<1> HIDE DEF text
<1>4. WriterOK(v) /\ v.keyValue = w.keyValue /\ (~v.wild => v.layer = w.layer + 1)
  BY <1>2, <1>3, StartOK
<1> HIDE DEF v
<1>5. ~v.wild => /\ v.layer = Nest(At(pos).parser) + (IF 1 = 0 THEN 1 ELSE 2)
                 /\ v.keyValue = KeyLayers(At(pos).parser)
  BY <1>2, <1>4
<1>6. 1 \in Nat
  OBVIOUS
<1> QED BY <1>1, <1>2, <1>4, <1>5, <1>6, GoesOnOK

\* handleCsvFile: one cell, converted or missing.
LEMMA WriteCellInv == ASSUME IInv, UNCHANGED <<options, leftover>>, WriteCell PROVE IInv'
<1> DEFINE T == TypeOfCsvColumn(Column)
           missing == Text("missing", Place)
           cell == Text("cell", Place)
           v == IF ConvertCell(T, Column[csv.row]) = "missing"
                THEN addText(w, ARGUMENT_TYPE_SYMBOL, missing)
                ELSE IF T = "int64_t" THEN addNumber(w, ARGUMENT_TYPE_LONG, Place)
                ELSE IF T = "double_t" THEN addNumber(w, ARGUMENT_TYPE_DOUBLE, Place)
                ELSE addText(w, ARGUMENT_TYPE_STRING, cell)
<1>1. InTable /\ csv.row > 0 /\ HandlerGoesOn(csv.col, csv.row + 1, v)
  BY DEF WriteCell
<1>2. /\ stage = "write" /\ pos <= Len(file) /\ WriterOK(w) /\ IsCsv(file[pos]) /\ csv.col \in Nat \ {0}
      /\ csv.row \in Nat /\ Nest(At(pos).parser) \in Nat /\ Place \in Seq(Nat)
  BY <1>1, InTableOK
<1>3. w.layer = Nest(At(pos).parser) + 2 /\ w.keyValue = KeyLayers(At(pos).parser)
  BY <1>1, InTableOK
<1>4. missing \in String /\ cell \in String
  <2>1. "missing" \in Texts /\ "cell" \in Texts
    BY DEF Texts
  <2> QED BY <1>1, <2>1, InTableOK
<1> HIDE DEF T, missing, cell
<1>5. WriterOK(v) /\ OneStored(w, v)
  <2>1. \/ v = addText(w, ARGUMENT_TYPE_SYMBOL, missing) \/ v = addText(w, ARGUMENT_TYPE_STRING, cell)
        \/ v = addNumber(w, ARGUMENT_TYPE_LONG, Place) \/ v = addNumber(w, ARGUMENT_TYPE_DOUBLE, Place)
    OBVIOUS
  <2> HIDE DEF v
  <2>2. CASE v = addText(w, ARGUMENT_TYPE_SYMBOL, missing) \/ v = addText(w, ARGUMENT_TYPE_STRING, cell)
    BY <1>2, <1>4, <2>2, TagsOK, AddTextOK
  <2>3. CASE v = addNumber(w, ARGUMENT_TYPE_LONG, Place) \/ v = addNumber(w, ARGUMENT_TYPE_DOUBLE, Place)
    BY <1>2, <2>3, TagsOK, AddNumberOK
  <2> QED BY <2>1, <2>2, <2>3
<1> HIDE DEF v
<1>6. csv.row + 1 \in Nat /\ csv.row + 1 # 0
  BY <1>2
<1>7. /\ v.layer = Nest(At(pos).parser) + (IF csv.row + 1 = 0 THEN 1 ELSE 2)
      /\ v.keyValue = KeyLayers(At(pos).parser)
  BY <1>3, <1>5, <1>6 DEF OneStored
<1> QED BY <1>1, <1>2, <1>5, <1>6, <1>7, GoesOnOK

\* handleCsvFile: the end of a column.
LEMMA WriteColumnEndInv == ASSUME IInv, UNCHANGED <<options, leftover>>, WriteColumnEnd PROVE IInv'
<1> DEFINE v == endExpression(w)
<1>1. InTable /\ csv.row > 0 /\ HandlerGoesOn(csv.col + 1, 0, v)
  BY DEF WriteColumnEnd
<1>2. /\ stage = "write" /\ pos <= Len(file) /\ WriterOK(w) /\ IsCsv(file[pos]) /\ csv.col \in Nat \ {0}
      /\ Nest(At(pos).parser) \in Nat
  BY <1>1, InTableOK
<1>3. w.layer = Nest(At(pos).parser) + 2 /\ w.keyValue = KeyLayers(At(pos).parser)
  BY <1>1, InTableOK
<1>4. WriterOK(v) /\ v.keyValue = w.keyValue /\ v.layer = w.layer - 1
  <2>1. w.layer >= 1
    BY <1>2, <1>3
  <2> QED BY <1>2, <2>1, EndOK
<1> HIDE DEF v
<1>5. /\ v.layer = Nest(At(pos).parser) + (IF 0 = 0 THEN 1 ELSE 2)
      /\ v.keyValue = KeyLayers(At(pos).parser)
  BY <1>2, <1>3, <1>4
<1>6. csv.col + 1 \in Nat \ {0} /\ 0 \in Nat
  BY <1>2
<1> QED BY <1>1, <1>2, <1>4, <1>5, <1>6, GoesOnOK

\* handleCsvFile: the end of the table, and of a key in front of it.
LEMMA WriteTableEndInv == ASSUME IInv, UNCHANGED <<options, leftover>>, WriteTableEnd PROVE IInv'
<1> DEFINE u == endExpression(w)
<1>1. InTable /\ csv.row = 0 /\ HandlerReturns(handleKeyValueEnd(u))
  BY DEF WriteTableEnd
<1>2. /\ stage = "write" /\ ~w.wild /\ pos <= Len(file) /\ WriterOK(w) /\ file[pos].event = "csv"
      /\ w.layer = Nest(At(pos).parser) + 1 /\ w.keyValue = KeyLayers(At(pos).parser)
      /\ Nest(At(pos).parser) \in Nat
  BY <1>1, InTableOK
<1>3. WriterOK(u) /\ u.keyValue = w.keyValue /\ u.layer = w.layer - 1
  <2>1. w.layer >= 1
    BY <1>2
  <2> QED BY <1>2, <2>1, EndOK
<1> HIDE DEF u
<1>4. u.layer = Nest(At(pos).parser) /\ u.keyValue = KeyLayers(At(pos).parser)
  BY <1>2, <1>3
<1>5. file[pos].event \notin {"key", "object", "array", "end"}
  BY <1>2
<1> QED BY <1>1, <1>2, <1>3, <1>4, <1>5, ValueDone

\* Every step of a load keeps the invariant.
LEMMA StepInv == IInv /\ [Next]_vars => IInv'
<1> SUFFICES ASSUME IInv, [Next]_vars PROVE IInv'
  OBVIOUS
<1>1. CASE UNCHANGED vars
  BY <1>1, StageInv DEF vars, IInv, PlaceOK
<1>2. ASSUME UNCHANGED <<options, leftover>>, CountNext PROVE IInv'
  <2>1. CASE CountFails
    BY <1>2, <2>1, StageInv DEF CountFails
  <2> QED BY <1>2, <2>1, CountKeyEventInv, CountStartEventInv, CountEndEventInv, CountValueEventInv,
             ConstructInv DEF CountNext
<1>3. ASSUME UNCHANGED <<options, leftover>>, WriteNext PROVE IInv'
  <2>1. CASE WriteFails
    BY <1>3, <2>1, StageInv DEF WriteFails
  <2>2. CASE Finish
    BY <1>3, <2>2, StageInv DEF Finish, IInv, PlaceOK
  <2> QED BY <1>3, <2>1, <2>2, WriteSymbolInv, WriteNumberInv, WriteStringInv, WriteStartInv, WriteEndInv,
             WriteKeyInv, WriteTableStartInv, WriteColumnStartInv, WriteCellInv, WriteColumnEndInv,
             WriteTableEndInv DEF WriteNext
<1>4. ASSUME UNCHANGED <<options, leftover>>, Returned PROVE IInv'
  BY <1>4, StageInv DEF Returned, IInv, PlaceOK
<1> QED BY <1>1, <1>2, <1>3, <1>4 DEF Next

(***************************************************************************)
(* What the invariant says of the loader.                                  *)
(***************************************************************************)
LEMMA InvLayers == IInv => LayersAgree
<1> SUFFICES ASSUME IInv PROVE LayersAgree
  OBVIOUS
<1>1. Len(file) \in Nat
  BY DEF IInv, HistoryOK
<1>2. c.layer = Nest(parser)
  <2>1. Len(file) + 1 \in 1 .. Len(file) + 1 /\ ~(Len(file) + 1 <= Len(file))
    BY <1>1
  <2>2. At(Len(file) + 1) = [parser |-> parser, c |-> c]
    BY <2>1 DEF At
  <2> QED BY <2>1, <2>2 DEF IInv, HistoryOK, CountersOK
<1>3. ASSUME stage = "write", ~w.wild, csv.col = 0
      PROVE  w.layer = IF pos <= Len(file) THEN Nest(seen[pos].parser) ELSE 0
  <2>1. Inside = 0 /\ w.layer = Nest(At(pos).parser) + Inside
    BY <1>3 DEF IInv, PlaceOK, Inside
  <2>2. pos \in 1 .. Len(file) + 1
    BY DEF IInv, PlaceOK
  <2>3. Nest(At(pos).parser) \in Nat
    BY <2>2, NestOK DEF IInv, HistoryOK
  <2>4. w.layer = Nest(At(pos).parser)
    BY <2>1, <2>3
  <2>5. CASE pos <= Len(file)
    BY <2>4, <2>5 DEF At
  <2>6. CASE ~(pos <= Len(file))
    <3>1. parser = Blank
      BY <1>3 DEF IInv, PlaceOK, Complete, Blank
    <3>2. Nest(Blank) = 0
      BY DEF Nest, Blank
    <3> QED BY <2>4, <2>6, <3>1, <3>2 DEF At
  <2> QED BY <2>5, <2>6
<1> QED BY <1>2, <1>3 DEF LayersAgree

\* The invariant gives every variable its type.
LEMMA InvTypes == IInv => TypeOK
<1> SUFFICES ASSUME IInv PROVE TypeOK
  OBVIOUS
<1>1. /\ file \in Seq(Token) /\ seen \in Seq([parser : Parser, c : Counters]) /\ Len(seen) = Len(file)
      /\ Len(file) \in Nat
  BY DEF IInv, HistoryOK
<1>2. ParserOK(parser) /\ CountersOK(parser, c)
  <2>1. Len(file) + 1 \in 1 .. Len(file) + 1 /\ ~(Len(file) + 1 <= Len(file))
    BY <1>1
  <2>2. At(Len(file) + 1) = [parser |-> parser, c |-> c]
    BY <2>1 DEF At
  <2> QED BY <2>1, <2>2 DEF IInv, HistoryOK
<1>3. parser \in [open : Seq([object : BOOLEAN, keyed : BOOLEAN, nest : Nat]), pending : BOOLEAN]
  BY <1>2 DEF ParserOK, Frame
<1>4. c.layer \in Nat /\ c.expressionCount \in Nat /\ c.keyValue \subseteq Nat /\ c.perLayer \in Layers
  BY <1>2 DEF CountersOK, Counters
<1>5. c.perLayer \in [0 .. Cardinality(DOMAIN c.perLayer) - 1 -> Nat]
  <2>1. PICK n \in Nat : c.perLayer \in [0 .. n - 1 -> Nat]
    BY <1>4 DEF Layers, Vector
  <2>2. Cardinality(0 .. n - 1) = n
    <3>1. 0 \in Int /\ n - 1 \in Int
      BY <2>1
    <3>2. Cardinality(0 .. n - 1) = IF 0 > n - 1 THEN 0 ELSE n - 1 - 0 + 1
      BY <3>1, FS_Interval
    <3> QED BY <2>1, <3>2
  <2>3. DOMAIN c.perLayer = 0 .. n - 1
    BY <2>1
  <2> QED BY <2>1, <2>2, <2>3
<1>6. pos \in Nat \ {0} /\ csv \in [col : Nat, row : Nat]
  BY <1>1 DEF IInv, PlaceOK
<1>7. w \in Writer /\ StacksOK(w)
  BY DEF IInv, WriterOK
<1>8. w.types \in [DOMAIN w.args -> Nat] /\ \A i \in DOMAIN w.args : w.args[i] \in Seq(Nat)
  <2>1. w.types \in Vector(Nat) /\ w.args \in Vector(Seq(Nat)) /\ DOMAIN w.args = DOMAIN w.types
    BY <1>7 DEF Writer, StacksOK
  <2>2. w.types \in [DOMAIN w.types -> Nat]
    BY <2>1 DEF Vector
  <2> QED BY <2>1, <2>2, VectorOK
<1>9. w.exprs \in [DOMAIN w.exprs -> [head : Nat, start : Nat, end : Nat]]
  <2>1. w.exprs \in Vector(Expression)
    BY <1>7 DEF Writer
  <2> QED BY <2>1 DEF Vector, Expression
<1>10. w.cumul \in [DOMAIN w.cumul -> Nat]
  <2>1. w.cumul \in Vector(Nat)
    BY <1>7 DEF Writer
  <2> QED BY <2>1 DEF Vector
<1>11. /\ w.strings \in Seq([text : Texts, at : Seq(Nat)]) /\ w.keyValue \subseteq Nat
       /\ w.nextExpr \in Nat /\ w.layer \in Nat /\ w.run \in Nat /\ w.wild \in BOOLEAN
  BY <1>7 DEF Writer, String
<1>12. /\ w.argIter \in Seq(Nat) \ {<<>>} /\ w.exprStack \in Seq(Nat) \ {<<>>}
       /\ Len(w.argIter) = Len(w.exprStack)
  BY LastOK DEF IInv
<1>13. options \in Options /\ leftover \in Leftovers \cup {Zeros} /\ stage \in {"count", "write", "done", "failed"}
  BY DEF IInv
<1> QED BY <1>1, <1>3, <1>4, <1>5, <1>6, <1>8, <1>9, <1>10, <1>11, <1>12, <1>13 DEF TypeOK

\* For every document and CSV file, and every setting of disableRLE and
\* disableCsvHandling: load leaves counters, stacks and buffers with their
\* types, and the two stacks of JsonToWisent as high as one another.
THEOREM LoaderTypeCorrect == Spec => []TypeOK
<1>1. Spec => []IInv
  BY InitInv, StepInv, PTL DEF Spec
<1> QED BY <1>1, InvTypes, PTL

\* For every document: the callback of the first traversal, with its key bits
\* by depth, and the handlers of the second, with theirs by layer, are on the
\* layer of the nesting, so an argument is counted on the layer that it is
\* written to.
THEOREM TraversalsAgree == Spec => []LayersAgree
<1>1. Spec => []IInv
  BY InitInv, StepInv, PTL DEF Spec
<1> QED BY <1>1, InvLayers, PTL
=============================================================================
