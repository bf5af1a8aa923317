------------------------------ MODULE LoadedTree ------------------------------
(***************************************************************************)
(* What JsonToWisent owes its readers: stores that stay inside the block,  *)
(* slices of the Argument Vector that no two expressions share, run        *)
(* headers that stay inside a slice, and a block that reads back as the    *)
(* tree of the document (ExpressionTree).                                  *)
(***************************************************************************)
EXTENDS JsonToWisent

(***************************************************************************)
(* The slots that belong to an expression: up to its end once it is        *)
(* closed, up to its iterator while it is on the stack.  Index -1 is the   *)
(* document itself, which has slot 0 and no entry in the Structure Vector. *)
(***************************************************************************)
Expressions == 0 .. w.nextExpr - 1
OpenAt(e) == {k \in 2 .. Len(w.exprStack) : w.exprStack[k] = e}
StartSlot(e) == IF e = -1 THEN 0 ELSE w.exprs[e].start
EndSlot(e) ==
  IF e = -1 THEN w.argIter[1]
  ELSE IF OpenAt(e) = {} THEN w.exprs[e].end
  ELSE w.exprs[e].start + w.argIter[CHOOSE k \in OpenAt(e) : TRUE]
Slots(e) == StartSlot(e) .. EndSlot(e) - 1

\* The premise of what is said of a block: its memory was new, or holds a zero
\* in the one word that is read before it is written.
CleanRoot == leftover.expr.start = 0

\* The expressions of a block that load has returned.
Finished == IF stage = "done" /\ CleanRoot THEN Expressions ELSE {}
HeadOf(e) == w.strings[w.exprs[e].head + 1]

\* What the writer stores of the document's own text, and of its own.
Texts == Leaves \cup {"object", "array", "key", "table", "column", "cell", "missing"}

TypeOK ==
  /\ options \in Options /\ leftover \in Leftovers \cup {Zeros} /\ stage \in {"count", "write", "done", "failed"}
  /\ file \in Seq(Token) /\ Len(seen) = Len(file)
  /\ parser \in [open : Seq([object : BOOLEAN, keyed : BOOLEAN, nest : Nat]), pending : BOOLEAN]
  /\ c.layer \in Nat /\ c.expressionCount \in Nat /\ c.keyValue \subseteq Nat
  /\ c.perLayer \in [0 .. Cardinality(DOMAIN c.perLayer) - 1 -> Nat]
  /\ pos \in Nat \ {0} /\ csv \in [col : Nat, row : Nat]
  /\ w.types \in [DOMAIN w.args -> Nat] /\ \A i \in DOMAIN w.args : w.args[i] \in Seq(Nat)
  /\ w.exprs \in [DOMAIN w.exprs -> [head : Nat, start : Nat, end : Nat]]
  /\ w.strings \in Seq([text : Texts, at : Seq(Nat)])
  /\ w.cumul \in [DOMAIN w.cumul -> Nat] /\ w.keyValue \subseteq Nat
  /\ w.argIter \in Seq(Nat) \ {<<>>} /\ w.exprStack \in Seq(Nat) \ {<<>>}
  /\ Len(w.argIter) = Len(w.exprStack)
  /\ w.nextExpr \in Nat /\ w.layer \in Nat /\ w.run \in Nat /\ w.wild \in BOOLEAN

(***************************************************************************)
(* The counts are exact bounds: a document that has an expression is       *)
(* stored inside the block, if the memory has CleanRoot.                   *)
(***************************************************************************)
StoresInBlock == CleanRoot /\ w.exprs # Filled(0, 0) => ~w.wild

\* README.md:10, any JSON dataset ends in one block, which SharedMemorySegment
\* assumes (SharedMemorySegment.hpp:10).
SingleAllocation == ~w.wild

(***************************************************************************)
(* Both traversals are on the layer that the nesting of the document puts  *)
(* an event on, though one keeps its key bits by depth and the other by    *)
(* layer; so they agree on which layer every argument belongs to.          *)
(***************************************************************************)
LayersAgree ==
  /\ stage = "count" => c.layer = Nest(parser)
  /\ stage = "write" /\ ~w.wild /\ csv.col = 0
       => w.layer = IF pos <= Len(file) THEN Nest(seen[pos].parser) ELSE 0

(***************************************************************************)
(* No argument is in the slices of two expressions: the cursors that share *)
(* the Argument Vector layer by layer never run into each other.           *)
(***************************************************************************)
SlicesDisjoint ==
  CleanRoot /\ ~w.wild => \A e, f \in Expressions \cup {-1} : e # f => Slots(e) \cap Slots(f) = {}

(***************************************************************************)
(* A completed load leaves no argument and no expression of the block      *)
(* unused: the first traversal did not count too much either.              *)
(***************************************************************************)
BlockFilled ==
  CleanRoot /\ stage = "done" =>
    /\ w.nextExpr = c.expressionCount
    /\ DOMAIN w.types = UNION {Slots(e) : e \in Expressions \cup {-1}}

(***************************************************************************)
(* A run header and the slots it stands for lie in one expression, so a    *)
(* reader that skips the run does not leave its slice; its second slot     *)
(* holds the whole length.                                                 *)
(***************************************************************************)
RunsInsideSlices ==
  CleanRoot /\ ~w.wild => \A e \in Expressions \cup {-1} :
    LET header == RunOf(w.types, StartSlot(e), EndSlot(e))
    IN \A h \in {header[i] : i \in Slots(e)} :
         HasRLEBit(w.types[h]) =>
           /\ h + RunLength(w.types, h) <= EndSlot(e)
           /\ RunLength(w.types, h) >= RLE_MINIMUM_SIZE

(***************************************************************************)
(* A written argument is never overwritten by a later event.               *)
(***************************************************************************)
ArgumentsStay ==
  [][CleanRoot /\ w.args # <<>> => \A e \in Expressions \cup {-1} : \A i \in Slots(e) :
        w'.args[i] = w.args[i]]_vars

(***************************************************************************)
(* The block read as a tree.                                               *)
(***************************************************************************)
TypeName(tag) ==
  CASE tag = ARGUMENT_TYPE_LONG   -> "Long"
    [] tag = ARGUMENT_TYPE_DOUBLE -> "Double"
    [] tag = ARGUMENT_TYPE_STRING -> "String"
    [] tag = ARGUMENT_TYPE_SYMBOL -> "Symbol"
    [] OTHER                      -> "Expression"

ReadArgument(tag, value) ==
  [type |-> TypeName(tag),
   value |-> CASE TypeName(tag) \in {"Long", "Double"}   -> [text |-> "number", at |-> value]
               [] TypeName(tag) \in {"String", "Symbol"} -> w.strings[value[1] + 1]
               [] OTHER -> [text |-> "node", at |-> <<value[1] + 2>>]]

ReadKids(e) ==
  LET start == StartSlot(e)
      end   == EndSlot(e)
      tags  == ReadTypes(w.types, start, end)
  IN [k \in 1 .. end - start |-> ReadArgument(tags[start + k - 1], w.args[start + k - 1])]

ReadNodes ==
  <<[head |-> [text |-> "document", at |-> <<>>], kids |-> ReadKids(-1)]>>
    \o [k \in 1 .. w.nextExpr |->
          [head |-> w.strings[w.exprs[k - 1].head + 1], kids |-> ReadKids(k - 1)]]

Tree == INSTANCE ExpressionTree
          WITH nodes <- ReadNodes,
               path <- [k \in 1 .. Len(w.exprStack) |-> IF k = 1 THEN 1 ELSE w.exprStack[k] + 2]

(***************************************************************************)
(* At every event the block, read through its run headers, is the tree of  *)
(* the events so far.  A load that left the block is not held to it, nor   *)
(* one into memory without CleanRoot, where the root is stored elsewhere.  *)
(***************************************************************************)
BlockIsTree == Tree!Init /\ [][~CleanRoot \/ w'.wild \/ Tree!Next]_(Tree!vars)
=============================================================================
