-------------------------------- MODULE Readers --------------------------------
(***************************************************************************)
(* The readers that do not decode a block as a whole.  LazyExpression of   *)
(* the C++ benchmark looks keys up slot by slot and iterates over the      *)
(* arguments of one type; that of Aggregation.py generates them; the Swift *)
(* reader splits the arguments of an expression into runs.  What they make *)
(* of a finished block is compared with ReadTypes, which BlockIsTree       *)
(* compares with the document.                                             *)
(***************************************************************************)
EXTENDS LoadedTree

(***************************************************************************)
(* LazyExpression::operator[] by key: the slots whose argument it follows  *)
(* as an expression, to compare the head.                                  *)
(***************************************************************************)
KeySlots(start, end) == {i \in start .. end - 1 : w.types[i] = ARGUMENT_TYPE_EXPRESSION}

(***************************************************************************)
(* LazyExpression::Iterator for arguments of type T: validIndexEnd once    *)
(* the iterator has been incremented from start to index.  A run of        *)
(* another type is not skipped but walked through, its length included.    *)
(***************************************************************************)
\* Mutant: the end of a run stays behind when the iterator passes it.
ValidIndexEndOfRun(T, start, end) ==
  LET validIndexEnd[index \in start .. end - 1] ==
        LET before == IF index = start THEN start ELSE validIndexEnd[index - 1]
            tag    == w.types[index]
        IN IF index < before \/ ClearRLEBit(tag) # T THEN before
           ELSE index + RunLength(w.types, index) + (IF HasRLEBit(tag) THEN 1 ELSE 0)
  IN validIndexEnd

ValidIndexEnd(T, start, end) ==
  LET validIndexEnd[index \in start .. end - 1] ==
        LET before == IF index = start THEN start ELSE validIndexEnd[index - 1]
        IN IF index < before \/ ClearRLEBit(w.types[index]) # T THEN before
           ELSE index + RunLength(w.types, index)
  IN validIndexEnd

ValidSlots(T, start, end) ==
  LET validIndexEnd == ValidIndexEnd(T, start, end)
  IN {index \in start .. end - 1 : index < validIndexEnd[index]}

(***************************************************************************)
(* runWisent: an iterator over the doubles of one column and one over the  *)
(* longs of another, of as many rows, advance together from their starts;  *)
(* a row counts when both are valid on it.                                 *)
(***************************************************************************)
\* Mutant: the second iterator only advances with a row that counts.
AggregatedRowsLagging(agg, pred) ==
  {k \in 0 .. EndSlot(agg) - StartSlot(agg) - 1 :
     /\ StartSlot(agg) + k \in ValidSlots(ARGUMENT_TYPE_DOUBLE, StartSlot(agg), EndSlot(agg))
     /\ StartSlot(pred) \in ValidSlots(ARGUMENT_TYPE_LONG, StartSlot(pred), EndSlot(pred))}

AggregatedRows(agg, pred) ==
  {k \in 0 .. EndSlot(agg) - StartSlot(agg) - 1 :
     /\ StartSlot(agg) + k \in ValidSlots(ARGUMENT_TYPE_DOUBLE, StartSlot(agg), EndSlot(agg))
     /\ StartSlot(pred) + k \in ValidSlots(ARGUMENT_TYPE_LONG, StartSlot(pred), EndSlot(pred))}

(***************************************************************************)
(* LazyExpression of Aggregation.py.  getTypedArguments yields slots, from *)
(* startChild on, which only goes up; argCount is assigned in a run of the *)
(* expected type only, and added after every run.  0 stands for a name     *)
(* without a value: Python raises, and the generator ends with -1.         *)
(***************************************************************************)
\* Mutant: the range of a run includes its end.
getTypedArgumentsInclusive(T, start, end) ==
  LET yields[startChild \in {n \in Nat : n >= start}] == [argCount \in Nat |->
        LET argType == w.types[startChild]
            length  == w.types[startChild + 1]
        IN IF startChild >= end THEN {}
           ELSE IF ~HasRLEBit(argType)
           THEN {s \in {startChild} : argType = T} \cup yields[startChild + 1][argCount]
           ELSE IF ClearRLEBit(argType) = T
           THEN startChild .. startChild + length \cup yields[startChild + length][length]
           ELSE IF argCount = 0 THEN {-1} ELSE yields[startChild + argCount][argCount]]
  IN yields[start][0]

getTypedArguments(T, start, end) ==
  LET yields[startChild \in {n \in Nat : n >= start}] == [argCount \in Nat |->
        LET argType == w.types[startChild]
            length  == w.types[startChild + 1]
        IN IF startChild >= end THEN {}
           ELSE IF ~HasRLEBit(argType)
           THEN {s \in {startChild} : argType = T} \cup yields[startChild + 1][argCount]
           ELSE IF ClearRLEBit(argType) = T
           THEN startChild .. startChild + length - 1 \cup yields[startChild + length][length]
           ELSE IF argCount = 0 THEN {-1} ELSE yields[startChild + argCount][argCount]]
  IN yields[start][0]

\* getArguments: the slots it yields one after the other before it comes to
\* one outside a run, which it then yields for ever.
getArguments(start, end) ==
  LET yields[startChild \in {n \in Nat : n >= start}] ==
        IF startChild >= end THEN [once |-> {}, forever |-> {}]
        ELSE IF ~HasRLEBit(w.types[startChild]) THEN [once |-> {}, forever |-> {startChild}]
        ELSE LET next == startChild + w.types[startChild + 1]
             IN [yields[next] EXCEPT !.once = @ \cup (startChild .. next - 1)]
  IN yields[start]

(***************************************************************************)
(* ComplexExpression.arguments: one run from the first slot, if that slot  *)
(* is a header, then slot by slot.  Each argument has the tag of its part. *)
(***************************************************************************)
FirstRunEnd(start) == start + (IF HasRLEBit(w.types[start]) THEN w.types[start + 1] ELSE 0)

\* Mutant: every slot of the run is read by its own tag.
SwiftTagsOwn(start, end) == [i \in start .. end - 1 |-> ClearRLEBit(w.types[i])]

SwiftTags(start, end) ==
  [i \in start .. end - 1 |-> ClearRLEBit(w.types[IF i < FirstRunEnd(start) THEN start ELSE i])]

(***************************************************************************)
(* Properties, of every expression of a finished block.                    *)
(***************************************************************************)
Typed(e, T) ==
  LET read == ReadTypes(w.types, StartSlot(e), EndSlot(e))
  IN {i \in Slots(e) : read[i] = T}
RunStarts(e) ==
  LET header == RunOf(w.types, StartSlot(e), EndSlot(e))
  IN {i \in Slots(e) : header[i] = i /\ HasRLEBit(w.types[i])}

\* No run's length is itself the header of a run of T.
Unmistaken(e, T) == \A i \in RunStarts(e) : w.types[i + 1] # SetRLEBit(T)

(***************************************************************************)
(* A lookup by key follows the arguments that are expressions, all of them *)
(* and no other.                                                           *)
(***************************************************************************)
LookupFollowsExpressions ==
  \A e \in Finished : KeySlots(StartSlot(e), EndSlot(e)) = Typed(e, ARGUMENT_TYPE_EXPRESSION)

(***************************************************************************)
(* An iterator is valid on the arguments of its type and on no other, in   *)
(* columns that mix values with missing ones.  The exception is a run of   *)
(* another type whose length is itself the header of a run of T: 129 for   *)
(* longs, 130 for doubles.                                                 *)
(***************************************************************************)
IteratorFindsType ==
  \A e \in Finished, T \in {ARGUMENT_TYPE_LONG, ARGUMENT_TYPE_DOUBLE} :
    Unmistaken(e, T) => ValidSlots(T, StartSlot(e), EndSlot(e)) = Typed(e, T)

(***************************************************************************)
(* The query of the benchmark adds up the rows of a CSV file in which both *)
(* cells are there, whatever runs of values and of missing cells the two   *)
(* columns of the block are in, if no iterator mistakes a length for one.  *)
(***************************************************************************)
Columns(T) ==
  {e \in Finished : HeadOf(e).text = "column"
                    /\ TypeOfCsvColumn(file[HeadOf(e).at[1]].table[HeadOf(e).at[2]]) = T}

QueryFindsRows ==
  \A agg \in Columns("double_t"), pred \in Columns("int64_t") :
    LET table == file[HeadOf(agg).at[1]].table
        cells == {table[HeadOf(agg).at[2]], table[HeadOf(pred).at[2]]}
    IN (/\ HeadOf(agg).at[1] = HeadOf(pred).at[1]
        /\ Unmistaken(agg, ARGUMENT_TYPE_DOUBLE)
        /\ Unmistaken(pred, ARGUMENT_TYPE_LONG)) =>
         AggregatedRows(agg, pred)
           = {r - 1 : r \in {q \in 1 .. RowCount(table) : \A column \in cells : column[q] # "empty"}}

(***************************************************************************)
(* README.md:18, the query of the Python application is that of the C++    *)
(* one: it adds up the cells the iterator is valid on.                     *)
(***************************************************************************)
SameQuery ==
  \A e \in Columns("double_t") :
    getTypedArguments(ARGUMENT_TYPE_DOUBLE, StartSlot(e), EndSlot(e))
      = ValidSlots(ARGUMENT_TYPE_DOUBLE, StartSlot(e), EndSlot(e))

(***************************************************************************)
(* What remains true of the Python reader.  The arguments of one type are  *)
(* found among runs of that type only.  All arguments are yielded of an    *)
(* expression that is nothing but runs; of any other the ones in front of  *)
(* the first outside a run, and that one for ever.                         *)
(***************************************************************************)
LazyReaderFinds ==
  \A e \in Finished :
    LET header == RunOf(w.types, StartSlot(e), EndSlot(e))
        single == {i \in Slots(e) : ~HasRLEBit(w.types[header[i]])}
        got    == getArguments(StartSlot(e), EndSlot(e))
    IN /\ \A T \in {ARGUMENT_TYPE_LONG, ARGUMENT_TYPE_DOUBLE, ARGUMENT_TYPE_EXPRESSION} :
            RunStarts(e) \subseteq Typed(e, T) =>
              getTypedArguments(T, StartSlot(e), EndSlot(e)) = Typed(e, T)
       /\ got.once = {i \in Slots(e) : \A s \in single : i < s}
       /\ got.forever = {s \in single : \A i \in single : s <= i}

(***************************************************************************)
(* The Swift reader gives every argument its type where no run starts      *)
(* after the first slot.                                                   *)
(***************************************************************************)
SwiftReadsFirstRun ==
  \A e \in Finished :
    RunStarts(e) \subseteq {StartSlot(e)} =>
      SwiftTags(StartSlot(e), EndSlot(e)) = ReadTypes(w.types, StartSlot(e), EndSlot(e))
=============================================================================
