--------------------------- MODULE MCJsonToWisent ---------------------------
(* Instances of the loader, the conversion and the readers for TLC. *)
EXTENDS Readers, JsonConversion

\* The options of a load at their defaults; with a forced one; all set as well.
Defaults == {[disableRLE |-> FALSE, disableCsvHandling |-> FALSE, forceReload |-> FALSE]}
Forced == {[disableRLE |-> FALSE, disableCsvHandling |-> FALSE, forceReload |-> TRUE]}
AllOrNone == {[disableRLE |-> b, disableCsvHandling |-> b, forceReload |-> b] : b \in BOOLEAN}

\* Old bytes that read as run headers and expressions: with a zero where the
\* root's offset is read, and with a number.
Headers(start) == [type |-> SetRLEBit(ARGUMENT_TYPE_EXPRESSION), arg |-> <<1>>,
                   expr |-> [head |-> 2, start |-> start, end |-> 3]]
NoLeftovers == {}
Benign == {Headers(0)}
Headed == {Headers(0), Headers(1)}
Remote == {Headers(99)}

NoTables == {}
SmallTables == { << <<"int", "int">> >> }

\* Columns that load as string, double and long, runs of values and of missing
\* cells between them, columns that throw after one that does not, a row that
\* is too short, a table without columns and one without rows.
MixedTables ==
  { <<>>, << <<>> >>, << <<"text", "empty", "int">> >>,
    << <<"empty", "empty", "empty", "real">>, <<"int", "int", "int", "empty">> >>,
    << <<"empty", "int">>, <<"int", "overflow">> >>,
    << <<"real", "overflow">>, <<"real", "huge">> >>, << <<"text">>, <<"absent">> >> }

\* A column of doubles that begins with missing cells.
LateTables == { << <<"empty", "empty", "empty", "empty", "empty", "real">> >> }
=============================================================================
