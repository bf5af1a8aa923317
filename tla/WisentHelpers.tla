---------------------------- MODULE WisentHelpers ----------------------------
(***************************************************************************)
(* The Wisent format: the type tags of the Type Vector and its run-length  *)
(* encoding.  A vector is a function on 0 .. n-1, as the C arrays are.     *)
(***************************************************************************)
EXTENDS Integers

CONSTANTS
  RLE_MINIMUM_SIZE,  \* WisentArgumentType_RLE_MINIMUM_SIZE, 5 in the code
  UINT32_RANGE       \* number of values of uint32_t, 2^32 in the code

\* A run header takes two slots, and the shortest run fits in a uint32_t.
ASSUME RunLengthAssumption ==
  /\ RLE_MINIMUM_SIZE \in Nat /\ RLE_MINIMUM_SIZE >= 2
  /\ UINT32_RANGE \in Nat /\ UINT32_RANGE > RLE_MINIMUM_SIZE

(***************************************************************************)
(* enum WisentArgumentType and the flag bit.                               *)
(***************************************************************************)
ARGUMENT_TYPE_BOOL       == 0
ARGUMENT_TYPE_LONG       == 1
ARGUMENT_TYPE_DOUBLE     == 2
ARGUMENT_TYPE_STRING     == 3
ARGUMENT_TYPE_SYMBOL     == 4
ARGUMENT_TYPE_EXPRESSION == 5

WisentArgumentType == 0 .. 5
RLE_BIT == 128

\* (x & RLE_BIT) != 0
HasRLEBit(x) == (x \div RLE_BIT) % 2 = 1

\* x | RLE_BIT and x & ~RLE_BIT
SetRLEBit(x)   == IF HasRLEBit(x) THEN x ELSE x + RLE_BIT
ClearRLEBit(x) == IF HasRLEBit(x) THEN x - RLE_BIT ELSE x

\* Mutant: the length counts the header's own slot twice.
SetRunTooLong(types, i, count) ==
  LET size == count % UINT32_RANGE IN
  IF size < RLE_MINIMUM_SIZE
  THEN [j \in DOMAIN types |->
          IF i < j /\ j < i + size THEN types[i] ELSE types[j]]
  ELSE [types EXCEPT ![i] = SetRLEBit(@), ![i + 1] = size + 1]

(***************************************************************************)
(* Marks the size slots of types from slot i on as one run: the flag goes  *)
(* on slot i, the length replaces the tag of slot i+1.  A run below the    *)
(* minimum gets the tag of its first slot spelled out instead.  The length *)
(* parameter is a uint32_t, the callers count in uint64_t.                 *)
(***************************************************************************)
setRLEArgumentFlagOrPropagateTypes(types, i, count) ==
  LET size == count % UINT32_RANGE IN
  IF size < RLE_MINIMUM_SIZE
  THEN [j \in DOMAIN types |->
          IF i < j /\ j < i + size THEN types[i] ELSE types[j]]
  ELSE [types EXCEPT ![i] = SetRLEBit(@), ![i + 1] = size]

(***************************************************************************)
(* How the slots of one expression, start .. end-1, are read back: the     *)
(* loop of a sequential reader (readArgs in WisentDeserializer.py) finds a *)
(* run header, or a plain tag, at the first slot and after every run.      *)
(* RunOf[i] is the header that covers slot i.                              *)
(***************************************************************************)
RunLength(types, h) == IF HasRLEBit(types[h]) THEN types[h + 1] ELSE 1

RunOf(types, start, end) ==
  LET header[i \in start .. end - 1] ==
        IF i = start THEN start
        ELSE LET h == header[i - 1]
             IN IF i < h + RunLength(types, h) THEN h ELSE i
  IN header

ReadTypes(types, start, end) ==
  LET header == RunOf(types, start, end)
  IN [i \in start .. end - 1 |-> ClearRLEBit(types[header[i]])]
=============================================================================
