----------------------------- MODULE DatasetStore -----------------------------
(***************************************************************************)
(* What the server is to its clients: a dataset under a name stays until   *)
(* the name is erased.  A load fills an empty name, and leaves a name that *)
(* has a dataset alone, whatever path it asks for; some loads replace what *)
(* is there.                                                               *)
(***************************************************************************)
CONSTANTS Names, Datasets, Empty,
          Replacing   \* the loads, [name, dataset], that replace

VARIABLE dataset   \* [Names -> Datasets \cup {Empty}]

Init == dataset = [n \in Names |-> Empty]

Load(name, d) ==
  /\ dataset[name] = Empty \/ [name |-> name, dataset |-> d] \in Replacing
  /\ dataset' = [dataset EXCEPT ![name] = d]

\* One name by /erase, those of the command line at the end of the server.
Erase(names) == dataset' = [n \in Names |-> IF n \in names THEN Empty ELSE dataset[n]]

Next ==
  \/ \E name \in Names, d \in Datasets : Load(name, d)
  \/ \E names \in SUBSET Names : Erase(names)

Spec == Init /\ [][Next]_dataset
=============================================================================
