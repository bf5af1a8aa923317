--------------------------- MODULE MCWisentServer ---------------------------
(* Instances of the server for TLC. *)
EXTENDS ServedDatasets

NoFiles == <<>>
OneFile == <<[name |-> "opsd", path |-> "small.json"]>>
=============================================================================
