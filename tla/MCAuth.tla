------------------------------- MODULE MCAuth -------------------------------
(* A small instance of Auth: an address in two spellings. *)
EXTENDS Auth

CONSTANTS r1, r2, v1, v2

MCSpellings == {"lower", "mixed"}
MCCanonical == [s \in MCSpellings |-> "lower"]
=============================================================================
