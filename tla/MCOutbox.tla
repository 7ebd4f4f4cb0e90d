------------------------------ MODULE MCOutbox ------------------------------
(* Small instances of Outbox: two workers over a handful of rows. *)
EXTENDS Outbox, TLC

CONSTANTS w1, w2

Symmetry == Permutations(Workers)
=============================================================================
