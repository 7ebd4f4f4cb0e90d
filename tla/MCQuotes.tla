------------------------------ MODULE MCQuotes ------------------------------
(* Small instances of Quotes: a few handlers on a clock of two ticks a second. *)
EXTENDS Quotes, TLC

CONSTANTS h1, h2, h3

Symmetry == Permutations(Callers)
=============================================================================
