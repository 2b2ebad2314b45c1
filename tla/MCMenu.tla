------------------------------- MODULE MCMenu -------------------------------
(* Small instances of Menu for TLC.                                        *)
EXTENDS Menu, TLC

CONSTANTS Roll, Tart

\* An order of one item, and one of two.
MCCarts == {<<Roll>>, <<Roll, Tart>>}

Symmetry == Permutations(Requests) \cup Permutations(Prices)
=============================================================================
