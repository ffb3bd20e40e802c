------------------------------ MODULE MCConsole -------------------------------
(* Small instances of the console over the scanner runtime for TLC. *)
EXTENDS Console, TLC

CONSTANTS m1, m2, q1, q2

SplitListings == {c \in Catalog : c[m1] # "lookup" /\ c[m2] # "listed"}

=============================================================================
