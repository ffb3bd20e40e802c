------------------------------ MODULE MCScanner ------------------------------
(* Small instances of the scanner runtime for TLC. *)
EXTENDS Scanner, TLC

CONSTANTS m1, m2

(* One market's fee comes with Gamma's answer, the other's is looked up; each
   may be missing from an answer. *)
SplitListings == {c \in Catalog : c[m1] # "lookup" /\ c[m2] # "listed"}

=============================================================================
