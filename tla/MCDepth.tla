------------------------------- MODULE MCDepth -------------------------------
(* A small instance of the calculator for TLC. *)
EXTENDS Depth

(* Two sizes of one price, a dearer and a free level, an empty level and one
   beyond a dollar. *)
SomeEntries == {[price |-> 3, size |-> 1], [price |-> 3, size |-> 2],
                [price |-> 4, size |-> 2], [price |-> 0, size |-> 1],
                [price |-> 2, size |-> 0], [price |-> 8, size |-> 2]}

ThreeAndTwo == [s \in Side |-> IF s = "yes" THEN 3 ELSE 2]

=============================================================================
