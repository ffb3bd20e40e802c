----------------------------- MODULE MCDiscovery -----------------------------
(* A small instance of the market refresh for TLC. *)
EXTENDS Discovery

CONSTANTS i1, i2, i3, i4, c1, c2, c3, c4, a, b, c, d, e, f, g, h

Raw(i, k, labels, tokens) ==
    [id |-> i, condition |-> k, outcomes |-> labels, tokens |-> tokens,
     open |-> TRUE, liquid |-> TRUE]

(* A market, the same the other way round and relabelled, the same with its
   tokens swapped, a thin and a closed one, and one that claims its token. *)
Plain == Raw(i1, c1, <<"Yes", "No">>, <<a, b>>)

SomeListed == {
    Plain, Raw(i1, c1, <<"No", "YES">>, <<b, a>>), Raw(i1, c1, <<"No", "Yes">>, <<a, b>>),
    [Plain EXCEPT !.open = FALSE],
    Raw(i2, c2, <<"Yes", "No">>, <<c, a>>),
    [Raw(i2, c2, <<"No", "Yes">>, <<a, c>>) EXCEPT !.liquid = FALSE]}

(* Pages that answer no request: an empty one, a market repeated, and one of
   four different markets, more than was asked for and than is wanted.     *)
Further == <<Raw(i2, c2, <<"Yes", "No">>, <<c, d>>), Raw(i3, c3, <<"No", "Yes">>, <<e, f>>),
             Raw(i4, c4, <<"YES", "No">>, <<g, h>>)>>

SomeItems == SomeListed \cup {Further[n] : n \in 1 .. 3}

SomePages == {<<>>, <<Plain>>, <<Plain, Plain>>, <<Plain>> \o Further}

=============================================================================
