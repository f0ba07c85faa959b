----------------------------- MODULE MCTopology -----------------------------
(***************************************************************************)
(* Every search over at most four modules from a fixed root.  A graph with *)
(* fewer modules appears as the search over the modules it has.            *)
(***************************************************************************)
EXTENDS Topology

CONSTANTS r, a, b, c

\* The adjacency functions over R.
Adjacency(R) == [R -> SUBSET R]

MCSearches == {[root |-> r, lists |-> f] :
                 f \in UNION {Adjacency(R) : R \in {{r}, {r, a}, {r, a, b}, {r, a, b, c}}}}
=============================================================================
