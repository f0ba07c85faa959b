----------------------------- MODULE MCListing -----------------------------
(***************************************************************************)
(* Three nodes, so that a listing in pages of two has a full page and one  *)
(* more, and the edge between two of them as two sources report it; the    *)
(* integers are just wide enough for the table.                            *)
(***************************************************************************)
EXTENDS Listing

CONSTANTS a, b, c, s, x

MCKeys == {a, b, c, s}

Node(k) == [type |-> "node", k1 |-> k, k2 |-> k, k3 |-> NoKey]

Edge(k, l, m) == [type |-> "edge", k1 |-> k, k2 |-> l, k3 |-> m]

MCListKeys == {Node(a), Node(b), Node(c)}

MCKeyOrder == {<<Node(a), Node(b)>>, <<Node(a), Node(c)>>, <<Node(b), Node(c)>>}

\* A node, two more nodes, the two edges; and the empty request.
MCPutRequests ==
  {[k \in K |-> x] : K \in {{}, {Node(a)}, {Node(b), Node(c)},
                            {Edge(a, b, NoKey), Edge(a, b, s)}}}

MCDeleteRequests == {{}, {Node(a), Edge(a, b, s)}}
=============================================================================
