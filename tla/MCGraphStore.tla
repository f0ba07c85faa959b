---------------------------- MODULE MCGraphStore ----------------------------
(***************************************************************************)
(* Two nodes, the edge between them as two sources report it, and one item *)
(* no client has put: enough for every upsert, delete and partial failure. *)
(***************************************************************************)
EXTENDS GraphStore

CONSTANTS a, b, s, x, y

MCKeys == {a, b, s}

Node(k) == [type |-> "node", k1 |-> k, k2 |-> k, k3 |-> NoKey]

Edge(k, l, m) == [type |-> "edge", k1 |-> k, k2 |-> l, k3 |-> m]

MCItems == {Node(a), Node(b), Edge(a, b, NoKey), Edge(a, b, s)}

\* One item, or an edge together with its nodes; and the empty request.
MCPutRequests ==
  UNION {[K -> {x, y}] : K \in {{}, {Node(a)}, {Edge(a, b, s)},
                                {Node(b), Edge(a, b, NoKey)}}}

MCDeleteRequests == {{}, {Node(a)}, {Node(b), Edge(a, b, s)}, {Edge(a, b, NoKey)}}
=============================================================================
