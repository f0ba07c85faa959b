----------------------------- MODULE GraphStore -----------------------------
(***************************************************************************)
(* The v1alpha graph store (tracker/internal/graphstore/v1alpha): one SQL  *)
(* table whose primary key is (graph_item_type, k1, k2, k3), written by    *)
(* Put (upsert) and Delete (soft delete: date_deleted is set) and read by  *)
(* the two self joins FindUpstream and FindDownstream.                     *)
(*                                                                         *)
(* The table is a function from the keys of its rows to the rows.  Of a    *)
(* row the model keeps the data column and whether date_deleted is set;    *)
(* encoding and last_modified are read by nothing.                         *)
(***************************************************************************)
EXTENDS FiniteSets

CONSTANTS ItemTypes,       \* values of graph_item_type
          Keys,            \* the non-empty byte strings used as k1, k2, k3
          NoKey,           \* the empty byte string (k3 of an item that sets none)
          Payloads,        \* values of graph_item_data
          Driver,          \* the dialect ResolveDriverName selected
          Trackers,        \* the tracker processes that share the database
          Writers,         \* those with a storage-address: the others have rwdb = nil
          PutRequests,     \* the item maps clients Put
          DeleteRequests   \* the sets of item keys clients Delete

VARIABLES table,           \* dts_graphdata
          call             \* the last call and its answer, as its client saw it

Drivers == {"sqlite", "mysql", "postgres"}

RowKeys == [type : ItemTypes, k1 : Keys, k2 : Keys, k3 : Keys \cup {NoKey}]

Rows == [data : Payloads, deleted : BOOLEAN]

ASSUME DriverAssumption == Driver \in Drivers

ASSUME WritersAssumption == Writers \subseteq Trackers

ASSUME RequestAssumption ==
  /\ \A new \in PutRequests : \E K \in SUBSET RowKeys : new \in [K -> Payloads]
  /\ DeleteRequests \subseteq SUBSET RowKeys

Live(t, k) == k \in DOMAIN t /\ ~t[k].deleted

LiveKeys(t) == {k \in DOMAIN t : ~t[k].deleted}

-----------------------------------------------------------------------------
(* The statements.                                                         *)

\* A mutant: every dialect leaves date_deleted as it is.
InsertKeepsDeleted(t, k, data) ==
  [data |-> data, deleted |-> IF k \in DOMAIN t THEN t[k].deleted ELSE FALSE]

\* insertGraphData.  REPLACE INTO (sqlite) and ON DUPLICATE KEY UPDATE (mysql)
\* write date_deleted = NULL; the ON CONFLICT clause of postgres updates data,
\* encoding and last_modified only and leaves date_deleted as it is.
InsertGraphData(t, k, data) ==
  [data |-> data,
   deleted |-> IF Driver = "postgres" /\ k \in DOMAIN t THEN t[k].deleted ELSE FALSE]

\* The table after the inserts of the items of new, each key at most once.
Inserted(t, new) ==
  [k \in DOMAIN t \cup DOMAIN new |->
     IF k \in DOMAIN new THEN InsertGraphData(t, k, new[k]) ELSE t[k]]

\* A mutant: the data is blanked.
DeleteBlanksData(row) == [data |-> "", deleted |-> TRUE]

\* deleteGraphData: UPDATE ... SET date_deleted, a no-op on a key without a row.
DeleteGraphData(row) == [row EXCEPT !.deleted = TRUE]

\* A mutant: the WHERE clause does not look at k3.
DeletedWithoutK3(t, K) ==
  [k \in DOMAIN t |->
     IF \E l \in K : l.type = k.type /\ l.k1 = k.k1 /\ l.k2 = k.k2
     THEN DeleteGraphData(t[k]) ELSE t[k]]

\* The table after the deletes of the keys in K.
Deleted(t, K) ==
  [k \in DOMAIN t |-> IF k \in K THEN DeleteGraphData(t[k]) ELSE t[k]]

\* selectGraphDataUpstreamDependencies: the edge g2 leaves one of the keys and g1 is
\* the node it leads to.
SelectUpstream(g2, g1, keys, edgeTypes, nodeTypes) ==
  /\ g1.k1 = g2.k2
  /\ g2.k1 \in keys
  /\ g2.type \in edgeTypes
  /\ g2.k1 # g2.k2
  /\ g1.type \in nodeTypes
  /\ g1.k1 = g1.k2

\* selectGraphDataDownstreamDependencies: the edge g2 enters one of the keys and g1
\* is the node it comes from.
SelectDownstream(g2, g1, keys, edgeTypes, nodeTypes) ==
  /\ g1.k2 = g2.k1
  /\ g2.k2 \in keys
  /\ g2.type \in edgeTypes
  /\ g2.k1 # g2.k2
  /\ g1.type \in nodeTypes
  /\ g1.k1 = g1.k2

\* The pairs (edge, node) of live rows the first of them selects.
FindUpstream(t, keys, edgeTypes, nodeTypes) ==
  {p \in LiveKeys(t) \X LiveKeys(t) : SelectUpstream(p[1], p[2], keys, edgeTypes, nodeTypes)}

\* A mutant: g2.date_deleted is not looked at.
FindDownstreamDeleted(t, keys, edgeTypes, nodeTypes) ==
  {p \in (DOMAIN t) \X LiveKeys(t) : SelectDownstream(p[1], p[2], keys, edgeTypes, nodeTypes)}

\* The pairs the second selects.
FindDownstream(t, keys, edgeTypes, nodeTypes) ==
  {p \in LiveKeys(t) \X LiveKeys(t) : SelectDownstream(p[1], p[2], keys, edgeTypes, nodeTypes)}

-----------------------------------------------------------------------------
(* The transactions.  A statement that fails inside the transaction is     *)
(* collected and the transaction still commits, so the other statements    *)
(* take effect; postgres aborts a transaction at its first error and turns *)
(* the commit into a rollback.  Begin or commit may fail with no effect.   *)

\* What a failed transaction over the keys K can have done.
PartsOf(K) == IF Driver = "postgres" THEN {{}} ELSE SUBSET K

Restricted(new, K) == [k \in K |-> new[k]]

Answer(op, keys, status) == call' = [op |-> op, keys |-> keys, status |-> status]

\* Put: without rwdb unsupported, and an empty request needs no transaction.
Put(w, new) ==
  \/ /\ w \in Writers
     /\ table' = Inserted(table, new)
     /\ Answer("put", DOMAIN new, "ok")
  \/ /\ w \in Writers /\ DOMAIN new # {}
     /\ \E K \in PartsOf(DOMAIN new) : table' = Inserted(table, Restricted(new, K))
     /\ Answer("put", DOMAIN new, "error")
  \/ /\ w \notin Writers
     /\ UNCHANGED table
     /\ Answer("put", DOMAIN new, "error")

\* Delete: the same shape over deleteGraphData.
Delete(w, keys) ==
  \/ /\ w \in Writers
     /\ table' = Deleted(table, keys)
     /\ Answer("delete", keys, "ok")
  \/ /\ w \in Writers /\ keys # {}
     /\ \E K \in PartsOf(keys) : table' = Deleted(table, K)
     /\ Answer("delete", keys, "error")
  \/ /\ w \notin Writers
     /\ UNCHANGED table
     /\ Answer("delete", keys, "error")

\* NewSQLGraphStore: CREATE TABLE IF NOT EXISTS on a new database.
Init ==
  /\ table = [k \in {} |-> k]
  /\ call = [op |-> "none", keys |-> {}, status |-> "ok"]

Next == \E w \in Trackers : \/ \E new \in PutRequests : Put(w, new)
                             \/ \E keys \in DeleteRequests : Delete(w, keys)

vars == <<table, call>>

Spec == Init /\ [][Next]_vars
-----------------------------------------------------------------------------
(* Properties.                                                             *)

\* The table holds rows under their primary keys and the last answer is well formed.
TypeOK ==
  /\ DOMAIN table \subseteq RowKeys
  /\ \A k \in DOMAIN table : table[k] \in Rows
  /\ call \in [op : {"none", "put", "delete"}, keys : SUBSET RowKeys,
               status : {"ok", "error"}]

\* An item whose Put was answered without an error is found by the reads that
\* follow, whatever happened to its key before (a soft delete included).
PutVisible ==
  (call.op = "put" /\ call.status = "ok") => \A k \in call.keys : Live(table, k)

\* The items a client can see: the rows that are not deleted, without the flag.
VisibleItems == [k \in LiveKeys(table) |-> table[k].data]

\* Through VisibleItems the table implements the map from keys to data that the
\* services rely on: soft deletion, upserts over deleted rows, partly failed
\* transactions and read-only trackers are invisible to them.
Abstract == INSTANCE ItemStore WITH items <- VisibleItems

ImplementsItemStore == Abstract!Spec
=============================================================================
