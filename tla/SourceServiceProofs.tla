------------------------- MODULE SourceServiceProofs -------------------------
(***************************************************************************)
(* Proofs about Track for every set of sources, modules and requests, and  *)
(* any number of handlers: what it never takes away, that no query loses   *)
(* an edge, and what a Track that was answered has stored.                 *)
(*                                                                         *)
(* All theorems go through the three things a step can do to the table     *)
(* (TableStep): nothing, delete part of what a handler found and does not  *)
(* propose, or insert part of what it proposes.                            *)
(***************************************************************************)
EXTENDS SourceService, TLAPS

USE DEF Busy

(* The table after the statements of a transaction.                        *)

\* Inserts keep what is live and add at most their own keys, all of them unless a
\* deleted row of a postgres table is in the way.
LEMMA InsertedLive ==
  ASSUME NEW t, NEW new
  PROVE  /\ Store!LiveKeys(t) \subseteq Store!LiveKeys(Store!Inserted(t, new))
         /\ Store!LiveKeys(Store!Inserted(t, new)) \subseteq Store!LiveKeys(t) \cup DOMAIN new
         /\ \A k \in DOMAIN new :
              (Driver # "postgres" \/ k \notin DOMAIN t \/ ~t[k].deleted) =>
                k \in Store!LiveKeys(Store!Inserted(t, new))
  BY DEF Store!LiveKeys, Store!Inserted, Store!InsertGraphData

\* Deletes take exactly their keys out of the live ones.
LEMMA DeletedLive ==
  ASSUME NEW t, \A k \in DOMAIN t : t[k] \in Store!Rows, NEW K
  PROVE  Store!LiveKeys(Store!Deleted(t, K)) = Store!LiveKeys(t) \ K
  BY DEF Store!LiveKeys, Store!Deleted, Store!DeleteGraphData, Store!Rows

\* Live and LiveKeys say the same.
LEMMA LiveMember ==
  ASSUME NEW t, NEW k
  PROVE  Store!Live(t, k) <=> k \in Store!LiveKeys(t)
  BY DEF Store!Live, Store!LiveKeys

\* Inserts and deletes keep the table well formed.
LEMMA InsertedRows ==
  ASSUME NEW t, DOMAIN t \subseteq ItemKeys, \A k \in DOMAIN t : t[k] \in Store!Rows,
         NEW K \in SUBSET ItemKeys, NEW new \in [K -> Refs \cup {NoRef}]
  PROVE  /\ DOMAIN Store!Inserted(t, new) \subseteq ItemKeys
         /\ \A k \in DOMAIN Store!Inserted(t, new) : Store!Inserted(t, new)[k] \in Store!Rows
<1>1. DOMAIN Store!Inserted(t, new) = DOMAIN t \cup K
  BY DEF Store!Inserted
<1>2. ASSUME NEW k \in DOMAIN t \cup K PROVE Store!Inserted(t, new)[k] \in Store!Rows
  <2>1. CASE k \in K
    <3> DEFINE kept == IF Driver = "postgres" /\ k \in DOMAIN t THEN t[k].deleted ELSE FALSE
    <3>1. kept \in BOOLEAN
      <4>1. CASE Driver = "postgres" /\ k \in DOMAIN t
        BY <4>1 DEF Store!Rows
      <4>2. CASE ~(Driver = "postgres" /\ k \in DOMAIN t)
        BY <4>2
      <4> QED
        BY <4>1, <4>2
    <3>2. Store!Inserted(t, new)[k] = [data |-> new[k], deleted |-> kept]
      BY <2>1 DEF Store!Inserted, Store!InsertGraphData
    <3> QED
      <4> HIDE DEF kept
      <4> QED
        BY <2>1, <3>1, <3>2 DEF Store!Rows
  <2>2. CASE k \notin K
    BY <2>2 DEF Store!Inserted
  <2> QED
    BY <2>1, <2>2
<1> QED
  BY <1>1, <1>2

\* What is marked deleted is still a row under its key.
LEMMA DeletedRows ==
  ASSUME NEW t, DOMAIN t \subseteq ItemKeys, \A k \in DOMAIN t : t[k] \in Store!Rows, NEW K
  PROVE  /\ DOMAIN Store!Deleted(t, K) \subseteq ItemKeys
         /\ \A k \in DOMAIN Store!Deleted(t, K) : Store!Deleted(t, K)[k] \in Store!Rows
  BY DEF Store!Deleted, Store!DeleteGraphData, Store!Rows

-----------------------------------------------------------------------------
(* What a request proposes.                                                *)

\* getProposed is a map from row keys to data.
LEMMA ProposedType ==
  ASSUME NEW r \in SourceRequests
  PROVE  /\ ProposedKeys(r) \subseteq ItemKeys
         /\ getProposed(r) \in [ProposedKeys(r) -> Refs \cup {NoRef}]
<1>1. ASSUME NEW k \in ProposedKeys(r) PROVE k \in ItemKeys
  <2> USE DEF ItemKeys, SourceRequests, ManagementFiles, Item, SourceItem, ModuleItem,
              ManagesItem, DependsItem
  <2>1. CASE k = SourceItem(r.source)
    BY <2>1
  <2>2. CASE \E f \in r.managementFiles : k = ModuleItem(f.module) \/ k = ManagesItem(r.source, f.module)
    BY <2>2
  <2>3. CASE \E f \in r.managementFiles : f.sourceUrl # NoKey /\
               (k = SourceItem(f.sourceUrl) \/ k = ManagesItem(f.sourceUrl, f.module))
    BY <2>3
  <2>4. CASE \E f \in r.managementFiles : \E d \in f.dependencies :
               k = ModuleItem(d) \/ k = DependsItem(f.module, d, r.source)
    BY <2>4
  <2> HIDE DEF ItemKeys, SourceRequests, ManagementFiles, Item, SourceItem, ModuleItem,
              ManagesItem, DependsItem
  <2> QED
    BY <2>1, <2>2, <2>3, <2>4 DEF ProposedKeys
<1>2. r.ref \in Refs
  BY DEF SourceRequests
<1> QED
  BY <1>1, <1>2 DEF getProposed

\* The source is proposed; an edge is proposed together with its nodes, and a
\* dependency together with the edge by which the source manages its module.
LEMMA ProposedClosed ==
  ASSUME NEW r
  PROVE  /\ SourceItem(r.source) \in ProposedKeys(r)
         /\ \A k \in ProposedKeys(r) :
              /\ k.type = "manages" =>
                   SourceItem(k.k1) \in ProposedKeys(r) /\ ModuleItem(k.k2) \in ProposedKeys(r)
              /\ k.type = "depends" =>
                   /\ ModuleItem(k.k1) \in ProposedKeys(r) /\ ModuleItem(k.k2) \in ProposedKeys(r)
                   /\ k.k3 = r.source
                   /\ ManagesItem(r.source, k.k1) \in ProposedKeys(r)
<1>1. SourceItem(r.source) \in ProposedKeys(r)
  BY DEF ProposedKeys
<1>2. ASSUME NEW k \in ProposedKeys(r), k.type = "manages"
      PROVE  SourceItem(k.k1) \in ProposedKeys(r) /\ ModuleItem(k.k2) \in ProposedKeys(r)
  <2>1. PICK f \in r.managementFiles :
          k = ManagesItem(r.source, f.module) \/
          (f.sourceUrl # NoKey /\ k = ManagesItem(f.sourceUrl, f.module))
    BY <1>2 DEF ProposedKeys, Item, SourceItem, ModuleItem, DependsItem
  <2>2. k.k2 = f.module /\ (k.k1 = r.source \/ (f.sourceUrl # NoKey /\ k.k1 = f.sourceUrl))
    BY <2>1 DEF Item, ManagesItem
  <2> QED
    BY <2>2, <1>1 DEF ProposedKeys
<1>3. ASSUME NEW k \in ProposedKeys(r), k.type = "depends"
      PROVE  /\ ModuleItem(k.k1) \in ProposedKeys(r) /\ ModuleItem(k.k2) \in ProposedKeys(r)
             /\ k.k3 = r.source
             /\ ManagesItem(r.source, k.k1) \in ProposedKeys(r)
  <2>1. PICK f \in r.managementFiles : \E d \in f.dependencies : k = DependsItem(f.module, d, r.source)
    BY <1>3 DEF ProposedKeys, Item, SourceItem, ModuleItem, ManagesItem
  <2>2. PICK d \in f.dependencies : k = DependsItem(f.module, d, r.source)
    BY <2>1
  <2>3. k.k1 = f.module /\ k.k2 = d /\ k.k3 = r.source
    BY <2>2 DEF Item, DependsItem
  <2> QED
    BY <2>3 DEF ProposedKeys
<1> QED
  BY <1>1, <1>2, <1>3

\* What has one of the four types has the fields of that type.
LEMMA ItemShape ==
  ASSUME NEW k \in ItemKeys
  PROVE  /\ k.type = "source" => k.k1 \in Sources /\ k = SourceItem(k.k1)
         /\ k.type = "module" => k.k1 \in Modules /\ k = ModuleItem(k.k1)
         /\ k.type = "manages" => k.k1 \in Sources /\ k.k2 \in Modules /\ k = ManagesItem(k.k1, k.k2)
         /\ k.type = "depends" => /\ k.k1 \in Modules /\ k.k2 \in Modules /\ k.k3 \in Sources \cup {NoKey}
                                  /\ k = DependsItem(k.k1, k.k2, k.k3)
         /\ k.type \in {"source", "module", "manages", "depends"}
  BY DEF ItemKeys, Item, SourceItem, ModuleItem, ManagesItem, DependsItem

-----------------------------------------------------------------------------
(* What the reads of getCurrent return.                                    *)

\* The pairs of the first read: a live manages edge of s and its live module.
LEMMA ManagedByPairs ==
  ASSUME NEW t, DOMAIN t \subseteq ItemKeys, NEW s, NEW p \in ManagedBy(t, s)
  PROVE  /\ p[1] \in Store!LiveKeys(t) /\ p[1] \in ItemKeys
         /\ p[1].type = "manages" /\ p[1].k1 = s /\ p[1].k2 = p[2].k1
         /\ p[2] \in Store!LiveKeys(t) /\ p[2] \in ItemKeys
         /\ p[2].type = "module" /\ p[2].k1 \in Modules
<1>1. /\ p[1] \in Store!LiveKeys(t) /\ p[2] \in Store!LiveKeys(t)
      /\ p[1].type = "manages" /\ p[1].k1 = s /\ p[1].k2 = p[2].k1 /\ p[2].type = "module"
  BY DEF ManagedBy, Store!FindUpstream, Store!SelectUpstream
<1>2. p[1] \in ItemKeys /\ p[2] \in ItemKeys
  BY <1>1 DEF Store!LiveKeys
<1> QED
  BY <1>1, <1>2, ItemShape

\* The pairs of a further read that getCurrent keeps: a live dependency that s
\* reported or that has no k3, and its live module.
LEMMA OwnDependenciesPairs ==
  ASSUME NEW t, DOMAIN t \subseteq ItemKeys, NEW m, NEW s, NEW p \in OwnDependencies(t, m, s)
  PROVE  /\ p[1] \in ItemKeys /\ p[1].type = "depends" /\ p[1].k3 \in {s, NoKey}
         /\ p[2] \in ItemKeys /\ p[2].type = "module"
  BY DEF OwnDependencies, DependedOnBy, Store!FindUpstream, Store!SelectUpstream, Store!LiveKeys

-----------------------------------------------------------------------------
(* The type invariant.                                                     *)

\* The part of a transaction an error can leave in the table is a part of it.
LEMMA EffectsPart ==
  ASSUME NEW K, NEW P \in Effects(K)
  PROVE  P \subseteq K
  BY DEF Effects

\* The three things a handler's step can do to the table.
LEMMA HandlerTableStep ==
  ASSUME NEW h \in Handlers, Step(h)
  PROVE  \/ UNCHANGED table
         \/ /\ pc[h] = "delete"
            /\ \E K \in Effects(ToDelete(currentSet[h], req[h])) : table' = Store!Deleted(table, K)
         \/ /\ pc[h] = "put"
            /\ \E K \in Effects(ProposedKeys(req[h])) :
                 table' = Store!Inserted(table, Store!Restricted(getProposed(req[h]), K))
<1>1. CASE \E r \in Requests : Track(h, r)
  BY <1>1 DEF Track
<1>2. CASE ReadManages(h) \/ ReadFails(h) \/ Finish(h)
  BY <1>2 DEF ReadManages, ReadFails, Finish
<1>3. CASE \E m \in Modules : ReadDepends(h, m)
  BY <1>3 DEF ReadDepends
<1>4. CASE DeleteStale(h) \/ DeleteFails(h)
  BY <1>4 DEF DeleteStale, DeleteFails, Effects
<1>5. CASE PutProposed(h) \/ PutFails(h)
  <2>1. Store!Restricted(getProposed(req[h]), ProposedKeys(req[h])) = getProposed(req[h])
    BY DEF Store!Restricted, getProposed
  <2>2. ProposedKeys(req[h]) \in Effects(ProposedKeys(req[h]))
    BY DEF Effects
  <2> QED
    BY <1>5, <2>1, <2>2 DEF PutProposed, PutFails
<1> QED
  BY <1>1, <1>2, <1>3, <1>4, <1>5 DEF Step

\* The three things a step can do to the table.
LEMMA TableStep ==
  ASSUME [Next]_vars
  PROVE  \/ UNCHANGED table
         \/ \E h \in Handlers : /\ pc[h] = "delete"
                                /\ \E K \in Effects(ToDelete(currentSet[h], req[h])) :
                                     table' = Store!Deleted(table, K)
         \/ \E h \in Handlers : /\ pc[h] = "put"
                                /\ \E K \in Effects(ProposedKeys(req[h])) :
                                     table' = Store!Inserted(table, Store!Restricted(getProposed(req[h]), K))
  BY HandlerTableStep DEF Next, vars

\* The table stays a table of items, whichever part of a transaction fails.
LEMMA TableType ==
  ASSUME TypeOK, [Next]_vars
  PROVE  DOMAIN table' \subseteq ItemKeys /\ \A k \in DOMAIN table' : table'[k] \in Store!Rows
<1>1. CASE UNCHANGED table
  BY <1>1 DEF TypeOK
<1>2. CASE \E K : table' = Store!Deleted(table, K)
  BY <1>2, DeletedRows DEF TypeOK
<1>3. ASSUME NEW h \in Handlers, pc[h] = "put", NEW K \in Effects(ProposedKeys(req[h])),
             table' = Store!Inserted(table, Store!Restricted(getProposed(req[h]), K))
      PROVE  DOMAIN table' \subseteq ItemKeys /\ \A k \in DOMAIN table' : table'[k] \in Store!Rows
  <2>1. req[h] \in SourceRequests
    BY <1>3, RequestsAssumption DEF TypeOK
  <2>2. K \subseteq ProposedKeys(req[h])
    BY <1>3, EffectsPart
  <2>3. K \in SUBSET ItemKeys /\ Store!Restricted(getProposed(req[h]), K) \in [K -> Refs \cup {NoRef}]
    BY <2>1, <2>2, ProposedType DEF Store!Restricted
  <2> QED
    BY <1>3, <2>3, InsertedRows DEF TypeOK
<1> QED
  BY <1>1, <1>2, <1>3, TableStep

\* The types of the handlers' variables.
HandlersOK ==
  /\ pc \in [Handlers -> States]
  /\ req \in [Handlers -> Requests \cup {NoRequest}]
  /\ \A h \in Handlers : Busy(h) => req[h] \in Requests
  /\ currentSet \in [Handlers -> SUBSET ItemKeys]
  /\ unread \in [Handlers -> SUBSET Modules]

\* A step keeps the types of the handlers' variables.
LEMMA HandlersType ==
  ASSUME TypeOK, [Next]_vars
  PROVE  HandlersOK'
<1> USE DEF TypeOK, HandlersOK, States
<1>1. ASSUME NEW h \in Handlers, NEW r \in Requests, Track(h, r) PROVE HandlersOK'
  <2>1. SourceItem(r.source) \in ItemKeys
    BY RequestsAssumption DEF SourceRequests, ItemKeys
  <2> QED
    BY <1>1, <2>1 DEF Track
<1>2. ASSUME NEW h \in Handlers, ReadManages(h) PROVE HandlersOK'
  <2> DEFINE pairs == ManagedBy(table, req[h].source)
  <2>1. BothOf(pairs) \subseteq ItemKeys /\ EndsOf(pairs) \subseteq Modules
    BY ManagedByPairs DEF BothOf, EndsOf
  <2> HIDE DEF pairs
  <2> QED
    BY <1>2, <2>1 DEF ReadManages, pairs
<1>3. ASSUME NEW h \in Handlers, NEW m \in Modules, ReadDepends(h, m) PROVE HandlersOK'
  <2>1. BothOf(OwnDependencies(table, m, req[h].source)) \subseteq ItemKeys
    BY OwnDependenciesPairs DEF BothOf
  <2> QED
    BY <1>3, <2>1 DEF ReadDepends
<1>4. ASSUME NEW h \in Handlers, ReadFails(h) PROVE HandlersOK'
  BY <1>4 DEF ReadFails
<1>5. ASSUME NEW h \in Handlers, DeleteStale(h) \/ DeleteFails(h) PROVE HandlersOK'
  BY <1>5 DEF DeleteStale, DeleteFails
<1>6. ASSUME NEW h \in Handlers, PutProposed(h) \/ PutFails(h) PROVE HandlersOK'
  BY <1>6 DEF PutProposed, PutFails
<1>7. ASSUME NEW h \in Handlers, Finish(h) PROVE HandlersOK'
  BY <1>7 DEF Finish
<1>8. CASE UNCHANGED vars
  BY <1>8 DEF vars
<1> HIDE DEF TypeOK, HandlersOK, States
<1> QED
  BY <1>1, <1>2, <1>3, <1>4, <1>5, <1>6, <1>7, <1>8 DEF Next, Step

\* The table holds items and the handlers their requests, however the calls
\* overlap and fail.
THEOREM TypeCorrect == Spec => []TypeOK
<1>1. Init => TypeOK
  BY InitialTablesAssumption DEF Init, TypeOK, States
<1>2. TypeOK /\ [Next]_vars => TypeOK'
  BY TableType, HandlersType DEF TypeOK, HandlersOK
<1> QED
  BY <1>1, <1>2, PTL DEF Spec

-----------------------------------------------------------------------------
(* What Track removes.                                                     *)

\* An item that getCurrent may find for the source s.
OwnItem(k, s) ==
  \/ k = SourceItem(s)
  \/ k.type = "module"
  \/ k.type = "manages" /\ k.k1 = s
  \/ k.type = "depends" /\ k.k3 \in {s, NoKey}

\* A handler has found nothing but what is its source's: the strengthening that
\* makes the theorems of this section inductive.
FoundOwn ==
  \A h \in Handlers : Busy(h) => \A k \in currentSet[h] : OwnItem(k, req[h].source)

\* The reads of getCurrent find nothing else.
LEMMA FoundOwnStep ==
  ASSUME TypeOK, FoundOwn, [Next]_vars
  PROVE  FoundOwn'
<1> USE DEF TypeOK, FoundOwn
<1>1. ASSUME NEW h \in Handlers, NEW r \in Requests, Track(h, r) PROVE FoundOwn'
  BY <1>1 DEF Track, OwnItem
<1>2. ASSUME NEW h \in Handlers, ReadManages(h) PROVE FoundOwn'
  <2> DEFINE pairs == ManagedBy(table, req[h].source)
  <2>1. \A k \in BothOf(pairs) : OwnItem(k, req[h].source)
    BY ManagedByPairs DEF BothOf, OwnItem
  <2> HIDE DEF pairs
  <2> QED
    BY <1>2, <2>1 DEF ReadManages, pairs
<1>3. ASSUME NEW h \in Handlers, NEW m \in Modules, ReadDepends(h, m) PROVE FoundOwn'
  <2>1. \A k \in BothOf(OwnDependencies(table, m, req[h].source)) : OwnItem(k, req[h].source)
    BY OwnDependenciesPairs DEF BothOf, OwnItem
  <2> QED
    BY <1>3, <2>1 DEF ReadDepends
<1>4. ASSUME NEW h \in Handlers,
             \/ ReadFails(h) \/ DeleteStale(h) \/ DeleteFails(h) \/ PutProposed(h) \/ PutFails(h)
      PROVE  FoundOwn'
  BY <1>4 DEF ReadFails, DeleteStale, DeleteFails, PutProposed, PutFails
<1>5. ASSUME NEW h \in Handlers, Finish(h) PROVE FoundOwn'
  BY <1>5 DEF Finish
<1>6. CASE UNCHANGED vars
  BY <1>6 DEF vars
<1> HIDE DEF TypeOK, FoundOwn
<1> QED
  BY <1>1, <1>2, <1>3, <1>4, <1>5, <1>6 DEF Next, Step

\* What a handler deletes is an edge of its source, or without a k3, that its
\* request does not propose.
LEMMA ToDeleteOwn ==
  ASSUME TypeOK, FoundOwn, NEW h \in Handlers, pc[h] = "delete",
         NEW k \in ToDelete(currentSet[h], req[h])
  PROVE  /\ k \notin ProposedKeys(req[h])
         /\ \/ k.type = "manages" /\ k.k1 = req[h].source
            \/ k.type = "depends" /\ k.k3 \in {req[h].source, NoKey}
<1>1. k \in currentSet[h] /\ k \notin ProposedKeys(req[h]) /\ k.type # "module"
  BY DEF ToDelete
<1>2. k # SourceItem(req[h].source)
  BY <1>1, ProposedClosed
<1> QED
  BY <1>1, <1>2 DEF FoundOwn, OwnItem

\* No step takes away another source's edge, or a node.
LEMMA OwnEdgesStep ==
  ASSUME TypeOK, FoundOwn, [Next]_vars
  PROVE  RemovesOwnEdges
<1> SUFFICES ASSUME NEW k \in Store!LiveKeys(table), k \notin Store!LiveKeys(table')
             PROVE  \E h \in Handlers :
                      /\ pc[h] = "delete"
                      /\ k \notin ProposedKeys(req[h])
                      /\ \/ k.type = "manages" /\ k.k1 = req[h].source
                         \/ k.type = "depends" /\ k.k3 \in {req[h].source, NoKey}
  BY LiveMember DEF RemovesOwnEdges
<1>1. CASE UNCHANGED table
  BY <1>1 DEF Store!LiveKeys
<1>2. ASSUME NEW h \in Handlers, pc[h] = "delete",
             NEW K \in Effects(ToDelete(currentSet[h], req[h])), table' = Store!Deleted(table, K)
      PROVE  k \in ToDelete(currentSet[h], req[h])
  BY <1>2, DeletedLive, EffectsPart DEF TypeOK
<1>3. ASSUME NEW new, table' = Store!Inserted(table, new) PROVE FALSE
  BY <1>3, InsertedLive
<1> QED
  BY <1>1, <1>2, <1>3, TableStep, ToDeleteOwn

\* However the calls overlap and fail, a dependency a source reported disappears only
\* in a Delete of that source, and a manages edge, whichever source's file reported it,
\* only in a Delete of the source it leaves, none of which proposes it any more; nodes
\* never disappear.
THEOREM OnlyOwnEdges == Spec => OnlyOwnEdgesRemoved
<1>1. Init => FoundOwn
  BY DEF Init, FoundOwn
<1>2. TypeOK /\ FoundOwn /\ [Next]_vars => FoundOwn'
  BY FoundOwnStep
<1>3. TypeOK /\ FoundOwn /\ [Next]_vars => [RemovesOwnEdges]_vars
  BY OwnEdgesStep
<1> QED
  BY <1>1, <1>2, <1>3, TypeCorrect, PTL DEF Spec, OnlyOwnEdgesRemoved

-----------------------------------------------------------------------------
(* What the joins of the queries need.                                     *)

\* No Track ever deletes a node.
LEMMA NodesKeptStep ==
  ASSUME TypeOK, FoundOwn, NodesKept(table), [Next]_vars
  PROVE  NodesKept(table')
<1>1. CASE UNCHANGED table
  BY <1>1 DEF NodesKept
<1>2. ASSUME NEW h \in Handlers, pc[h] = "delete",
             NEW K \in Effects(ToDelete(currentSet[h], req[h])), table' = Store!Deleted(table, K)
      PROVE  NodesKept(table')
  <2>1. \A k \in K : k.type \notin {"source", "module"}
    BY <1>2, EffectsPart, ToDeleteOwn
  <2> QED
    BY <1>2, <2>1 DEF NodesKept, Store!Deleted
<1>3. ASSUME NEW new, table' = Store!Inserted(table, new) PROVE NodesKept(table')
  BY <1>3 DEF NodesKept, Store!Inserted, Store!InsertGraphData
<1> QED
  BY <1>1, <1>2, <1>3, TableStep

\* A node in a table that keeps its nodes is live, and inserted nodes are.
LEMMA InsertedNodes ==
  ASSUME NEW t, NodesKept(t), NEW new, NEW k \in DOMAIN new, k.type \in {"source", "module"}
  PROVE  k \in Store!LiveKeys(Store!Inserted(t, new))
  BY InsertedLive DEF NodesKept

\* Edges and nodes come in one transaction: with atomic transactions every live edge
\* keeps live ends.
LEMMA EndpointsStep ==
  ASSUME ~PartialFailures, TypeOK, FoundOwn, NodesKept(table), EndpointsLive, [Next]_vars
  PROVE  EndpointsLive'
<1> DEFINE Joined(t, k) ==
             /\ k.type = "manages" =>
                  SourceItem(k.k1) \in Store!LiveKeys(t) /\ ModuleItem(k.k2) \in Store!LiveKeys(t)
             /\ k.type = "depends" =>
                  ModuleItem(k.k1) \in Store!LiveKeys(t) /\ ModuleItem(k.k2) \in Store!LiveKeys(t)
<1>a. \A t : EdgesJoinNodes(t) <=> \A k \in Store!LiveKeys(t) : Joined(t, k)
  BY LiveMember DEF EdgesJoinNodes
<1>b. \A x : SourceItem(x).type = "source" /\ ModuleItem(x).type = "module"
  BY DEF SourceItem, ModuleItem, Item
<1>0. SUFFICES ASSUME NEW k \in Store!LiveKeys(table') PROVE Joined(table', k)
  BY <1>a DEF EndpointsLive
<1>1. CASE UNCHANGED table
  BY <1>1, <1>a DEF EndpointsLive, Store!LiveKeys
<1>2. ASSUME NEW h \in Handlers, pc[h] = "delete",
             NEW K \in Effects(ToDelete(currentSet[h], req[h])), table' = Store!Deleted(table, K)
      PROVE  Joined(table', k)
  <2>1. \A l \in K : l.type \notin {"source", "module"}
    BY <1>2, EffectsPart, ToDeleteOwn
  <2>2. Store!LiveKeys(table') = Store!LiveKeys(table) \ K
    BY <1>2, DeletedLive DEF TypeOK
  <2>3. Joined(table, k)
    BY <2>2, <1>a DEF EndpointsLive
  <2> QED
    BY <2>1, <2>2, <2>3, <1>b
<1>3. ASSUME NEW h \in Handlers, pc[h] = "put", NEW K \in Effects(ProposedKeys(req[h])),
             table' = Store!Inserted(table, Store!Restricted(getProposed(req[h]), K))
      PROVE  Joined(table', k)
  <2> DEFINE new == Store!Restricted(getProposed(req[h]), K)
  <2>1. DOMAIN new = K
    BY DEF Store!Restricted
  <2> HIDE DEF new
  <2>2. /\ Store!LiveKeys(table) \subseteq Store!LiveKeys(table')
        /\ Store!LiveKeys(table') \subseteq Store!LiveKeys(table) \cup K
    BY <1>3, <2>1, InsertedLive DEF new
  <2>3. CASE k \in Store!LiveKeys(table)
    <3>1. Joined(table, k)
      BY <2>3, <1>a DEF EndpointsLive
    <3> QED
      BY <3>1, <2>2
  <2>4. CASE k \in K
    <3>1. K = ProposedKeys(req[h])
      BY <1>3, <2>4 DEF Effects
    <3>2. \A l \in ProposedKeys(req[h]) : l.type \in {"source", "module"} => l \in Store!LiveKeys(table')
      BY <1>3, <2>1, <3>1, InsertedNodes DEF new
    <3> QED
      BY <2>4, <3>1, <3>2, <1>b, ProposedClosed
  <2> QED
    BY <2>2, <2>3, <2>4
<1> QED
  BY <1>1, <1>2, <1>3, TableStep

\* With transactions that take effect as a whole, on every dialect and however the
\* calls overlap, every live edge joins live nodes.
THEOREM EndpointsStayLive ==
  ASSUME ~PartialFailures, \A t \in InitialTables : EdgesJoinNodes(t)
  PROVE  Spec => []EndpointsLive
<1> DEFINE IInv == FoundOwn /\ NodesKept(table) /\ EndpointsLive
<1>1. Init => IInv
  BY InitialTablesAssumption DEF Init, FoundOwn, EndpointsLive
<1>2. TypeOK /\ IInv /\ [Next]_vars => IInv'
  BY FoundOwnStep, NodesKeptStep, EndpointsStep
<1> QED
  BY <1>1, <1>2, TypeCorrect, PTL DEF Spec

\* A query up the edges from keys returns x exactly if a live edge leads from one
\* of them to x and x is a live node; a query down, if one leads from x to a key.
LEMMA UpstreamEnds ==
  ASSUME NEW t, NEW keys, NEW E, NEW N, NEW x
  PROVE  x \in EndsOf(Store!FindUpstream(t, keys, E, N)) <=>
           \E g2, g1 \in Store!LiveKeys(t) :
             /\ g2.type \in E /\ g2.k1 \in keys /\ g2.k2 = x /\ g2.k1 # g2.k2
             /\ g1.type \in N /\ g1.k1 = x /\ g1.k2 = x
<1> DEFINE Q == Store!FindUpstream(t, keys, E, N)
<1>1. ASSUME NEW p \in Q
      PROVE  /\ p[1] \in Store!LiveKeys(t) /\ p[2] \in Store!LiveKeys(t)
             /\ p[1].type \in E /\ p[1].k1 \in keys /\ p[1].k2 = p[2].k1 /\ p[1].k1 # p[1].k2
             /\ p[2].type \in N /\ p[2].k2 = p[2].k1
  BY DEF Store!FindUpstream, Store!SelectUpstream
<1>2. ASSUME NEW g2 \in Store!LiveKeys(t), NEW g1 \in Store!LiveKeys(t),
             g2.type \in E, g2.k1 \in keys, g2.k2 = x, g2.k1 # g2.k2,
             g1.type \in N, g1.k1 = x, g1.k2 = x
      PROVE  x \in EndsOf(Q)
  <2>1. <<g2, g1>> \in Q
    BY <1>2 DEF Store!FindUpstream, Store!SelectUpstream
  <2> HIDE DEF Q
  <2> QED
    BY <2>1, <1>2 DEF EndsOf
<1> HIDE DEF Q
<1>3. ASSUME x \in EndsOf(Q)
      PROVE  \E g2, g1 \in Store!LiveKeys(t) :
               /\ g2.type \in E /\ g2.k1 \in keys /\ g2.k2 = x /\ g2.k1 # g2.k2
               /\ g1.type \in N /\ g1.k1 = x /\ g1.k2 = x
  <2>1. PICK p \in Q : x = p[2].k1
    BY <1>3 DEF EndsOf
  <2> QED
    BY <2>1, <1>1
<1> QED
  BY <1>2, <1>3 DEF Q

\* The ends of a downstream query: the nodes from which an edge leads to one of the keys.
LEMMA DownstreamEnds ==
  ASSUME NEW t, NEW keys, NEW E, NEW N, NEW x
  PROVE  x \in EndsOf(Store!FindDownstream(t, keys, E, N)) <=>
           \E g2, g1 \in Store!LiveKeys(t) :
             /\ g2.type \in E /\ g2.k1 = x /\ g2.k2 \in keys /\ g2.k1 # g2.k2
             /\ g1.type \in N /\ g1.k1 = x /\ g1.k2 = x
<1> DEFINE Q == Store!FindDownstream(t, keys, E, N)
<1>1. ASSUME NEW p \in Q
      PROVE  /\ p[1] \in Store!LiveKeys(t) /\ p[2] \in Store!LiveKeys(t)
             /\ p[1].type \in E /\ p[1].k2 \in keys /\ p[1].k1 = p[2].k2 /\ p[1].k1 # p[1].k2
             /\ p[2].type \in N /\ p[2].k2 = p[2].k1
  BY DEF Store!FindDownstream, Store!SelectDownstream
<1>2. ASSUME NEW g2 \in Store!LiveKeys(t), NEW g1 \in Store!LiveKeys(t),
             g2.type \in E, g2.k1 = x, g2.k2 \in keys, g2.k1 # g2.k2,
             g1.type \in N, g1.k1 = x, g1.k2 = x
      PROVE  x \in EndsOf(Q)
  <2>1. <<g2, g1>> \in Q
    BY <1>2 DEF Store!FindDownstream, Store!SelectDownstream
  <2> HIDE DEF Q
  <2> QED
    BY <2>1, <1>2 DEF EndsOf
<1> HIDE DEF Q
<1>3. ASSUME x \in EndsOf(Q)
      PROVE  \E g2, g1 \in Store!LiveKeys(t) :
               /\ g2.type \in E /\ g2.k1 = x /\ g2.k2 \in keys /\ g2.k1 # g2.k2
               /\ g1.type \in N /\ g1.k1 = x /\ g1.k2 = x
  <2>1. PICK p \in Q : x = p[2].k1
    BY <1>3 DEF EndsOf
  <2> QED
    BY <2>1, <1>1
<1> QED
  BY <1>2, <1>3 DEF Q

\* If every live edge joins live nodes, the two directions agree.
LEMMA EndpointsGiveAgreement ==
  ASSUME TypeOK, EndpointsLive
  PROVE  QueriesAgree
<1> DEFINE L == Store!LiveKeys(table)
<1>1. \A k \in L : /\ k.type = "manages" => SourceItem(k.k1) \in L /\ ModuleItem(k.k2) \in L
                   /\ k.type = "depends" => ModuleItem(k.k1) \in L /\ ModuleItem(k.k2) \in L
  BY LiveMember DEF EndpointsLive, EdgesJoinNodes
<1>2. \A x : /\ SourceItem(x).type = "source" /\ SourceItem(x).k1 = x /\ SourceItem(x).k2 = x
             /\ ModuleItem(x).type = "module" /\ ModuleItem(x).k1 = x /\ ModuleItem(x).k2 = x
  BY DEF SourceItem, ModuleItem, Item
<1> HIDE DEF L
<1>3. ASSUME NEW m, NEW d
      PROVE  d \in ListDependencies(m) <=> m \in ListDependents(d)
  <2>1. d \in ListDependencies(m) <=> \E k \in L : k.type = "depends" /\ k.k1 = m /\ k.k2 = d /\ m # d
    <3>1. d \in ListDependencies(m) <=>
            \E g2, g1 \in L : /\ g2.type = "depends" /\ g2.k1 = m /\ g2.k2 = d /\ g2.k1 # g2.k2
                             /\ g1.type = "module" /\ g1.k1 = d /\ g1.k2 = d
      BY UpstreamEnds DEF ListDependencies, L
    <3> QED
      BY <3>1, <1>1, <1>2
  <2>2. m \in ListDependents(d) <=> \E k \in L : k.type = "depends" /\ k.k1 = m /\ k.k2 = d /\ m # d
    <3>1. m \in ListDependents(d) <=>
            \E g2, g1 \in L : /\ g2.type = "depends" /\ g2.k1 = m /\ g2.k2 = d /\ g2.k1 # g2.k2
                             /\ g1.type = "module" /\ g1.k1 = m /\ g1.k2 = m
      BY DownstreamEnds DEF ListDependents, L
    <3> QED
      BY <3>1, <1>1, <1>2
  <2> QED
    BY <2>1, <2>2
<1>4. ASSUME NEW s, NEW m
      PROVE  m \in ListManaged(s) <=> s \in ListSources(m)
  <2>1. m \in ListManaged(s) <=> \E k \in L : k.type = "manages" /\ k.k1 = s /\ k.k2 = m /\ s # m
    <3>1. m \in ListManaged(s) <=>
            \E g2, g1 \in L : /\ g2.type = "manages" /\ g2.k1 = s /\ g2.k2 = m /\ g2.k1 # g2.k2
                             /\ g1.type = "module" /\ g1.k1 = m /\ g1.k2 = m
      BY UpstreamEnds DEF ListManaged, L
    <3> QED
      BY <3>1, <1>1, <1>2
  <2>2. s \in ListSources(m) <=> \E k \in L : k.type = "manages" /\ k.k1 = s /\ k.k2 = m /\ s # m
    <3>1. s \in ListSources(m) <=>
            \E g2, g1 \in L : /\ g2.type = "manages" /\ g2.k1 = s /\ g2.k2 = m /\ g2.k1 # g2.k2
                             /\ g1.type = "source" /\ g1.k1 = s /\ g1.k2 = s
      BY DownstreamEnds DEF ListSources, L
    <3> QED
      BY <3>1, <1>1, <1>2
  <2> QED
    BY <2>1, <2>2
<1> QED
  BY <1>3, <1>4 DEF QueriesAgree

\* With transactions that take effect as a whole, dependencies and dependents, and
\* managed modules and sources, tell the same story at any time.
THEOREM DirectionsAgree ==
  ASSUME ~PartialFailures, \A t \in InitialTables : EdgesJoinNodes(t)
  PROVE  Spec => []QueriesAgree
<1>1. TypeOK /\ EndpointsLive => QueriesAgree
  BY EndpointsGiveAgreement
<1> QED
  BY <1>1, TypeCorrect, EndpointsStayLive, PTL

-----------------------------------------------------------------------------
(***************************************************************************)
(* What a Track that is answered "tracking" has achieved: if no two Track  *)
(* calls for one source run at a time, transactions take effect as a whole *)
(* and the upsert clears date_deleted, no dependency is ever orphaned      *)
(* (NoOrphans) and the stored dependencies of the source are those of the  *)
(* request (TrackedExactly), whatever the Track calls of other sources do  *)
(* meanwhile.                                                              *)
(*                                                                         *)
(* The inductive invariant says what a handler knows between its calls:    *)
(* which of the live edges its reads have found so far, and, after the     *)
(* Delete, which of them can still be there.  The lemmas are about one     *)
(* source at a time, so that they also serve where the calls for other     *)
(* sources do overlap.                                                     *)
(***************************************************************************)

\* k is a dependency reported by s (or, with NoKey, by an earlier release).
Reported(k, s) == k.type = "depends" /\ k.k3 = s /\ k.k1 # k.k2

\* No dependency that s reported is orphaned.
NoOrphansOf(s) ==
  \A k \in Store!LiveKeys(table) :
    Reported(k, s) => ManagesItem(s, k.k1) \in Store!LiveKeys(table)

\* No two busy handlers serve one source.
Serial ==
  \A g, h \in Handlers : (g # h /\ Busy(g) /\ Busy(h)) => req[g].source # req[h].source

\* The modules that have dependencies of the source are known to be managed by it.
ManagedFound(h) ==
  \A k \in Store!LiveKeys(table) :
    Reported(k, req[h].source) => ManagesItem(req[h].source, k.k1) \in currentSet[h]

\* The dependencies of the managed modules read so far have been found.
DependsFound(h) ==
  \A k \in Store!LiveKeys(table) :
    (/\ Reported(k, req[h].source) \/ Reported(k, NoKey)
     /\ ManagesItem(req[h].source, k.k1) \in currentSet[h]
     /\ k.k1 \notin unread[h]) => k \in currentSet[h]

\* What the Delete leaves of the source's dependencies is proposed, and it leaves
\* none without a k3 that leave a managed module.
NothingStale(h) ==
  \A k \in Store!LiveKeys(table) :
    /\ Reported(k, req[h].source) => k \in ProposedKeys(req[h])
    /\ Reported(k, NoKey) => ManagesItem(req[h].source, k.k1) \notin currentSet[h]

\* What r proposes as its source's own is there, at the revision of the request.
Stored(r) ==
  \A k \in ProposedKeys(r) :
    /\ k.k3 = r.source => k \in Store!LiveKeys(table) /\ table[k].data = r.ref
    /\ (k.type = "manages" /\ k.k1 = r.source) => k \in Store!LiveKeys(table)

\* The dependencies stored for the source of r are those of r, and what it manages too.
StoredExactly(r) ==
  /\ \A k \in Store!LiveKeys(table) : Reported(k, r.source) => k \in ProposedKeys(r)
  /\ Stored(r)

\* What the handler h knows between its calls.
Knows(h) ==
  /\ pc[h] = "readManages" => currentSet[h] = {SourceItem(req[h].source)}
  /\ pc[h] = "delete" => unread[h] = {}
  /\ pc[h] \in {"readDepends", "delete"} => ManagedFound(h) /\ DependsFound(h)
  /\ pc[h] \in {"put", "ok"} => NothingStale(h)
  /\ pc[h] = "ok" => Stored(req[h])

\* The inductive invariant, next to TypeOK.
TrackInv ==
  /\ FoundOwn /\ NodesKept(table) /\ EndpointsLive /\ NoOrphans
  /\ Serial
  /\ \A h \in Handlers : Knows(h)

-----------------------------------------------------------------------------
(* Facts about requests and transactions.                                  *)

\* The source of a request a handler serves is a source, so not the empty key.
LEMMA BusySource ==
  ASSUME TypeOK, NEW h \in Handlers, Busy(h)
  PROVE  /\ req[h] \in SourceRequests
         /\ req[h].source \in Sources /\ req[h].source # NoKey /\ req[h].source \notin Modules
  BY RequestsAssumption, KeyAssumption DEF TypeOK, SourceRequests

\* A proposed item has a k3 only if it is a dependency, and that k3 is the source.
LEMMA ProposedK3 ==
  ASSUME NEW r \in SourceRequests, NEW k \in ProposedKeys(r)
  PROVE  /\ k.type = "depends" => k.k3 = r.source /\ getProposed(r)[k] = r.ref
         /\ k.k3 = r.source => k.type = "depends"
<1>1. k \in ItemKeys
  BY ProposedType
<1>2. k.type = "depends" => k.k3 = r.source /\ getProposed(r)[k] = r.ref
  BY ProposedClosed DEF getProposed
<1>3. ASSUME k.k3 = r.source PROVE k.type = "depends"
  <2>1. r.source # NoKey
    BY KeyAssumption DEF SourceRequests
  <2> QED
    BY <1>1, <1>3, <2>1 DEF ItemKeys, Item, SourceItem, ModuleItem, ManagesItem, DependsItem
<1> QED
  BY <1>2, <1>3

\* A transaction that takes effect as a whole, or not at all.
LEMMA WholeEffects ==
  ASSUME ~PartialFailures, NEW K, NEW P \in Effects(K)
  PROVE  P = {} \/ P = K
  BY DEF Effects

\* Deletes leave the data of the rows alone, and inserts that of other rows.
LEMMA DataKept ==
  ASSUME NEW t, \A k \in DOMAIN t : t[k] \in Store!Rows, NEW k \in Store!LiveKeys(t)
  PROVE  /\ \A K : Store!Deleted(t, K)[k].data = t[k].data
         /\ \A new : k \notin DOMAIN new => Store!Inserted(t, new)[k] = t[k]
  BY DEF Store!LiveKeys, Store!Deleted, Store!DeleteGraphData, Store!Inserted, Store!Rows

-----------------------------------------------------------------------------
(* A step of another handler.                                              *)

\* A step of g, for another source than s, adds no dependency of s or without a
\* k3, removes no edge of s and does not touch the data of its dependencies.
LEMMA OtherSource ==
  ASSUME TypeOK, FoundOwn, NEW g \in Handlers, Step(g),
         NEW s \in Sources, Busy(g) => req[g].source # s
  PROVE  /\ \A k \in Store!LiveKeys(table') :
              Reported(k, s) \/ Reported(k, NoKey) => k \in Store!LiveKeys(table)
         /\ \A k \in Store!LiveKeys(table) :
              /\ k.k3 = s => k \in Store!LiveKeys(table') /\ table'[k].data = table[k].data
              /\ (k.type = "manages" /\ k.k1 = s) => k \in Store!LiveKeys(table')
<1>0. s # NoKey
  BY KeyAssumption
<1>1. CASE UNCHANGED table
  BY <1>1 DEF Store!LiveKeys
<1>2. ASSUME pc[g] = "delete", NEW K \in Effects(ToDelete(currentSet[g], req[g])),
             table' = Store!Deleted(table, K)
      PROVE  /\ Store!LiveKeys(table') \subseteq Store!LiveKeys(table)
             /\ \A k \in Store!LiveKeys(table) :
                  /\ k.k3 = s => k \in Store!LiveKeys(table') /\ table'[k].data = table[k].data
                  /\ (k.type = "manages" /\ k.k1 = s) => k \in Store!LiveKeys(table')
  <2>1. Store!LiveKeys(table') = Store!LiveKeys(table) \ K
    BY <1>2, DeletedLive DEF TypeOK
  <2>2. \A k \in Store!LiveKeys(table) : table'[k].data = table[k].data
    BY <1>2, DataKept DEF TypeOK
  <2>3. ASSUME NEW k \in K, k \in Store!LiveKeys(table)
        PROVE  k.k3 # s /\ ~(k.type = "manages" /\ k.k1 = s)
    <3>1. \/ k.type = "manages" /\ k.k1 = req[g].source
          \/ k.type = "depends" /\ k.k3 \in {req[g].source, NoKey}
      BY <1>2, ToDeleteOwn, EffectsPart
    <3>2. k \in ItemKeys
      BY <2>3 DEF TypeOK, Store!LiveKeys
    <3>3. k.type = "manages" => k.k3 = NoKey
      BY <3>2 DEF ItemKeys, Item, SourceItem, ModuleItem, ManagesItem, DependsItem
    <3> QED
      BY <1>2, <3>1, <3>3, <1>0
  <2> QED
    BY <2>1, <2>2, <2>3
<1>3. ASSUME pc[g] = "put", NEW K \in Effects(ProposedKeys(req[g])),
             table' = Store!Inserted(table, Store!Restricted(getProposed(req[g]), K))
      PROVE  /\ \A k \in Store!LiveKeys(table') :
                  Reported(k, s) \/ Reported(k, NoKey) => k \in Store!LiveKeys(table)
             /\ Store!LiveKeys(table) \subseteq Store!LiveKeys(table')
             /\ \A k \in Store!LiveKeys(table) : k.k3 = s => table'[k].data = table[k].data
  <2> DEFINE new == Store!Restricted(getProposed(req[g]), K)
  <2>1. DOMAIN new = K /\ K \subseteq ProposedKeys(req[g])
    BY EffectsPart DEF Store!Restricted
  <2> HIDE DEF new
  <2>2. /\ Store!LiveKeys(table) \subseteq Store!LiveKeys(table')
        /\ Store!LiveKeys(table') \subseteq Store!LiveKeys(table) \cup K
    BY <1>3, <2>1, InsertedLive DEF new
  <2>3. ASSUME NEW k \in K PROVE k.k3 # s /\ ~Reported(k, s) /\ ~Reported(k, NoKey)
    <3>1. k \in ProposedKeys(req[g]) /\ k \in ItemKeys
      BY <1>3, <2>1, <2>3, BusySource, ProposedType
    <3>2. k.type = "depends" => k.k3 = req[g].source
      BY <3>1, ProposedClosed
    <3>3. k.type # "depends" => k.k3 = NoKey
      BY <3>1 DEF ItemKeys, Item, SourceItem, ModuleItem, ManagesItem, DependsItem
    <3> QED
      BY <1>3, <3>2, <3>3, <1>0, BusySource DEF Reported
  <2>4. \A k \in Store!LiveKeys(table) : k \notin K => table'[k] = table[k]
    BY <1>3, <2>1, DataKept DEF TypeOK, new
  <2> QED
    BY <2>2, <2>3, <2>4
<1> QED
  BY <1>1, <1>2, <1>3, HandlerTableStep

\* A step of g leaves the variables of the other handlers alone.
LEMMA OtherHandler ==
  ASSUME TypeOK, NEW g \in Handlers, Step(g), NEW h \in Handlers, g # h
  PROVE  pc'[h] = pc[h] /\ req'[h] = req[h] /\ currentSet'[h] = currentSet[h] /\ unread'[h] = unread[h]
<1> USE DEF TypeOK
<1>1. CASE \E r \in Requests : Track(g, r)
  BY <1>1 DEF Track
<1>2. CASE ReadManages(g)
  BY <1>2 DEF ReadManages
<1>3. CASE \E m \in Modules : ReadDepends(g, m)
  BY <1>3 DEF ReadDepends
<1>4. CASE ReadFails(g) \/ Finish(g)
  BY <1>4 DEF ReadFails, Finish
<1>5. CASE DeleteStale(g) \/ DeleteFails(g)
  BY <1>5 DEF DeleteStale, DeleteFails
<1>6. CASE PutProposed(g) \/ PutFails(g)
  BY <1>6 DEF PutProposed, PutFails
<1> HIDE DEF TypeOK
<1> QED
  BY <1>1, <1>2, <1>3, <1>4, <1>5, <1>6 DEF Step

\* A busy handler serves its request until it is idle again.
LEMMA OwnRequest ==
  ASSUME TypeOK, NEW g \in Handlers, Step(g), Busy(g)
  PROVE  pc'[g] = "idle" \/ req'[g] = req[g]
<1>1. ~\E r \in Requests : Track(g, r)
  BY DEF Track
<1>2. CASE ReadManages(g) \/ ReadFails(g)
  BY <1>2 DEF ReadManages, ReadFails
<1>3. CASE \E m \in Modules : ReadDepends(g, m)
  BY <1>3 DEF ReadDepends
<1>4. CASE DeleteStale(g) \/ DeleteFails(g) \/ PutProposed(g) \/ PutFails(g)
  BY <1>4 DEF DeleteStale, DeleteFails, PutProposed, PutFails
<1>5. CASE Finish(g)
  BY <1>5 DEF Finish, TypeOK
<1> QED
  BY <1>1, <1>2, <1>3, <1>4, <1>5 DEF Step

\* What h knows stays true while other handlers take steps.
LEMMA KnowsOther ==
  ASSUME TypeOK, FoundOwn, NEW g \in Handlers, Step(g),
         NEW h \in Handlers, g # h, Knows(h),
         (Busy(g) /\ Busy(h)) => req[g].source # req[h].source
  PROVE  Knows(h)'
<1>1. pc'[h] = pc[h] /\ req'[h] = req[h] /\ currentSet'[h] = currentSet[h] /\ unread'[h] = unread[h]
  BY OtherHandler
<1>2. CASE ~Busy(h)
  BY <1>1, <1>2 DEF Knows
<1>3. CASE Busy(h)
  <2> DEFINE s == req[h].source
  <2>1. s \in Sources /\ (Busy(g) => req[g].source # s)
    BY <1>3, BusySource
  <2>2. /\ \A k \in Store!LiveKeys(table') :
              Reported(k, s) \/ Reported(k, NoKey) => k \in Store!LiveKeys(table)
        /\ \A k \in Store!LiveKeys(table) :
              /\ k.k3 = s => k \in Store!LiveKeys(table') /\ table'[k].data = table[k].data
              /\ (k.type = "manages" /\ k.k1 = s) => k \in Store!LiveKeys(table')
    BY <2>1, OtherSource
  <2>3. (ManagedFound(h) => ManagedFound(h)') /\ (DependsFound(h) => DependsFound(h)')
    BY <1>1, <2>2 DEF ManagedFound, DependsFound
  <2>4. NothingStale(h) => NothingStale(h)'
    BY <1>1, <2>2 DEF NothingStale
  <2>5. Stored(req[h]) => Stored(req[h])'
    BY <1>1, <2>2 DEF Stored
  <2> QED
    BY <1>1, <2>3, <2>4, <2>5 DEF Knows
<1> QED
  BY <1>2, <1>3

-----------------------------------------------------------------------------
(* The handler's own steps.                                                *)

\* A live manages edge of s is among the pairs of the first read.
LEMMA ManagedRead ==
  ASSUME TypeOK, EndpointsLive, NEW s \in Sources, NEW m \in Modules,
         ManagesItem(s, m) \in Store!LiveKeys(table)
  PROVE  ManagesItem(s, m) \in BothOf(ManagedBy(table, s))
<1> DEFINE p == <<ManagesItem(s, m), ModuleItem(m)>>
<1>1. /\ ManagesItem(s, m).type = "manages" /\ ManagesItem(s, m).k1 = s /\ ManagesItem(s, m).k2 = m
      /\ ModuleItem(m).type = "module" /\ ModuleItem(m).k1 = m /\ ModuleItem(m).k2 = m
  BY DEF ManagesItem, ModuleItem, Item
<1>2. ModuleItem(m) \in Store!LiveKeys(table)
  BY <1>1, LiveMember DEF EndpointsLive, EdgesJoinNodes
<1>3. s # m
  BY KeyAssumption
<1>4. p \in ManagedBy(table, s)
  BY <1>1, <1>2, <1>3 DEF ManagedBy, Store!FindUpstream, Store!SelectUpstream
<1>5. p[1] = ManagesItem(s, m)
  OBVIOUS
<1> HIDE DEF p
<1> QED
  BY <1>4, <1>5 DEF BothOf

\* A live dependency of m that s reported, or without a k3, is among the pairs that
\* the read of the dependencies of m keeps.
LEMMA DependsRead ==
  ASSUME TypeOK, EndpointsLive, NEW s, NEW k \in Store!LiveKeys(table),
         Reported(k, s) \/ Reported(k, NoKey)
  PROVE  k \in BothOf(OwnDependencies(table, k.k1, s))
<1> DEFINE p == <<k, ModuleItem(k.k2)>>
<1>1. /\ ModuleItem(k.k2).type = "module"
      /\ ModuleItem(k.k2).k1 = k.k2 /\ ModuleItem(k.k2).k2 = k.k2
  BY DEF ModuleItem, Item
<1>2. k.type = "depends" /\ k.k3 \in {s, NoKey} /\ k.k1 # k.k2
  BY DEF Reported
<1>3. ModuleItem(k.k2) \in Store!LiveKeys(table)
  BY <1>2, LiveMember DEF EndpointsLive, EdgesJoinNodes
<1>4. p \in DependedOnBy(table, k.k1)
  BY <1>1, <1>2, <1>3 DEF DependedOnBy, Store!FindUpstream, Store!SelectUpstream
<1>5. p[1] = k
  OBVIOUS
<1> HIDE DEF p
<1>6. p \in OwnDependencies(table, k.k1, s)
  BY <1>2, <1>4, <1>5 DEF OwnDependencies
<1> QED
  BY <1>5, <1>6 DEF BothOf

\* After the first read: NoOrphans is what makes it find all modules that matter.
LEMMA KnowsReadManages ==
  ASSUME TypeOK, EndpointsLive, NEW h \in Handlers, Knows(h), NoOrphansOf(req[h].source),
         ReadManages(h)
  PROVE  Knows(h)'
<1> DEFINE s == req[h].source
           pairs == ManagedBy(table, s)
<1>1. s \in Sources /\ s # NoKey
  BY BusySource DEF ReadManages
<1>2. /\ currentSet[h] = {SourceItem(s)} /\ req'[h] = req[h] /\ table' = table
      /\ currentSet'[h] = {SourceItem(s)} \cup BothOf(pairs)
      /\ unread'[h] = EndsOf(pairs)
      /\ pc'[h] = IF pairs = {} THEN "delete" ELSE "readDepends"
  BY DEF ReadManages, Knows, TypeOK
<1>3. EndsOf({}) = {}
  BY DEF EndsOf
<1>4. ManagedFound(h)'
  <2> SUFFICES ASSUME NEW k \in Store!LiveKeys(table), Reported(k, s)
               PROVE  ManagesItem(s, k.k1) \in BothOf(pairs)
    BY <1>2 DEF ManagedFound
  <2>1. ManagesItem(s, k.k1) \in Store!LiveKeys(table)
    BY DEF NoOrphansOf
  <2>2. k.k1 \in Modules
    BY ItemShape DEF Reported, TypeOK, Store!LiveKeys
  <2> QED
    BY <1>1, <2>1, <2>2, ManagedRead
<1>5. ASSUME NEW m, ManagesItem(s, m) \in currentSet'[h] PROVE m \in EndsOf(pairs)
  <2>1. ManagesItem(s, m).type = "manages" /\ ManagesItem(s, m).k2 = m
    BY DEF ManagesItem, Item
  <2>2. ManagesItem(s, m) # SourceItem(s)
    BY <2>1 DEF SourceItem, Item
  <2>3. PICK p \in pairs : ManagesItem(s, m) = p[1] \/ ManagesItem(s, m) = p[2]
    BY <1>2, <1>5, <2>2 DEF BothOf
  <2>4. p[1].k2 = p[2].k1 /\ p[2].type = "module"
    BY ManagedByPairs DEF TypeOK
  <2>5. m = p[2].k1
    BY <2>1, <2>3, <2>4
  <2> HIDE DEF pairs
  <2> QED
    BY <2>5 DEF EndsOf
<1>6. DependsFound(h)'
  BY <1>2, <1>5 DEF DependsFound
<1> QED
  BY <1>2, <1>3, <1>4, <1>6 DEF Knows

\* After a further read.
LEMMA KnowsReadDepends ==
  ASSUME TypeOK, EndpointsLive, NEW h \in Handlers, Knows(h), NEW m \in Modules, ReadDepends(h, m)
  PROVE  Knows(h)'
<1> DEFINE s == req[h].source
           found == BothOf(OwnDependencies(table, m, s))
<1>1. /\ pc[h] = "readDepends" /\ req'[h] = req[h] /\ table' = table
      /\ currentSet'[h] = currentSet[h] \cup found
      /\ unread'[h] = unread[h] \ {m}
      /\ pc'[h] = IF unread[h] = {m} THEN "delete" ELSE "readDepends"
  BY DEF ReadDepends, TypeOK
<1>2. \A k \in found : k.type # "manages"
  BY OwnDependenciesPairs DEF BothOf, TypeOK
<1>3. \A k \in Store!LiveKeys(table) :
        (Reported(k, s) \/ Reported(k, NoKey)) /\ k.k1 = m => k \in found
  BY DependsRead
<1>4. \A x : ManagesItem(s, x) \notin found
  BY <1>2 DEF ManagesItem, Item
<1> HIDE DEF found
<1>5. ManagedFound(h)'
  BY <1>1 DEF Knows, ManagedFound
<1>6. DependsFound(h)'
  BY <1>1, <1>3, <1>4 DEF Knows, DependsFound
<1>7. unread[h] = {m} => unread'[h] = {}
  BY <1>1
<1> QED
  BY <1>1, <1>5, <1>6, <1>7 DEF Knows

\* At the Delete everything the source has reported, and what has no k3 of its
\* modules, has been found; so what is not proposed is deleted.
LEMMA DeletesStale ==
  ASSUME TypeOK, NEW h \in Handlers, pc[h] = "delete", Knows(h), NEW k \in Store!LiveKeys(table)
  PROVE  /\ (Reported(k, req[h].source) /\ k \notin ProposedKeys(req[h])) =>
              k \in ToDelete(currentSet[h], req[h])
         /\ (Reported(k, NoKey) /\ ManagesItem(req[h].source, k.k1) \in currentSet[h]) =>
              k \in ToDelete(currentSet[h], req[h])
<1>1. req[h].source # NoKey
  BY BusySource
<1>2. Reported(k, NoKey) => k \notin ProposedKeys(req[h])
  BY <1>1, ProposedClosed DEF Reported
<1>3. Reported(k, req[h].source) \/ Reported(k, NoKey) => k.type # "module"
  BY DEF Reported
<1>4. ManagedFound(h) /\ DependsFound(h) /\ unread[h] = {}
  BY DEF Knows
<1> QED
  BY <1>2, <1>3, <1>4 DEF ManagedFound, DependsFound, ToDelete

\* After the Delete, or after one that fails and may be repeated.
LEMMA KnowsDelete ==
  ASSUME ~PartialFailures, TypeOK, NEW h \in Handlers, Knows(h), DeleteStale(h) \/ DeleteFails(h)
  PROVE  Knows(h)'
<1>1. req'[h] = req[h] /\ currentSet'[h] = currentSet[h] /\ unread'[h] = unread[h] /\ pc[h] = "delete"
  BY DEF DeleteStale, DeleteFails
<1>2. CASE DeleteStale(h)
  <2>1. pc'[h] = "put"
    BY <1>2 DEF DeleteStale, TypeOK
  <2>2. Store!LiveKeys(table') = Store!LiveKeys(table) \ ToDelete(currentSet[h], req[h])
    BY <1>2, DeletedLive DEF DeleteStale, TypeOK
  <2>3. NothingStale(h)'
    BY <1>1, <2>2, DeletesStale DEF NothingStale
  <2> QED
    BY <2>1, <2>3 DEF Knows
<1>3. CASE DeleteFails(h)
  <2>1. pc'[h] \in {"delete", "error"}
    BY <1>3 DEF DeleteFails, TypeOK
  <2>2. Store!LiveKeys(table') \subseteq Store!LiveKeys(table)
    BY <1>3, DeletedLive DEF DeleteFails, TypeOK
  <2>3. ManagedFound(h)' /\ DependsFound(h)'
    BY <1>1, <2>2 DEF Knows, ManagedFound, DependsFound
  <2> QED
    BY <1>1, <2>1, <2>3 DEF Knows
<1> QED
  BY <1>2, <1>3

\* After the Put, or after one that fails and may be repeated.
LEMMA KnowsPut ==
  ASSUME Driver # "postgres", TypeOK, NEW h \in Handlers, Knows(h), PutProposed(h) \/ PutFails(h)
  PROVE  Knows(h)'
<1> DEFINE r == req[h]
<1>1. req'[h] = r /\ currentSet'[h] = currentSet[h] /\ pc[h] = "put"
  BY DEF PutProposed, PutFails
<1>2. r \in SourceRequests /\ r.source # NoKey
  BY <1>1, BusySource
<1>3. Store!LiveKeys(table') \subseteq Store!LiveKeys(table) \cup ProposedKeys(r)
  <2>1. CASE PutProposed(h)
    BY <2>1, InsertedLive DEF PutProposed, getProposed
  <2>2. CASE PutFails(h)
    <3>1. PICK K \in Effects(ProposedKeys(r)) :
            table' = Store!Inserted(table, Store!Restricted(getProposed(r), K))
      BY <2>2 DEF PutFails
    <3>2. DOMAIN Store!Restricted(getProposed(r), K) = K
      BY DEF Store!Restricted
    <3> QED
      BY <3>1, <3>2, InsertedLive, EffectsPart
  <2> QED
    BY <2>1, <2>2
<1>4. NothingStale(h)'
  <2>1. NothingStale(h)
    BY <1>1 DEF Knows
  <2>2. \A k \in ProposedKeys(r) : ~Reported(k, NoKey)
    BY <1>2, ProposedClosed DEF Reported
  <2> QED
    BY <1>1, <1>3, <2>1, <2>2 DEF NothingStale
<1>5. CASE PutProposed(h)
  <2>1. pc'[h] = "ok"
    BY <1>5 DEF PutProposed, TypeOK
  <2>2. DOMAIN getProposed(r) = ProposedKeys(r)
    BY DEF getProposed
  <2>3. \A k \in ProposedKeys(r) : k \in Store!LiveKeys(table')
    BY <1>5, <2>2, InsertedLive DEF PutProposed
  <2>4. ASSUME NEW k \in ProposedKeys(r), k.k3 = r.source PROVE table'[k].data = r.ref
    <3>1. getProposed(r)[k] = r.ref
      BY <1>2, <2>4, ProposedK3
    <3>2. table'[k] = Store!InsertGraphData(table, k, getProposed(r)[k])
      BY <1>5, <2>2 DEF PutProposed, Store!Inserted
    <3> QED
      BY <3>1, <3>2 DEF Store!InsertGraphData
  <2>5. Stored(req[h])'
    BY <1>1, <2>3, <2>4 DEF Stored
  <2> QED
    BY <2>1, <2>5, <1>4 DEF Knows
<1>6. CASE PutFails(h)
  <2>1. pc'[h] \in {"put", "error"}
    BY <1>6 DEF PutFails, TypeOK
  <2> QED
    BY <2>1, <1>4 DEF Knows
<1> QED
  BY <1>5, <1>6

\* The steps of the handler keep what it knows.
LEMMA KnowsOwn ==
  ASSUME ~PartialFailures, Driver # "postgres",
         TypeOK, EndpointsLive, NEW h \in Handlers, Knows(h), Step(h),
         Busy(h) => NoOrphansOf(req[h].source)
  PROVE  Knows(h)'
<1>1. CASE \E r \in Requests : Track(h, r)
  <2>1. PICK r \in Requests : Track(h, r)
    BY <1>1
  <2>2. pc'[h] = "readManages" /\ req'[h] = r /\ currentSet'[h] = {SourceItem(r.source)}
    BY <2>1 DEF Track, TypeOK
  <2> QED
    BY <2>2 DEF Knows
<1>2. CASE ReadManages(h)
  BY <1>2, KnowsReadManages DEF ReadManages
<1>3. CASE \E m \in Modules : ReadDepends(h, m)
  BY <1>3, KnowsReadDepends
<1>4. CASE ReadFails(h) \/ Finish(h)
  <2>1. pc'[h] \in {"error", "idle"}
    BY <1>4 DEF ReadFails, Finish, TypeOK
  <2> QED
    BY <2>1 DEF Knows
<1>5. CASE DeleteStale(h) \/ DeleteFails(h)
  BY <1>5, KnowsDelete
<1>6. CASE PutProposed(h) \/ PutFails(h)
  BY <1>6, KnowsPut
<1> QED
  BY <1>1, <1>2, <1>3, <1>4, <1>5, <1>6 DEF Step

-----------------------------------------------------------------------------
(* The theorems.                                                           *)

\* Track does not start while the source is served.
LEMMA SerialStep ==
  ASSUME ~Overlap, TypeOK, Serial, NEW g \in Handlers, Step(g)
  PROVE  Serial'
<1> SUFFICES ASSUME NEW h \in Handlers, h # g, Busy(h)', Busy(g)'
             PROVE  req'[g].source # req'[h].source
  <2>1. \A h \in Handlers : h # g => pc'[h] = pc[h] /\ req'[h] = req[h]
    BY OtherHandler
  <2> QED
    BY <2>1 DEF Serial
<1>1. pc'[h] = pc[h] /\ req'[h] = req[h]
  BY OtherHandler
<1>2. CASE \E r \in Requests : Track(g, r)
  BY <1>1, <1>2 DEF Track, TypeOK
<1>3. CASE ~\E r \in Requests : Track(g, r)
  <2>1. Busy(g) /\ req'[g] = req[g]
    <3>1. Busy(g)
      BY <1>3 DEF Step, ReadManages, ReadDepends, ReadFails, DeleteStale, DeleteFails, PutProposed,
                  PutFails, Finish
    <3> QED
      BY <3>1, OwnRequest
  <2> QED
    BY <1>1, <2>1 DEF Serial
<1> QED
  BY <1>2, <1>3

\* No step orphans a dependency of s: the Delete that takes a manages edge away takes
\* away every dependency the source reported for the module, the Put brings both or
\* none, and the steps for other sources touch neither.
LEMMA NoOrphansStep ==
  ASSUME ~PartialFailures, Driver # "postgres", TypeOK, FoundOwn,
         NEW s \in Sources, NoOrphansOf(s),
         NEW h \in Handlers, Step(h), (Busy(h) /\ req[h].source = s) => Knows(h)
  PROVE  NoOrphansOf(s)'
<1>0. SUFFICES ASSUME NEW k \in Store!LiveKeys(table'), Reported(k, s)
               PROVE  ManagesItem(s, k.k1) \in Store!LiveKeys(table')
  BY DEF NoOrphansOf
<1>1. k \in Store!LiveKeys(table) => ManagesItem(s, k.k1) \in Store!LiveKeys(table)
  BY <1>0 DEF NoOrphansOf
<1>2. ManagesItem(s, k.k1).type = "manages" /\ ManagesItem(s, k.k1).k1 = s
  BY DEF ManagesItem, Item
<1>3. CASE UNCHANGED table
  BY <1>1, <1>3 DEF Store!LiveKeys
<1>4. CASE Busy(h) => req[h].source # s
  BY <1>0, <1>1, <1>2, <1>4, OtherSource
<1>5. ASSUME req[h].source = s, pc[h] = "delete", NEW K \in Effects(ToDelete(currentSet[h], req[h])),
             table' = Store!Deleted(table, K)
      PROVE  ManagesItem(s, k.k1) \in Store!LiveKeys(table')
  <2>1. Store!LiveKeys(table') = Store!LiveKeys(table) \ K
    BY <1>5, DeletedLive DEF TypeOK
  <2>2. SUFFICES ASSUME ManagesItem(s, k.k1) \in K PROVE FALSE
    BY <1>1, <2>1
  <2>3. K = ToDelete(currentSet[h], req[h])
    BY <1>5, <2>2, WholeEffects
  <2>4. ManagesItem(s, k.k1) \notin ProposedKeys(req[h])
    BY <1>5, <2>2, <2>3, ToDeleteOwn
  <2>5. k \notin ProposedKeys(req[h])
    BY <1>0, <1>5, <2>4, ProposedClosed DEF Reported
  <2> QED
    BY <1>5, <1>0, <2>1, <2>3, <2>5, DeletesStale
<1>6. ASSUME req[h].source = s, pc[h] = "put", NEW K \in Effects(ProposedKeys(req[h])),
             table' = Store!Inserted(table, Store!Restricted(getProposed(req[h]), K))
      PROVE  ManagesItem(s, k.k1) \in Store!LiveKeys(table')
  <2> DEFINE new == Store!Restricted(getProposed(req[h]), K)
  <2>1. DOMAIN new = K
    BY DEF Store!Restricted
  <2> HIDE DEF new
  <2>2. /\ Store!LiveKeys(table) \subseteq Store!LiveKeys(table')
        /\ Store!LiveKeys(table') \subseteq Store!LiveKeys(table) \cup K
        /\ K \subseteq Store!LiveKeys(table')
    BY <1>6, <2>1, InsertedLive DEF new
  <2>3. CASE k \in Store!LiveKeys(table)
    BY <1>1, <2>2, <2>3
  <2>4. CASE k \in K
    <3>1. K = ProposedKeys(req[h])
      BY <1>6, <2>4, WholeEffects
    <3>2. ManagesItem(s, k.k1) \in ProposedKeys(req[h])
      BY <1>6, <2>4, <3>1, <1>0, ProposedClosed DEF Reported
    <3> QED
      BY <2>2, <3>1, <3>2
  <2> QED
    BY <2>2, <2>3, <2>4
<1> QED
  BY <1>3, <1>4, <1>5, <1>6, HandlerTableStep

\* What a Track has stored stays while the steps of other sources go on.
LEMMA ExactKept ==
  ASSUME TypeOK, FoundOwn, NEW g \in Handlers, Step(g),
         NEW r, r.source \in Sources, Busy(g) => req[g].source # r.source, StoredExactly(r)
  PROVE  StoredExactly(r)'
<1>1. /\ \A k \in Store!LiveKeys(table') :
            Reported(k, r.source) \/ Reported(k, NoKey) => k \in Store!LiveKeys(table)
      /\ \A k \in Store!LiveKeys(table) :
            /\ k.k3 = r.source => k \in Store!LiveKeys(table') /\ table'[k].data = table[k].data
            /\ (k.type = "manages" /\ k.k1 = r.source) => k \in Store!LiveKeys(table')
  BY OtherSource
<1> QED
  BY <1>1 DEF StoredExactly, Stored

\* The sources' parts of NoOrphans.
LEMMA NoOrphansParts == NoOrphans <=> \A s \in Sources : NoOrphansOf(s)
  BY LiveMember DEF NoOrphans, EdgesManaged, NoOrphansOf, Reported

\* The assumptions of this module on the calls, the database and its contents.
Orderly ==
  /\ ~Overlap /\ ~PartialFailures /\ Driver # "postgres"
  /\ \A t \in InitialTables : EdgesJoinNodes(t) /\ EdgesManaged(t)

\* The invariant is inductive.
LEMMA Inductive ==
  ASSUME Orderly
  PROVE  /\ Init => TrackInv
         /\ TypeOK /\ TrackInv /\ [Next]_vars => TrackInv'
<1> USE DEF Orderly
<1>1. Init => TrackInv
  BY InitialTablesAssumption
     DEF Init, TrackInv, FoundOwn, EndpointsLive, NoOrphans, Serial, Knows
<1>2. ASSUME TypeOK, TrackInv, [Next]_vars PROVE TrackInv'
  <2>1. FoundOwn' /\ NodesKept(table') /\ EndpointsLive'
    BY <1>2, FoundOwnStep, NodesKeptStep, EndpointsStep DEF TrackInv
  <2>2. ASSUME NEW g \in Handlers, Step(g)
        PROVE  NoOrphans' /\ Serial' /\ \A h \in Handlers : Knows(h)'
    <3>1. NoOrphans'
      <4>1. \A s \in Sources : NoOrphansOf(s)'
        BY <1>2, <2>2, NoOrphansParts, NoOrphansStep DEF TrackInv
      <4> QED
        BY <4>1, LiveMember DEF NoOrphans, EdgesManaged, NoOrphansOf, Reported
    <3>2. Serial'
      BY <1>2, <2>2, SerialStep DEF TrackInv
    <3>3. ASSUME NEW h \in Handlers PROVE Knows(h)'
      <4>1. CASE h = g
        BY <1>2, <2>2, <4>1, KnowsOwn, NoOrphansParts, BusySource DEF TrackInv
      <4>2. CASE h # g
        BY <1>2, <2>2, <4>2, KnowsOther DEF TrackInv, Serial
      <4> QED
        BY <4>1, <4>2
    <3> QED
      BY <3>1, <3>2, <3>3
  <2>3. CASE UNCHANGED vars
    BY <1>2, <2>3 DEF TrackInv, vars, FoundOwn, NodesKept, EndpointsLive, NoOrphans, Serial, Knows,
                      ManagedFound, DependsFound, NothingStale, Stored, EdgesJoinNodes, EdgesManaged,
                      Store!LiveKeys, Store!Live
  <2> QED
    BY <1>2, <2>1, <2>2, <2>3 DEF Next, TrackInv
<1> QED
  BY <1>1, <1>2

\* In an orderly system no dependency a source reported is ever orphaned.
THEOREM NeverOrphaned ==
  ASSUME Orderly
  PROVE  Spec => []NoOrphans
<1>1. TrackInv => NoOrphans
  BY DEF TrackInv
<1> QED
  BY <1>1, Inductive, TypeCorrect, PTL DEF Spec

\* In an orderly system a Track answered "tracking" has stored exactly the
\* dependencies of its request, and they are there until the answer is out.
THEOREM TrackIsExact ==
  ASSUME Orderly
  PROVE  Spec => []TrackedExactly
<1>1. TypeOK /\ TrackInv => TrackedExactly
  <2> SUFFICES ASSUME TypeOK, TrackInv, NEW h \in Handlers, pc[h] = "ok"
               PROVE  LET r == req[h]
                      IN /\ \A m, d \in Modules : m # d =>
                              (Live(DependsItem(m, d, r.source)) <=>
                                 DependsItem(m, d, r.source) \in ProposedKeys(r))
                         /\ \A k \in ProposedKeys(r) : k.k3 = r.source => table[k].data = r.ref
                         /\ \A f \in r.managementFiles : Live(ManagesItem(r.source, f.module))
                         /\ \A m, d \in Modules :
                              (ManagesItem(r.source, m) \in currentSet[h] /\ m # d) =>
                                ~Live(DependsItem(m, d, NoKey))
    BY DEF TrackedExactly
  <2> DEFINE r == req[h]
             L == Store!LiveKeys(table)
  <2>1. NothingStale(h) /\ Stored(r)
    BY DEF TrackInv, Knows
  <2>2. \A k : Live(k) <=> k \in L
    BY LiveMember DEF Live
  <2>3. \A m, d, s : /\ m # d => Reported(DependsItem(m, d, s), s)
                     /\ DependsItem(m, d, s).k1 = m /\ DependsItem(m, d, s).k3 = s
    BY DEF Reported, DependsItem, Item
  <2>4. \A m, d \in Modules : m # d =>
          (Live(DependsItem(m, d, r.source)) <=> DependsItem(m, d, r.source) \in ProposedKeys(r))
    BY <2>1, <2>2, <2>3 DEF NothingStale, Stored
  <2>5. \A k \in ProposedKeys(r) : k.k3 = r.source => table[k].data = r.ref
    BY <2>1 DEF Stored
  <2>6. ASSUME NEW f \in r.managementFiles PROVE Live(ManagesItem(r.source, f.module))
    <3>1. ManagesItem(r.source, f.module) \in ProposedKeys(r)
      BY DEF ProposedKeys
    <3>2. ManagesItem(r.source, f.module).type = "manages" /\ ManagesItem(r.source, f.module).k1 = r.source
      BY DEF ManagesItem, Item
    <3> QED
      BY <2>1, <2>2, <3>1, <3>2 DEF Stored
  <2>7. \A m, d \in Modules :
          (ManagesItem(r.source, m) \in currentSet[h] /\ m # d) => ~Live(DependsItem(m, d, NoKey))
    BY <2>1, <2>2, <2>3 DEF NothingStale
  <2> QED
    BY <2>4, <2>5, <2>6, <2>7
<1> QED
  BY <1>1, Inductive, TypeCorrect, PTL DEF Spec
=============================================================================
