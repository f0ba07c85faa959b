--------------------------- MODULE SourceService ---------------------------
(***************************************************************************)
(* SourceService.Track of the tracker (services/v1alpha/service_source.go) *)
(* over the v1alpha graph store, and the queries of ModuleService and      *)
(* DependencyService that read what Track writes.                          *)
(*                                                                         *)
(* Track is not atomic: it reads the graph with one call for the modules a *)
(* source manages and one more call per managed module, then deletes in    *)
(* one transaction and puts in another.  The handlers of several Track     *)
(* calls interleave between these calls, and each call can fail, can fail  *)
(* after it took effect, or can be repeated by the retry interceptor of    *)
(* the client connection (tracker/main.go).                                *)
(***************************************************************************)
EXTENDS FiniteSets

CONSTANTS Sources,          \* repository URLs
          Modules,          \* (language, organization, module) triples
          Refs,             \* revisions of a source
          NoRef,            \* data without a revision
          NoKey,            \* the empty k3, and the empty source URL of a file
          Driver,           \* the SQL dialect
          Handlers,         \* the Track calls the gRPC server can run at a time
          Requests,         \* the SourceRequests clients send
          InitialTables,    \* what the database holds when the tracker starts
          Overlap,          \* two Track calls for one source may run at a time
          PartialFailures   \* one statement of a transaction may fail alone

VARIABLES table,            \* dts_graphdata
          pc,               \* where a handler is
          req,              \* the request it serves
          currentSet,       \* the item keys getCurrent has found so far
          unread            \* the managed modules whose dependencies getCurrent has yet to read

vars == <<table, pc, req, currentSet, unread>>

\* The store's statements and reads; its calls are made by the actions below.
Store == INSTANCE GraphStore WITH
           ItemTypes <- {"source", "module", "manages", "depends"},
           Keys <- Sources \cup Modules, Payloads <- Refs \cup {NoRef},
           Trackers <- {}, Writers <- {}, PutRequests <- {}, DeleteRequests <- {},
           call <- pc

ASSUME ModeAssumption == Overlap \in BOOLEAN /\ PartialFailures \in BOOLEAN

ASSUME KeyAssumption == /\ Sources \cap Modules = {}
                        /\ NoKey \notin Sources \cup Modules

ManagementFiles == [module : Modules, sourceUrl : Sources \cup {NoKey}, dependencies : SUBSET Modules]

SourceRequests == [source : Sources, ref : Refs, managementFiles : SUBSET ManagementFiles]

ASSUME RequestsAssumption == Requests \subseteq SourceRequests

\* What an idle handler serves.
NoRequest == [source |-> NoKey, ref |-> NoRef, managementFiles |-> {}]

-----------------------------------------------------------------------------
(* Item keys (keys.go, encode.go).  The digests are collision free: a URL  *)
(* and a module triple stand for their own key.                            *)

Item(type, k1, k2, k3) == [type |-> type, k1 |-> k1, k2 |-> k2, k3 |-> k3]

SourceItem(s) == Item("source", s, s, NoKey)
ModuleItem(m) == Item("module", m, m, NoKey)
ManagesItem(s, m) == Item("manages", s, m, NoKey)
DependsItem(m, d, s) == Item("depends", m, d, s)

\* The keys of the items the services store.
ItemKeys ==
  {SourceItem(s) : s \in Sources}
  \cup {ModuleItem(m) : m \in Modules}
  \cup {ManagesItem(s, m) : s \in Sources, m \in Modules}
  \cup {DependsItem(m, d, s) : m \in Modules, d \in Modules, s \in Sources \cup {NoKey}}

\* No node of t is deleted.
NodesKept(t) ==
  \A k \in DOMAIN t : k.type \in {"source", "module"} => ~t[k].deleted

\* The services wrote what is in the database when the tracker starts.
ASSUME InitialTablesAssumption ==
  \A t \in InitialTables :
    /\ DOMAIN t \subseteq ItemKeys
    /\ \A k \in DOMAIN t : t[k] \in Store!Rows
    /\ NodesKept(t)

\* The keys of getProposed's map: the source, and for each management file its
\* module and manages edge, the source the file names with its manages edge, and
\* the modules it depends on with their edges, whose k3 is the tracked source.
ProposedKeys(r) ==
  LET files == r.managementFiles
      named == {f \in files : f.sourceUrl # NoKey}
  IN {SourceItem(r.source)}
     \cup {ModuleItem(f.module) : f \in files}
     \cup {ManagesItem(r.source, f.module) : f \in files}
     \cup {SourceItem(f.sourceUrl) : f \in named}
     \cup {ManagesItem(f.sourceUrl, f.module) : f \in named}
     \cup (UNION {{ModuleItem(d) : d \in f.dependencies} : f \in files})
     \cup (UNION {{DependsItem(f.module, d, r.source) : d \in f.dependencies} : f \in files})

\* getProposed.  Of the data the model keeps the revision: a depends edge carries
\* the request's, and so does the source unless a file names that URL too (the
\* discovered source, built without a revision, then takes its place in the map).
getProposed(r) ==
  [k \in ProposedKeys(r) |->
     IF \/ k.type = "depends"
        \/ k = SourceItem(r.source) /\ \A f \in r.managementFiles : f.sourceUrl # r.source
     THEN r.ref ELSE NoRef]

\* The reads of getCurrent: edges with the module at their end.
ManagedBy(t, s) == Store!FindUpstream(t, {s}, {"manages"}, {"module"})
DependedOnBy(t, m) == Store!FindUpstream(t, {m}, {"depends"}, {"module"})

\* Mutants: the k3 of an edge is not looked at, or has to be there.
AllDependencies(t, m, s) == DependedOnBy(t, m)
KeyedDependencies(t, m, s) == {p \in DependedOnBy(t, m) : p[1].k3 = s}

\* Of the edges that leave a managed module, those this source reported, or that
\* were stored before edges had a k3; with the modules they lead to.
OwnDependencies(t, m, s) ==
  {p \in DependedOnBy(t, m) : p[1].k3 = NoKey \/ p[1].k3 = s}

BothOf(pairs) == {p[1] : p \in pairs} \cup {p[2] : p \in pairs}

StartsOf(pairs) == {p[1].k1 : p \in pairs}  \* a mutant: the wrong end

\* The keys of the nodes the pairs lead to.
EndsOf(pairs) == {p[2].k1 : p \in pairs}

\* Mutants: only manages edges are removed, or modules too.
ToDeleteManages(found, r) == {k \in found \ ProposedKeys(r) : k.type = "manages"}
ToDeleteModules(found, r) == found \ ProposedKeys(r)

\* What Track removes: what it found and does not propose, modules excepted.
ToDelete(found, r) == {k \in found \ ProposedKeys(r) : k.type # "module"}

-----------------------------------------------------------------------------
(* The handlers.                                                           *)

Init ==
  /\ table \in InitialTables
  /\ pc = [h \in Handlers |-> "idle"]
  /\ req = [h \in Handlers |-> NoRequest]
  /\ currentSet = [h \in Handlers |-> {}]
  /\ unread = [h \in Handlers |-> {}]

Busy(h) == pc[h] # "idle"

\* A Track request arrives.  Its source goes into the current set before any read.
Track(h, r) ==
  /\ pc[h] = "idle"
  /\ Overlap \/ \A g \in Handlers : Busy(g) => req[g].source # r.source
  /\ pc' = [pc EXCEPT ![h] = "readManages"]
  /\ req' = [req EXCEPT ![h] = r]
  /\ currentSet' = [currentSet EXCEPT ![h] = {SourceItem(r.source)}]
  /\ UNCHANGED <<table, unread>>

\* getCurrent asks for the modules the source manages.
ReadManages(h) ==
  LET pairs == ManagedBy(table, req[h].source)
  IN /\ pc[h] = "readManages"
     /\ currentSet' = [currentSet EXCEPT ![h] = @ \cup BothOf(pairs)]
     /\ unread' = [unread EXCEPT ![h] = EndsOf(pairs)]
     /\ pc' = [pc EXCEPT ![h] = IF pairs = {} THEN "delete" ELSE "readDepends"]
     /\ UNCHANGED <<table, req>>

\* getCurrent asks for the dependencies of one of them; the store returns the
\* pairs in no particular order.
ReadDepends(h, m) ==
  /\ pc[h] = "readDepends"
  /\ m \in unread[h]
  /\ currentSet' = [currentSet EXCEPT ![h] = @ \cup BothOf(OwnDependencies(table, m, req[h].source))]
  /\ unread' = [unread EXCEPT ![h] = @ \ {m}]
  /\ pc' = [pc EXCEPT ![h] = IF unread[h] = {m} THEN "delete" ELSE "readDepends"]
  /\ UNCHANGED <<table, req>>

\* A read fails: Track returns ErrModuleNotFound.
ReadFails(h) ==
  /\ pc[h] \in {"readManages", "readDepends"}
  /\ pc' = [pc EXCEPT ![h] = "error"]
  /\ UNCHANGED <<table, req, currentSet, unread>>

\* The parts of a transaction over the keys K that can be in the table when its
\* caller sees an error: none or all of it, or any part if statements fail alone.
Effects(K) == IF PartialFailures THEN SUBSET K ELSE {{}, K}

\* The Delete call is answered: the transaction has committed.
DeleteStale(h) ==
  /\ pc[h] = "delete"
  /\ table' = Store!Deleted(table, ToDelete(currentSet[h], req[h]))
  /\ pc' = [pc EXCEPT ![h] = "put"]
  /\ UNCHANGED <<req, currentSet, unread>>

\* The Delete call fails: Track returns ErrPartialDeletion.  Or the connection is
\* lost after any effect the call had and the interceptor sends it again.  (The store
\* begins its transaction without the context of the call, so that one that was
\* cancelled may commit even after its retry; here its effect comes first.)
DeleteFails(h) ==
  /\ pc[h] = "delete"
  /\ \E K \in Effects(ToDelete(currentSet[h], req[h])) : table' = Store!Deleted(table, K)
  /\ pc' \in {[pc EXCEPT ![h] = "error"], pc}
  /\ UNCHANGED <<req, currentSet, unread>>

\* The Put call is answered: Track returns Tracking: true.
PutProposed(h) ==
  /\ pc[h] = "put"
  /\ table' = Store!Inserted(table, getProposed(req[h]))
  /\ pc' = [pc EXCEPT ![h] = "ok"]
  /\ UNCHANGED <<req, currentSet, unread>>

\* The Put call fails (ErrPartialInsertion), or is sent again.
PutFails(h) ==
  /\ pc[h] = "put"
  /\ \E K \in Effects(ProposedKeys(req[h])) :
       table' = Store!Inserted(table, Store!Restricted(getProposed(req[h]), K))
  /\ pc' \in {[pc EXCEPT ![h] = "error"], pc}
  /\ UNCHANGED <<req, currentSet, unread>>

\* The client has its answer and the handler is gone.
Finish(h) ==
  /\ pc[h] \in {"ok", "error"}
  /\ pc' = [pc EXCEPT ![h] = "idle"]
  /\ req' = [req EXCEPT ![h] = NoRequest]
  /\ currentSet' = [currentSet EXCEPT ![h] = {}]
  /\ unread' = [unread EXCEPT ![h] = {}]
  /\ UNCHANGED table

Step(h) ==
  \/ \E r \in Requests : Track(h, r)
  \/ ReadManages(h)
  \/ \E m \in Modules : ReadDepends(h, m)
  \/ ReadFails(h)
  \/ DeleteStale(h) \/ DeleteFails(h)
  \/ PutProposed(h) \/ PutFails(h)
  \/ Finish(h)

Next == \E h \in Handlers : Step(h)

Spec == Init /\ [][Next]_vars

-----------------------------------------------------------------------------
(* The queries (service_module.go, service_dependency.go): the keys of the *)
(* nodes they return.                                                      *)

ListDependencies(m) == EndsOf(Store!FindUpstream(table, {m}, {"depends"}, {"module"}))
ListDependents(m) == EndsOf(Store!FindDownstream(table, {m}, {"depends"}, {"module"}))
ListManaged(s) == EndsOf(Store!FindUpstream(table, {s}, {"manages"}, {"module"}))
ListSources(m) == EndsOf(Store!FindDownstream(table, {m}, {"manages"}, {"source"}))

-----------------------------------------------------------------------------
(* Properties.                                                             *)

Live(k) == Store!Live(table, k)

States == {"idle", "readManages", "readDepends", "delete", "put", "ok", "error"}

\* The table holds the items of the four types under their keys, and a handler that has started
\* serves a request of a client with sets of item keys and of modules.
TypeOK ==
  /\ DOMAIN table \subseteq ItemKeys
  /\ \A k \in DOMAIN table : table[k] \in Store!Rows
  /\ pc \in [Handlers -> States]
  /\ req \in [Handlers -> Requests \cup {NoRequest}]
  /\ \A h \in Handlers : Busy(h) => req[h] \in Requests
  /\ currentSet \in [Handlers -> SUBSET ItemKeys]
  /\ unread \in [Handlers -> SUBSET Modules]

\* The live edges of the table t join live nodes.
EdgesJoinNodes(t) ==
  \A k \in Store!LiveKeys(t) :
    /\ k.type = "manages" =>
         Store!Live(t, SourceItem(k.k1)) /\ Store!Live(t, ModuleItem(k.k2))
    /\ k.type = "depends" =>
         Store!Live(t, ModuleItem(k.k1)) /\ Store!Live(t, ModuleItem(k.k2))

\* Every live edge joins live nodes, so that no query loses an edge in its join:
\* nodes are never removed and come in the transaction that brings the edge.
EndpointsLive == EdgesJoinNodes(table)

\* The dependencies the sources reported leave modules these sources manage in t.
\* (A module that depends on itself has an edge no query returns.)
EdgesManaged(t) ==
  \A k \in Store!LiveKeys(t) :
    (k.type = "depends" /\ k.k3 \in Sources /\ k.k1 # k.k2) =>
      Store!Live(t, ManagesItem(k.k3, k.k1))

\* A dependency a source reported is live only while the source manages the
\* module: otherwise getCurrent never finds the edge again and nothing removes it.
NoOrphans == EdgesManaged(table)

\* When Track answers "tracking", the dependencies stored for its source are
\* those of the request at its revision, its modules are managed, and the edges
\* without a k3 of the modules it already managed are gone; the Track calls of
\* other sources that ran meanwhile notwithstanding.
TrackedExactly ==
  \A h \in Handlers : pc[h] = "ok" =>
    LET r == req[h]
    IN /\ \A m, d \in Modules : m # d =>
            (Live(DependsItem(m, d, r.source)) <=> DependsItem(m, d, r.source) \in ProposedKeys(r))
       /\ \A k \in ProposedKeys(r) : k.k3 = r.source => table[k].data = r.ref
       /\ \A f \in r.managementFiles : Live(ManagesItem(r.source, f.module))
       /\ \A m, d \in Modules :
            (ManagesItem(r.source, m) \in currentSet[h] /\ m # d) => ~Live(DependsItem(m, d, NoKey))

\* The two directions of the graph tell the same story: d is listed as a
\* dependency of m exactly if m is listed as a dependent of d, and likewise for
\* sources and the modules they manage.
QueriesAgree ==
  /\ \A m, d \in Modules : d \in ListDependencies(m) <=> m \in ListDependents(d)
  /\ \A s \in Sources, m \in Modules : m \in ListManaged(s) <=> s \in ListSources(m)

\* What this step takes away is in the Delete of a Track whose request does not
\* propose it: a manages edge that leaves its source, whoever reported it, a
\* dependency its source reported, or one without a k3.
RemovesOwnEdges ==
  \A k \in Store!LiveKeys(table) : ~Store!Live(table', k) =>
    \E h \in Handlers :
      /\ pc[h] = "delete"
      /\ k \notin ProposedKeys(req[h])
      /\ \/ k.type = "manages" /\ k.k1 = req[h].source
         \/ k.type = "depends" /\ k.k3 \in {req[h].source, NoKey}

\* However the calls overlap, go stale, are retried and fail in part: nodes are never
\* taken away, a dependency that a source reported only by a Track of that source, and
\* a manages edge only by a Track of the source it leaves, none of which proposes it
\* any more.  (A manages edge has no k3: one that leaves the tracked source but was
\* put for the file of another source, through its sourceUrl, is found and taken away
\* like the source's own.)
OnlyOwnEdgesRemoved == [][RemovesOwnEdges]_vars
=============================================================================
