-------------------------- MODULE ManifestStorage --------------------------
(***************************************************************************)
(* ManifestStorageService.Store of the tracker (services/v1beta) over the  *)
(* v1beta graph store (graphstore/v1beta): Store reads the edges stored    *)
(* for its source through a Traverse stream, two tiers deep, then puts     *)
(* what the request proposes and at last deletes what it does not.         *)
(*                                                                         *)
(* A Traverse call has three parties: the client in GetStored, which sends *)
(* the requests of a tier and only then receives the answers; the reading  *)
(* goroutine of the server; and its handler, which answers one request at  *)
(* a time.  A message waits in the stream's window, in the goroutine, in   *)
(* the channel between the two and in the handler.                         *)
(*                                                                         *)
(* Stores of different sources interleave.  Nothing in the service keeps   *)
(* two Stores of one source apart, either; Overlapping are the sources     *)
(* whose clients do not keep them apart.                                   *)
(*                                                                         *)
(* The table is graph_data on sqlite.  A row with a date_deleted is seen   *)
(* by no statement and replaced by the next insert of its key, so that the *)
(* model keeps the live rows only, and of their data the revision.         *)
(***************************************************************************)
EXTENDS Naturals, Sequences, FiniteSets

CONSTANTS Handlers,      \* the Store calls that may be under way at a time
          Sources,       \* repository URLs
          Overlapping,   \* the sources for which two of them may be under way
          NoUrl,         \* the empty URL of a manifest file that reports none
          Modules,       \* (language, name) pairs
          Refs,          \* revisions
          NoRef,         \* data without a revision
          NoKey,         \* the empty k3
          Requests,      \* the StoreRequests clients send
          Window         \* messages a stream takes in one direction before Send blocks

VARIABLES table,         \* graph_data
          pc,            \* where a Store call is
          req,           \* its request
          depth,         \* the tier GetStored is at
          unsent,        \* nodes of the tier it has yet to send a request for
          awaited,       \* responses of the tier it has yet to receive
          next,          \* the nodes of the next tier
          stored,        \* the edges it has found
          call           \* its Traverse call: the stream and the server's goroutines

clientVars == <<depth, unsent, awaited, next, stored>>
vars == <<table, pc, req, clientVars, call>>

ASSUME KeyAssumption == /\ (Sources \cup {NoUrl}) \cap Modules = {}
                        /\ NoUrl \notin Sources
                        /\ NoKey \notin Sources \cup Modules \cup {NoUrl}
                        /\ "cancel" \notin Sources \cup Modules

ASSUME WindowAssumption == Window \in Nat /\ IsFiniteSet(Modules)

ManifestFiles == [module : Modules, sourceUrl : Sources \cup {NoUrl}, dependencies : SUBSET Modules]

StoreRequests == [url : Sources, ref : Refs, manifestFiles : SUBSET ManifestFiles]

ASSUME RequestsAssumption == Requests \subseteq StoreRequests

-----------------------------------------------------------------------------
(* Rows (serialization.go, transforms.go).  The digests are collision free *)
(* and keep sources and modules apart.                                     *)

Row(k1, k2, k3) == [k1 |-> k1, k2 |-> k2, k3 |-> k3]

Node(n) == Row(n, n, NoKey)
SourceModule(s, m) == Row(s, m, NoKey)
ModuleDependency(m, d, s) == Row(m, d, s)

RowKeys == {Node(n) : n \in Sources \cup {NoUrl} \cup Modules}
           \cup {SourceModule(s, m) : s \in Sources \cup {NoUrl}, m \in Modules}
           \cup {ModuleDependency(m, d, s) : m \in Modules, d \in Modules, s \in Sources}

\* The nodes and edges of GetProposed.  A file that reports no source is put under
\* the source with the empty URL.
ProposedNodes(r) ==
  {Node(r.url)}
  \cup {Node(f.sourceUrl) : f \in r.manifestFiles}
  \cup {Node(f.module) : f \in r.manifestFiles}
  \cup (UNION {{Node(d) : d \in f.dependencies} : f \in r.manifestFiles})

ProposedEdges(r) ==
  {SourceModule(r.url, f.module) : f \in r.manifestFiles}
  \cup {SourceModule(f.sourceUrl, f.module) : f \in r.manifestFiles}
  \cup (UNION {{ModuleDependency(f.module, d, r.url) : d \in f.dependencies} : f \in r.manifestFiles})

\* A module dependency carries the revision of the request.
GetProposed(r) ==
  [k \in ProposedNodes(r) \cup ProposedEdges(r) |-> IF k.k3 = NoKey THEN NoRef ELSE r.ref]

\* sqlDriver.Put and Delete: one transaction, rolled back at the first error.
Inserted(t, new) ==
  [k \in DOMAIN t \cup DOMAIN new |-> IF k \in DOMAIN new THEN new[k] ELSE t[k]]

Deleted(t, K) == [k \in DOMAIN t \ K |-> t[k]]

NodesFrom(t, n) == {e.k2 : e \in {k \in DOMAIN t : k.k1 = n}}  \* a mutant: nodes for edges

\* Neighbors with From set: the edges that leave a node for a node that is there.
\* (A module that depends on itself has a row that passes for a node.)
NeighborsFrom(t, n) ==
  {e \in DOMAIN t : /\ e.k1 = n /\ e.k1 # e.k2
                    /\ \E g \in DOMAIN t : g.k1 = e.k2 /\ g.k1 = g.k2}

-----------------------------------------------------------------------------
(* The Traverse call of a handler.                                         *)

\* requests and responses are on their way; the reader receives ("recv"), holds a
\* request for a full channel ("hold") or is gone; the server selects, sends an
\* answer or is gone.
NoCall == [requests |-> <<>>, reader |-> "exit", held |-> NoKey, incoming |-> <<>>, done |-> FALSE,
           server |-> "exit", answer |-> {}, responses |-> <<>>]

NewCall == [NoCall EXCEPT !.reader = "recv", !.server = "select"]

\* A Send returns when the window has room, or the receiver is waiting for it.
RoomForRequest(h) ==
  \/ Len(call[h].requests) < Window
  \/ call[h].requests = <<>> /\ call[h].reader = "recv"

RoomForResponse(h) ==
  \/ Len(call[h].responses) < Window
  \/ call[h].responses = <<>> /\ pc[h] = "receive"

IncomingCapacity == 1

ReaderStops == "exit"  \* a mutant: the reader takes one request only

\* Where the loop of the reader goes on.
ReaderLoops == "recv"

\* A request arrives: to cancel, which ends the reader and the call, or for the channel.
ReaderReceives(h) ==
  LET msg == Head(call[h].requests)
  IN /\ call[h].reader = "recv" /\ call[h].requests # <<>> /\ call[h].server # "exit"
     /\ call' = [call EXCEPT
          ![h].requests = Tail(@),
          ![h].done = @ \/ msg = "cancel",
          ![h].reader = IF msg = "cancel" THEN "exit" ELSE "hold",
          ![h].held = IF msg = "cancel" THEN NoKey ELSE msg]
     /\ UNCHANGED <<table, pc, req, clientVars>>

\* A mutant: a request that finds the channel full is dropped.
ReaderDrops(h) ==
  /\ call[h].reader = "hold"
  /\ call' = [call EXCEPT
       ![h].incoming = IF Len(@) < IncomingCapacity THEN Append(@, call[h].held) ELSE @,
       ![h].held = NoKey, ![h].reader = ReaderLoops]
  /\ UNCHANGED <<table, pc, req, clientVars>>

\* incoming <- req.Request
ReaderPasses(h) ==
  /\ call[h].reader = "hold" /\ Len(call[h].incoming) < IncomingCapacity
  /\ call' = [call EXCEPT ![h].incoming = Append(@, call[h].held),
                          ![h].held = NoKey,
                          ![h].reader = ReaderLoops]
  /\ UNCHANGED <<table, pc, req, clientVars>>

\* The stream is cancelled or its connection lost, which closes done.
StreamLost(h) ==
  /\ call[h].server # "exit" /\ ~call[h].done
  /\ call' = [call EXCEPT ![h].done = TRUE]
  /\ UNCHANGED <<table, pc, req, clientVars>>

\* Recv fails or done is closed, since the stream is lost or the handler has returned.
ReaderFails(h) ==
  /\ call[h].reader = "recv" /\ (call[h].server = "exit" \/ call[h].done)
  /\ call' = [call EXCEPT ![h].reader = "exit"]
  /\ UNCHANGED <<table, pc, req, clientVars>>

\* The handler takes a request and asks the driver.
ServerAnswers(h) ==
  /\ call[h].server = "select" /\ call[h].incoming # <<>>
  /\ call' = [call EXCEPT ![h].incoming = Tail(@),
                          ![h].server = "send",
                          ![h].answer = NeighborsFrom(table, Head(call[h].incoming))]
  /\ UNCHANGED <<table, pc, req, clientVars>>

ServerSends(h) ==
  /\ call[h].server = "send" /\ RoomForResponse(h)
  /\ call' = [call EXCEPT ![h].responses = Append(@, call[h].answer),
                          ![h].answer = {},
                          ![h].server = "select"]
  /\ UNCHANGED <<table, pc, req, clientVars>>

\* case <-done
ServerDone(h) ==
  /\ call[h].server = "select" /\ call[h].done
  /\ call' = [call EXCEPT ![h].server = "exit"]
  /\ UNCHANGED <<table, pc, req, clientVars>>

\* The query or the Send fails and the handler returns the error.
ServerFails(h) ==
  /\ \/ /\ call[h].server = "select" /\ call[h].incoming # <<>>
        /\ call' = [call EXCEPT ![h].server = "exit", ![h].incoming = Tail(@)]
     \/ /\ call[h].server = "send"
        /\ call' = [call EXCEPT ![h].server = "exit", ![h].answer = {}]
  /\ UNCHANGED <<table, pc, req, clientVars>>

-----------------------------------------------------------------------------
(* Store.                                                                  *)

NoRequest == [url |-> NoUrl, ref |-> NoRef, manifestFiles |-> {}]

Init ==
  /\ table = [k \in {} |-> NoRef]
  /\ pc = [h \in Handlers |-> "idle"]
  /\ req = [h \in Handlers |-> NoRequest]
  /\ depth = [h \in Handlers |-> 0]
  /\ unsent = [h \in Handlers |-> {}]
  /\ awaited = [h \in Handlers |-> 0]
  /\ next = [h \in Handlers |-> {}]
  /\ stored = [h \in Handlers |-> {}]
  /\ call = [h \in Handlers |-> NoCall]

Busy(h) == pc[h] # "idle"

\* A request arrives and Traverse is called.
Store(h, r) ==
  /\ pc[h] = "idle" /\ (r.url \in Overlapping \/ \A g \in Handlers : Busy(g) => req[g].url # r.url)
  /\ pc' = [pc EXCEPT ![h] = "send"]
  /\ req' = [req EXCEPT ![h] = r]
  /\ unsent' = [unsent EXCEPT ![h] = {r.url}]
  /\ awaited' = [awaited EXCEPT ![h] = 1]
  /\ call' = [call EXCEPT ![h] = NewCall]
  /\ UNCHANGED <<table, depth, next, stored>>

SendRequest(h, n) ==
  /\ pc[h] = "send" /\ n \in unsent[h]
  /\ RoomForRequest(h) /\ call[h].server # "exit"
  /\ unsent' = [unsent EXCEPT ![h] = @ \ {n}]
  /\ pc' = [pc EXCEPT ![h] = IF unsent[h] = {n} THEN "receive" ELSE "send"]
  /\ call' = [call EXCEPT ![h].requests = Append(@, n)]
  /\ UNCHANGED <<table, req, depth, awaited, next, stored>>

\* Mutants: every edge is kept; the count of the responses is one short.
AllEdges(edges, s) == edges
LastResponseEarly(h) == awaited[h] <= 2

\* The edges of the source, and those no source is noted on.
OwnEdges(edges, s) == {e \in edges : e.k3 = NoKey \/ e.k3 = s}

LastResponse(h) == awaited[h] = 1

\* A response; the last one of a tier starts the next tier or ends the reading.
Receive(h) ==
  LET edges == Head(call[h].responses)
      found == next[h] \cup {e.k2 : e \in edges}
  IN /\ pc[h] = "receive" /\ call[h].responses # <<>>
     /\ call' = [call EXCEPT ![h].responses = Tail(@)]
     /\ stored' = [stored EXCEPT ![h] = @ \cup OwnEdges(edges, req[h].url)]
     /\ IF ~LastResponse(h)
        THEN /\ awaited' = [awaited EXCEPT ![h] = @ - 1]
             /\ next' = [next EXCEPT ![h] = found]
             /\ UNCHANGED <<pc, depth, unsent>>
        ELSE IF depth[h] = 0 /\ found # {}
        THEN /\ awaited' = [awaited EXCEPT ![h] = Cardinality(found)]
             /\ unsent' = [unsent EXCEPT ![h] = found]
             /\ depth' = [depth EXCEPT ![h] = 1]
             /\ next' = [next EXCEPT ![h] = {}]
             /\ pc' = [pc EXCEPT ![h] = "send"]
        ELSE /\ awaited' = [awaited EXCEPT ![h] = 0]
             /\ pc' = [pc EXCEPT ![h] = "cancel"]
             /\ UNCHANGED <<depth, unsent, next>>
     /\ UNCHANGED <<table, req>>

\* SendMsg or Recv fails since the server is gone: "failed to retrieve stored data".
ReadFails(h) ==
  /\ call[h].server = "exit"
  /\ \/ pc[h] = "send"
     \/ pc[h] = "receive" /\ call[h].responses = <<>>
  /\ pc' = [pc EXCEPT ![h] = "error"]
  /\ UNCHANGED <<table, req, clientVars, call>>

\* The deferred SendMsg of GetStored, whose error nobody looks at.
SendCancel(h) ==
  /\ pc[h] = "cancel" /\ (RoomForRequest(h) \/ call[h].server = "exit")
  /\ pc' = [pc EXCEPT ![h] = "put"]
  /\ call' = [call EXCEPT ![h].requests = Append(@, "cancel")]
  /\ UNCHANGED <<table, req, clientVars>>

PutProposed(h) ==
  /\ pc[h] = "put"
  /\ table' = Inserted(table, GetProposed(req[h]))
  /\ pc' = [pc EXCEPT ![h] = "delete"]
  /\ UNCHANGED <<req, clientVars, call>>

\* Put fails, with or without having committed; Store returns or the call is retried.
PutFails(h) ==
  /\ pc[h] = "put"
  /\ table' \in {table, Inserted(table, GetProposed(req[h]))}
  /\ pc' \in {[pc EXCEPT ![h] = "error"], pc}
  /\ UNCHANGED <<req, clientVars, call>>

ModulesOnly(h) == {e \in stored[h] \ ProposedEdges(req[h]) : e.k3 = NoKey}  \* a mutant

EdgesToDelete(h) == stored[h] \ ProposedEdges(req[h])

DeleteOutdated(h) ==
  /\ pc[h] = "delete"
  /\ table' = Deleted(table, EdgesToDelete(h))
  /\ pc' = [pc EXCEPT ![h] = "ok"]
  /\ UNCHANGED <<req, clientVars, call>>

DeleteFails(h) ==
  /\ pc[h] = "delete"
  /\ table' \in {table, Deleted(table, EdgesToDelete(h))}
  /\ pc' \in {[pc EXCEPT ![h] = "error"], pc}
  /\ UNCHANGED <<req, clientVars, call>>

\* The reader has ended, or waits for ever for a handler that is gone.
ReaderGone(h) ==
  \/ call[h].reader = "exit"
  \/ call[h].reader = "hold" /\ Len(call[h].incoming) = IncomingCapacity

\* Store has returned and its Traverse call is over.
Finish(h) ==
  /\ pc[h] \in {"ok", "error"}
  /\ call[h].server = "exit" /\ ReaderGone(h)
  /\ pc' = [pc EXCEPT ![h] = "idle"]
  /\ req' = [req EXCEPT ![h] = NoRequest]
  /\ depth' = [depth EXCEPT ![h] = 0]
  /\ unsent' = [unsent EXCEPT ![h] = {}]
  /\ awaited' = [awaited EXCEPT ![h] = 0]
  /\ next' = [next EXCEPT ![h] = {}]
  /\ stored' = [stored EXCEPT ![h] = {}]
  /\ call' = [call EXCEPT ![h] = NoCall]
  /\ UNCHANGED table

Reader(h) == ReaderReceives(h) \/ ReaderPasses(h) \/ ReaderFails(h)

Server(h) == ServerAnswers(h) \/ ServerSends(h) \/ ServerDone(h)

\* On a lost stream a query or a Send that waits returns an error.
ServerAborts(h) == call[h].done /\ ServerFails(h)

Client(h) == \/ \E n \in Sources \cup Modules : SendRequest(h, n)
             \/ Receive(h) \/ ReadFails(h) \/ SendCancel(h)
             \/ PutProposed(h) \/ DeleteOutdated(h) \/ Finish(h)

Next == \E h \in Handlers : \/ \E r \in Requests : Store(h, r)
                            \/ Client(h) \/ Reader(h) \/ Server(h)
                            \/ StreamLost(h) \/ ServerFails(h) \/ PutFails(h) \/ DeleteFails(h)

Spec == Init /\ [][Next]_vars

-----------------------------------------------------------------------------
(* Properties.                                                             *)

\* Rows have row keys, the streams carry nodes to the server and sets of edges back.
TypeOK ==
  /\ DOMAIN table \subseteq RowKeys
  /\ \A k \in DOMAIN table : table[k] \in Refs \cup {NoRef}
  /\ \A h \in Handlers :
       /\ pc[h] \in {"idle", "send", "receive", "cancel", "put", "delete", "ok", "error"}
       /\ req[h] \in Requests \cup {NoRequest}
       /\ depth[h] \in {0, 1} /\ awaited[h] \in Nat
       /\ unsent[h] \subseteq Sources \cup Modules /\ next[h] \subseteq Modules
       /\ stored[h] \subseteq RowKeys
       /\ call[h].requests \in Seq(Sources \cup Modules \cup {"cancel"})
       /\ call[h].incoming \in Seq(Sources \cup Modules)
       /\ call[h].responses \in Seq(SUBSET RowKeys)

\* Messages of the tier that are between the client's Send and its Recv.
InFlight(h) ==
  Len(call[h].requests) + Len(call[h].incoming) + Len(call[h].responses)
  + (IF call[h].reader = "hold" THEN 1 ELSE 0) + (IF call[h].server = "send" THEN 1 ELSE 0)

\* GetStored counts responses and never looks which request they answer: as long as
\* the server is there, what it waits for is exactly what it has not sent yet and
\* what is in flight, so that no tier ends early or takes in answers of another.
ResponsesMatch ==
  \A h \in Handlers :
    (pc[h] \in {"send", "receive"} /\ call[h].server # "exit") =>
      awaited[h] = Cardinality(unsent[h]) + InFlight(h)

\* When Store returns without an error, the dependencies stored for its source are
\* those of the request at its revision and its modules are its own; the calls for
\* other sources that ran meanwhile, and earlier failures between the Put and the
\* Delete, notwithstanding.  (Where Stores of one source overlap this is not so.)
StoredExactly ==
  \A h \in Handlers : (pc[h] = "ok" /\ req[h].url \notin Overlapping) =>
    LET r == req[h]
    IN /\ \A m, d \in Modules : m # d =>
            (ModuleDependency(m, d, r.url) \in DOMAIN table
               <=> ModuleDependency(m, d, r.url) \in ProposedEdges(r))
       /\ \A e \in ProposedEdges(r) : e.k3 = r.url => table[e] = r.ref
       /\ \A f \in r.manifestFiles : SourceModule(r.url, f.module) \in DOMAIN table

\* A dependency is stored for a source only while the source has the module: the
\* traversal reaches every edge that a later Store may have to delete.  (Stores of the
\* source that overlap can break it.)
NothingUnreachable ==
  \A e \in DOMAIN table :
    (e.k3 \in Sources \ Overlapping /\ e.k1 # e.k2) => SourceModule(e.k3, e.k1) \in DOMAIN table

\* A Store that has read what it wanted leaves no goroutine of the server behind that
\* holds a request nobody takes.  (One whose Traverse failed may.)
NoReaderLeft ==
  \A h \in Handlers : pc[h] \in {"cancel", "put", "delete", "ok"} => call[h].reader # "hold"

\* The tier is larger than what a Traverse call takes in before the client's first
\* Recv: both windows, the reader, the channel and the handler.
TierTooLarge(h) == awaited[h] > 2 * Window + 2 + IncomingCapacity

\* Every Store call that is under way can go on by itself, at the client, the reader or
\* the handler, with the stream lost or not: nobody waits for somebody who waits for him,
\* and the reader holds no call up.  The one exception is a tier so large that client,
\* reader and handler wait for each other, since the client sends all of it before it
\* receives anything.  (Each of these steps brings the call nearer to its end.)
CallGoesOn ==
  \A h \in Handlers : Busy(h) =>
    \/ ENABLED (Client(h) \/ Reader(h) \/ Server(h) \/ ServerAborts(h))
    \/ pc[h] = "send" /\ TierTooLarge(h)

\* The step removes rows of a Store at its Delete only: a dependency of its source or
\* a module of it, and no node.
RemovesOwnRows ==
  \A k \in DOMAIN table \ DOMAIN table' :
    /\ k.k1 # k.k2
    /\ \E h \in Handlers :
         pc[h] = "delete" /\ (k.k3 = req[h].url \/ (k.k3 = NoKey /\ k.k1 = req[h].url))

\* Overlapping Stores, of one source too, with what they have read gone stale and their
\* deletes retried, never take away a node, a dependency stored for another source or
\* a module of another source.  (The module may have been reported for the source by
\* another one.)
ForeignRowsKept == [][RemovesOwnRows]_vars
=============================================================================
