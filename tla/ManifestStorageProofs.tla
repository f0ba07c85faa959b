----------------------- MODULE ManifestStorageProofs -----------------------
(***************************************************************************)
(* What a Store of the manifest storage service achieves, for every set of *)
(* handlers, sources, modules and requests and every stream window:        *)
(* GetStored gets exactly the responses it waits for and leaves no reader  *)
(* behind, and a Store removes rows of its own source only.  If the Stores *)
(* of the source do not overlap, GetStored reaches every edge that the     *)
(* Delete may have to remove, so that the dependencies stored for the      *)
(* source are those of the request, whatever overlaps for other sources.   *)
(*                                                                         *)
(* The invariant has three parts.  A count: what the client waits for is   *)
(* what it has not sent and what is in flight.  A search: a dependency of  *)
(* the source is in the result, in an answer, or leaves a node that was    *)
(* not answered for yet.  And ownership: only the Store of a source writes *)
(* or deletes the source's dependencies, and deletes its modules.          *)
(***************************************************************************)
EXTENDS ManifestStorage, FiniteSetTheorems, SequenceTheorems, TLAPS

Nodes == Sources \cup Modules

\* The rows that are edges between two nodes.
EdgeKeys == {k \in RowKeys : k.k1 # k.k2}

CallRecords ==
  [requests : Seq(Nodes \cup {"cancel"}), reader : {"recv", "hold", "exit"},
   held : Nodes \cup {NoKey}, incoming : Seq(Nodes), done : BOOLEAN,
   server : {"select", "send", "exit"}, answer : SUBSET EdgeKeys,
   responses : Seq(SUBSET EdgeKeys)]

TypeInv ==
  /\ DOMAIN table \subseteq RowKeys /\ \A k \in DOMAIN table : table[k] \in Refs \cup {NoRef}
  /\ pc \in [Handlers -> {"idle", "send", "receive", "cancel", "put", "delete", "ok", "error"}]
  /\ req \in [Handlers -> Requests \cup {NoRequest}]
  /\ depth \in [Handlers -> {0, 1}] /\ awaited \in [Handlers -> Nat]
  /\ unsent \in [Handlers -> SUBSET Nodes] /\ next \in [Handlers -> SUBSET Modules]
  /\ stored \in [Handlers -> SUBSET EdgeKeys]
  /\ call \in [Handlers -> CallRecords]
  /\ \A h \in Handlers : call[h].reader = "hold" => call[h].held \in Nodes

-----------------------------------------------------------------------------
(* The parts of the invariant, for the Store of the handler h.             *)

Reading(h) == pc[h] \in {"send", "receive"}

\* A Store works on a request; before it nothing is left of the last one.
OwnRequest(h) ==
  IF Busy(h) THEN req[h] \in Requests
  ELSE depth[h] = 0 /\ stored[h] = {}

Elements(s) == {s[i] : i \in 1..Len(s)}

\* The nodes of the tier that were not answered for yet.
Asked(h) ==
  unsent[h] \cup Elements(call[h].requests) \cup Elements(call[h].incoming)
  \cup (IF call[h].reader = "hold" THEN {call[h].held} ELSE {})

\* The edges on their way to the client.
Answers(h) ==
  (UNION Elements(call[h].responses)) \cup (IF call[h].server = "send" THEN call[h].answer ELSE {})

\* The first tier is the source, the second one modules.
Tier(h) == IF depth[h] = 0 THEN {req[h].url} ELSE Modules

\* The count of the tier; a server that is gone may have taken a message with it.
Counted(h) ==
  Reading(h) =>
    /\ call[h].server # "exit" => awaited[h] = Cardinality(unsent[h]) + InFlight(h)
    /\ awaited[h] >= Cardinality(unsent[h]) + InFlight(h)
    /\ "cancel" \notin Elements(call[h].requests)
    /\ Asked(h) \subseteq Tier(h)
    /\ pc[h] = "receive" => unsent[h] = {}
    /\ depth[h] = 0 => awaited[h] = 1

\* After the reading only the cancel is in flight.
Quiet(h) ==
  pc[h] \in {"cancel", "put", "delete", "ok"} =>
    /\ call[h].incoming = <<>> /\ call[h].reader # "hold" /\ call[h].server # "send"
    /\ call[h].requests = <<>> \/ (pc[h] # "cancel" /\ call[h].requests = <<"cancel">>)

\* e is a dependency stored for the source of h, whose Stores do not overlap.
Dependency(e, h) ==
  e \in DOMAIN table /\ e.k3 = req[h].url /\ e.k3 \in Sources \ Overlapping /\ e.k1 # e.k2

\* No message of the tier is lost.
Complete(h) == awaited[h] = Cardinality(unsent[h]) + InFlight(h)

\* What the reading has found, or is about to find.
Collected(h) ==
  (Reading(h) /\ Complete(h)) =>
    /\ depth[h] = 0 =>
         \/ req[h].url \in Asked(h)
         \/ \A e \in RowKeys : Dependency(e, h) => SourceModule(req[h].url, e.k1) \in Answers(h)
    /\ depth[h] = 1 =>
         \A e \in RowKeys : Dependency(e, h) => e.k1 \in Asked(h) \/ e \in Answers(h) \cup stored[h]

\* Answers and results are edges that leave the source or a module; of the latter the
\* result has the source's own only.
OwnResults(h) ==
  /\ Reading(h) => \A e \in Answers(h) : e.k1 \in {req[h].url} \cup Modules
  /\ \A e \in stored[h] : (e.k1 = req[h].url /\ e.k3 = NoKey) \/ e.k3 = req[h].url

\* When the reading is over, every dependency of the source was found or is proposed.
FoundAll(h) ==
  pc[h] \in {"cancel", "put", "delete", "ok"} =>
    \A e \in RowKeys : Dependency(e, h) =>
      \/ pc[h] # "ok" /\ e \in stored[h]
      \/ pc[h] # "cancel" /\ e \in ProposedEdges(req[h])

\* After the Put what is proposed is there.
PutThere(h) ==
  (pc[h] \in {"delete", "ok"} /\ req[h].url \notin Overlapping) =>
    /\ \A e \in ProposedEdges(req[h]) :
         e.k3 = req[h].url => e \in DOMAIN table /\ table[e] = req[h].ref
    /\ \A f \in req[h].manifestFiles : SourceModule(req[h].url, f.module) \in DOMAIN table

HandlerInv(h) == /\ OwnRequest(h) /\ Counted(h) /\ Quiet(h) /\ Collected(h)
                 /\ OwnResults(h) /\ FoundAll(h) /\ PutThere(h)

\* The node an edge leads to is there.
NodesThere == \A e \in DOMAIN table : Node(e.k2) \in DOMAIN table

\* The Stores under way are for different sources, or for one whose Stores overlap.
Apart ==
  \A g, h \in Handlers :
    (Busy(g) /\ Busy(h) /\ req[g].url = req[h].url) => g = h \/ req[g].url \in Overlapping

\* The inductive invariant.
IInv == TypeInv /\ NodesThere /\ NothingUnreachable /\ Apart /\ \A h \in Handlers : HandlerInv(h)

-----------------------------------------------------------------------------
(* Sequences as the sets of their elements.                                *)

\* Append adds one element.
LEMMA ElementsAppend ==
  ASSUME NEW S, NEW s \in Seq(S), NEW x \in S
  PROVE  /\ Append(s, x) \in Seq(S) /\ Len(Append(s, x)) = Len(s) + 1
         /\ Elements(Append(s, x)) = Elements(s) \cup {x}
<1>1. /\ Append(s, x) \in Seq(S) /\ Len(Append(s, x)) = Len(s) + 1 /\ Len(s) \in Nat
      /\ \A i \in 1..Len(s) : Append(s, x)[i] = s[i]
      /\ Append(s, x)[Len(s) + 1] = x
  BY AppendProperties, LenProperties
<1>2. \A i : i \in 1..Len(Append(s, x)) <=> i \in 1..Len(s) \/ i = Len(s) + 1
  BY <1>1
<1>3. QED
  BY <1>1, <1>2 DEF Elements

\* Tail may take one away, the head.
LEMMA ElementsTail ==
  ASSUME NEW S, NEW s \in Seq(S), s # <<>>
  PROVE  /\ Tail(s) \in Seq(S) /\ Len(Tail(s)) = Len(s) - 1 /\ Len(s) \in Nat \ {0}
         /\ Head(s) \in S /\ Elements(s) = Elements(Tail(s)) \cup {Head(s)}
<1>1. /\ Tail(s) \in Seq(S) /\ Len(Tail(s)) = Len(s) - 1 /\ Len(s) \in Nat \ {0}
      /\ Head(s) = s[1] /\ Head(s) \in S
      /\ \A i \in 1..Len(Tail(s)) : Tail(s)[i] = s[i + 1]
  BY HeadTailProperties, LenProperties, ElementOfSeq, EmptySeq
<1>2. ASSUME NEW i \in 1..Len(s) PROVE s[i] \in Elements(Tail(s)) \cup {Head(s)}
  <2>1. CASE i = 1
    BY <1>1, <2>1
  <2>2. CASE i # 1
    <3>1. i - 1 \in 1..Len(Tail(s)) /\ (i - 1) + 1 = i
      BY <1>1, <2>2
    <3>2. QED
      BY <1>1, <3>1 DEF Elements
  <2>3. QED
    BY <2>1, <2>2
<1>3. 1 \in 1..Len(s) /\ \A i \in 1..Len(Tail(s)) : i + 1 \in 1..Len(s)
  BY <1>1
<1>4. QED
  BY <1>1, <1>2, <1>3 DEF Elements

\* The empty sequence has none, and its length tells it.
LEMMA ElementsEmpty ==
  ASSUME NEW S, NEW s \in Seq(S)
  PROVE  /\ Len(s) \in Nat /\ (Len(s) = 0 <=> s = <<>>)
         /\ s = <<>> => Elements(s) = {}
         /\ Elements(s) \subseteq S
  BY EmptySeq, LenProperties, ElementOfSeq DEF Elements

-----------------------------------------------------------------------------
(* Rows and requests.                                                      *)

\* A row with a k3 is a dependency between modules; an edge without one leads from a
\* source to a module.
LEMMA RowFacts ==
  ASSUME NEW e \in RowKeys
  PROVE  /\ e.k3 = NoKey \/ e.k3 \in Sources
         /\ e.k3 \in Sources => e.k1 \in Modules /\ e.k2 \in Modules
         /\ (e.k1 # e.k2 /\ e.k3 = NoKey) => e = SourceModule(e.k1, e.k2) /\ e.k1 \in Sources \cup {NoUrl}
         /\ e.k1 # e.k2 => e.k2 \in Modules
<1>1. CASE \E n \in Sources \cup {NoUrl} \cup Modules : e = Node(n)
  BY <1>1, KeyAssumption DEF Node, Row
<1>2. CASE \E s \in Sources \cup {NoUrl}, m \in Modules : e = SourceModule(s, m)
  BY <1>2, KeyAssumption DEF SourceModule, Row
<1>3. CASE \E m \in Modules, d \in Modules, s \in Sources : e = ModuleDependency(m, d, s)
  BY <1>3, KeyAssumption DEF ModuleDependency, Row
<1>4. QED
  BY <1>1, <1>2, <1>3 DEF RowKeys

\* What a request proposes: nodes, with the one every edge leads to, and edges, each
\* dependency with the module of the source that it leaves.
LEMMA ProposedFacts ==
  ASSUME NEW r \in Requests
  PROVE  /\ r.url \in Sources /\ r.ref \in Refs
         /\ ProposedNodes(r) \subseteq RowKeys /\ ProposedEdges(r) \subseteq RowKeys
         /\ \A n \in ProposedNodes(r) : n.k1 = n.k2 /\ n.k3 = NoKey /\ Node(n.k2) \in ProposedNodes(r)
         /\ \A e \in ProposedEdges(r) :
              /\ Node(e.k2) \in ProposedNodes(r)
              /\ e.k3 = NoKey \/ (e.k3 = r.url /\ SourceModule(r.url, e.k1) \in ProposedEdges(r))
         /\ \A f \in r.manifestFiles : SourceModule(r.url, f.module) \in ProposedEdges(r)
<1> DEFINE F == r.manifestFiles
<1>1. /\ r.url \in Sources /\ r.ref \in Refs
      /\ \A f \in F : f.module \in Modules /\ f.sourceUrl \in Sources \cup {NoUrl}
                      /\ f.dependencies \subseteq Modules
  BY RequestsAssumption DEF StoreRequests, ManifestFiles
<1>2. ASSUME NEW n \in ProposedNodes(r)
      PROVE  n \in RowKeys /\ n.k1 = n.k2 /\ n.k3 = NoKey /\ Node(n.k2) \in ProposedNodes(r)
  <2>1. PICK x \in Sources \cup {NoUrl} \cup Modules : n = Node(x)
    BY <1>1, <1>2 DEF ProposedNodes
  <2>2. n \in RowKeys /\ n.k1 = x /\ n.k2 = x /\ n.k3 = NoKey
    BY <2>1 DEF RowKeys, Node, Row
  <2>3. QED
    BY <1>2, <2>1, <2>2
<1>3. ASSUME NEW e \in ProposedEdges(r)
      PROVE  /\ e \in RowKeys /\ Node(e.k2) \in ProposedNodes(r)
             /\ e.k3 = NoKey \/ (e.k3 = r.url /\ SourceModule(r.url, e.k1) \in ProposedEdges(r))
  <2>1. CASE \E f \in F : e = SourceModule(r.url, f.module) \/ e = SourceModule(f.sourceUrl, f.module)
    <3>1. PICK f \in F : e = SourceModule(r.url, f.module) \/ e = SourceModule(f.sourceUrl, f.module)
      BY <2>1
    <3>2. e \in RowKeys
      BY <1>1, <3>1 DEF RowKeys
    <3>3. e.k3 = NoKey /\ e.k2 = f.module
      BY <3>1 DEF SourceModule, Row
    <3>4. QED
      BY <3>2, <3>3 DEF ProposedNodes
  <2>2. CASE \E f \in F : \E d \in f.dependencies : e = ModuleDependency(f.module, d, r.url)
    <3>0. PICK f \in F : \E d \in f.dependencies : e = ModuleDependency(f.module, d, r.url)
      BY <2>2
    <3>1. PICK d \in f.dependencies : e = ModuleDependency(f.module, d, r.url)
      BY <3>0
    <3>2. e \in RowKeys
      BY <1>1, <3>1 DEF RowKeys
    <3>3. e.k3 = r.url /\ e.k2 = d /\ e.k1 = f.module
      BY <3>1 DEF ModuleDependency, Row
    <3>4. Node(d) \in ProposedNodes(r)
      BY DEF ProposedNodes
    <3>5. SourceModule(r.url, f.module) \in ProposedEdges(r)
      BY DEF ProposedEdges
    <3>6. QED
      BY <3>2, <3>3, <3>4, <3>5
  <2>3. QED
    BY <1>3, <2>1, <2>2 DEF ProposedEdges
<1>4. \A f \in F : SourceModule(r.url, f.module) \in ProposedEdges(r)
  BY DEF ProposedEdges
<1>5. QED
  BY <1>1, <1>2, <1>3, <1>4

\* Put adds the proposed rows and changes no others; those with a k3 get the revision.
LEMMA InsertedFacts ==
  ASSUME NEW r \in Requests, NEW t
  PROVE  LET new == Inserted(t, GetProposed(r))
         IN /\ DOMAIN new = DOMAIN t \cup ProposedNodes(r) \cup ProposedEdges(r)
            /\ \A e \in DOMAIN t : e \notin ProposedNodes(r) \cup ProposedEdges(r) => new[e] = t[e]
            /\ \A e \in ProposedNodes(r) \cup ProposedEdges(r) :
                 new[e] = IF e.k3 = NoKey THEN NoRef ELSE r.ref
<1>1. /\ DOMAIN GetProposed(r) = ProposedNodes(r) \cup ProposedEdges(r)
      /\ \A e \in ProposedNodes(r) \cup ProposedEdges(r) :
           GetProposed(r)[e] = IF e.k3 = NoKey THEN NoRef ELSE r.ref
  BY DEF GetProposed
<1>2. QED
  BY <1>1 DEF Inserted

-----------------------------------------------------------------------------
(* Frames.                                                                 *)

\* No variable of the Store of g changes.
Untouched(g) ==
  /\ pc'[g] = pc[g] /\ req'[g] = req[g] /\ depth'[g] = depth[g] /\ unsent'[g] = unsent[g]
  /\ awaited'[g] = awaited[g] /\ next'[g] = next[g] /\ stored'[g] = stored[g]
  /\ call'[g] = call[g]

\* The rows that the Store of g relies on, unless it may overlap with others of its
\* source: its dependencies stay as they are, its modules are not lost.
RowsKept(g) ==
  (Busy(g) /\ req[g].url \notin Overlapping) =>
    /\ \A e \in RowKeys : e.k3 = req[g].url =>
         /\ e \in DOMAIN table' <=> e \in DOMAIN table
         /\ e \in DOMAIN table => table'[e] = table[e]
    /\ \A m \in Modules :
         SourceModule(req[g].url, m) \in DOMAIN table => SourceModule(req[g].url, m) \in DOMAIN table'

\* A Store that starts is for a source that has none under way, or whose Stores overlap.
StaysApart(h) ==
  Busy(h)' => \/ Busy(h) /\ req'[h] = req[h]
              \/ req'[h].url \in Overlapping
              \/ \A g \in Handlers \ {h} : Busy(g) => req[g].url # req'[h].url

\* An untouched Store keeps its part of the invariant.
LEMMA UntouchedKept ==
  ASSUME TypeInv, NEW g \in Handlers, HandlerInv(g), Untouched(g), RowsKept(g)
  PROVE  HandlerInv(g)'
<1> USE DEF Untouched
<1>1. /\ InFlight(g)' = InFlight(g) /\ Asked(g)' = Asked(g) /\ Answers(g)' = Answers(g)
      /\ Tier(g)' = Tier(g) /\ (Reading(g)' <=> Reading(g)) /\ (Busy(g)' <=> Busy(g))
  BY DEF InFlight, Asked, Answers, Tier, Reading, Busy
<1>2. Busy(g) => \A e \in RowKeys : Dependency(e, g)' <=> Dependency(e, g)
  BY DEF Dependency, RowsKept
<1>3. OwnRequest(g)' /\ Quiet(g)'
  BY <1>1 DEF HandlerInv, OwnRequest, Quiet
<1>4. Counted(g)'
  BY <1>1 DEF HandlerInv, Counted
<1>5. Collected(g)'
  BY <1>1, <1>2 DEF HandlerInv, Collected, Complete, Reading, Busy
<1>6. OwnResults(g)'
  BY <1>1 DEF HandlerInv, OwnResults
<1>7. FoundAll(g)'
  BY <1>2 DEF HandlerInv, FoundAll, Busy
<1>8. PutThere(g)'
  <2>1. SUFFICES ASSUME pc[g] \in {"delete", "ok"}, req[g].url \notin Overlapping PROVE PutThere(g)'
    BY DEF PutThere
  <2>2. req[g] \in Requests
    BY <2>1 DEF HandlerInv, OwnRequest, Busy
  <2>3. /\ ProposedEdges(req[g]) \subseteq RowKeys
        /\ \A f \in req[g].manifestFiles : f.module \in Modules
    BY <2>2, ProposedFacts, RequestsAssumption DEF StoreRequests, ManifestFiles
  <2>4. QED
    BY <2>1, <2>3 DEF HandlerInv, PutThere, RowsKept, Busy
<1>9. QED
  BY <1>3, <1>4, <1>5, <1>6, <1>7, <1>8 DEF HandlerInv

\* A step of one Store that leaves the table alone keeps the invariant, if it keeps
\* the types and the Store's own part.
LEMMA TableKept ==
  ASSUME IInv, NEW h \in Handlers, UNCHANGED table, \A g \in Handlers \ {h} : Untouched(g),
         StaysApart(h), TypeInv', HandlerInv(h)'
  PROVE  IInv'
<1>0. Apart'
  BY DEF IInv, Apart, StaysApart, Untouched, Busy
<1>1. NodesThere' /\ NothingUnreachable'
  BY DEF IInv, NodesThere, NothingUnreachable
<1>2. ASSUME NEW g \in Handlers \ {h} PROVE HandlerInv(g)'
  <2>1. RowsKept(g)
    BY DEF RowsKept
  <2>2. QED
    BY <2>1, UntouchedKept DEF IInv
<1>3. QED
  BY <1>0, <1>1, <1>2 DEF IInv

-----------------------------------------------------------------------------
(* Every action keeps the invariant.                                       *)

\* Nothing is stored and nothing runs at first.
LEMMA StoreStarts == Init => IInv
<1> SUFFICES ASSUME Init PROVE IInv
  OBVIOUS
<1> USE DEF Init
<1>1. DOMAIN table = {}
  OBVIOUS
<1>2. NoCall \in CallRecords /\ NoCall.reader # "hold"
  <2>1. <<>> \in Seq(Nodes \cup {"cancel"}) /\ <<>> \in Seq(Nodes) /\ <<>> \in Seq(SUBSET EdgeKeys)
    BY EmptySeq
  <2>2. QED
    BY <2>1 DEF NoCall, CallRecords
<1>3. TypeInv
  BY <1>1, <1>2 DEF TypeInv
<1>4. NodesThere /\ NothingUnreachable /\ Apart
  BY <1>1 DEF NodesThere, NothingUnreachable, Apart, Busy
<1>5. \A h \in Handlers : HandlerInv(h)
  BY DEF HandlerInv, OwnRequest, Counted, Quiet, Collected, OwnResults, FoundAll, PutThere,
         Busy, Reading
<1>6. QED
  BY <1>3, <1>4, <1>5 DEF IInv

\* A step of the server's goroutines: only the Traverse call changes.
LEMMA ServerSide ==
  ASSUME IInv, NEW h \in Handlers, UNCHANGED <<table, pc, req, clientVars>>,
         call' \in [Handlers -> CallRecords], \A g \in Handlers \ {h} : call'[g] = call[g],
         call'[h].reader = "hold" => call'[h].held \in Nodes,
         Counted(h)', Quiet(h)', Collected(h)',
         Reading(h) => \A e \in Answers(h)' : e.k1 \in {req[h].url} \cup Modules
  PROVE  IInv'
<1> USE DEF clientVars
<1>1. TypeInv'
  <2>1. \A g \in Handlers : call'[g].reader = "hold" => call'[g].held \in Nodes
    BY DEF IInv, TypeInv
  <2>2. QED
    BY <2>1 DEF IInv, TypeInv
<1>2. \A g \in Handlers \ {h} : Untouched(g)
  BY DEF Untouched
<1>3. OwnRequest(h)' /\ FoundAll(h)' /\ PutThere(h)'
  BY DEF IInv, HandlerInv, OwnRequest, Busy, FoundAll, Dependency, PutThere
<1>4. OwnResults(h)'
  BY DEF IInv, HandlerInv, OwnResults, Reading
<1>5. HandlerInv(h)'
  BY <1>3, <1>4 DEF HandlerInv
<1>6. StaysApart(h)
  BY DEF StaysApart, Busy
<1>7. QED
  BY <1>1, <1>2, <1>5, <1>6, TableKept

\* A message that moves on, or a party that leaves without one: nothing is counted or
\* collected otherwise.
LEMMA MessageMoves ==
  ASSUME IInv, NEW h \in Handlers, UNCHANGED <<table, pc, req, clientVars>>,
         call' \in [Handlers -> CallRecords], \A g \in Handlers \ {h} : call'[g] = call[g],
         call'[h].reader = "hold" => call'[h].held \in Nodes, Quiet(h)',
         Reading(h) =>
           /\ InFlight(h)' = InFlight(h) /\ Asked(h)' = Asked(h) /\ Answers(h)' = Answers(h)
           /\ call[h].server = "exit" => call'[h].server = "exit"
           /\ "cancel" \notin Elements(call'[h].requests)
  PROVE  IInv'
<1> USE DEF clientVars
<1>0. HandlerInv(h) /\ (Reading(h)' <=> Reading(h)) /\ Tier(h)' = Tier(h)
  BY DEF IInv, Reading, Tier
<1>1. Counted(h)'
  BY <1>0 DEF HandlerInv, Counted
<1>2. Collected(h)'
  <2>1. \A e \in RowKeys : Dependency(e, h)' <=> Dependency(e, h)
    BY DEF Dependency
  <2>2. QED
    BY <1>0, <2>1 DEF HandlerInv, Collected, Complete
<1>3. Reading(h) => \A e \in Answers(h)' : e.k1 \in {req[h].url} \cup Modules
  BY <1>0 DEF HandlerInv, OwnResults
<1>4. QED
  BY <1>1, <1>2, <1>3, ServerSide

\* The lengths of what is on its way, as numbers of their own.
LEMMA Lengths ==
  ASSUME NEW c \in CallRecords
  PROVE  \E q, i, p \in Nat : q = Len(c.requests) /\ i = Len(c.incoming) /\ p = Len(c.responses)
  BY LenProperties DEF CallRecords

\* While the client reads, a request moves on to the reader; afterwards only the cancel can.
LEMMA ReaderReceivesKeeps ==
  ASSUME IInv, NEW h \in Handlers, ReaderReceives(h)
  PROVE  IInv'
<1> DEFINE c == call[h]
           msg == Head(c.requests)
<1>1. /\ c \in CallRecords /\ c.requests # <<>> /\ c.reader = "recv"
      /\ HandlerInv(h) /\ call \in [Handlers -> CallRecords]
  BY DEF IInv, TypeInv, ReaderReceives
<1>2. /\ Tail(c.requests) \in Seq(Nodes \cup {"cancel"}) /\ msg \in Nodes \cup {"cancel"}
      /\ Len(c.requests) \in Nat /\ Len(Tail(c.requests)) = Len(c.requests) - 1
      /\ Elements(c.requests) = Elements(Tail(c.requests)) \cup {msg}
  BY <1>1, ElementsTail DEF CallRecords
<1>3. /\ call'[h].requests = Tail(c.requests) /\ call'[h].done = (c.done \/ msg = "cancel")
      /\ call'[h].reader = IF msg = "cancel" THEN "exit" ELSE "hold"
      /\ call'[h].held = IF msg = "cancel" THEN NoKey ELSE msg
      /\ call'[h].incoming = c.incoming /\ call'[h].server = c.server
      /\ call'[h].answer = c.answer /\ call'[h].responses = c.responses
  BY <1>1 DEF ReaderReceives, CallRecords
<1>4. call' \in [Handlers -> CallRecords] /\ \A g \in Handlers \ {h} : call'[g] = call[g]
  <2>1. (c.done \/ msg = "cancel") \in BOOLEAN
    OBVIOUS
  <2>2. QED
    BY <1>1, <1>2, <2>1 DEF ReaderReceives, CallRecords
<1>5. call'[h].reader = "hold" => call'[h].held \in Nodes
  BY <1>2, <1>3
<1>6. Quiet(h)'
  <2>1. SUFFICES ASSUME pc[h] \in {"cancel", "put", "delete", "ok"} PROVE Quiet(h)'
    BY DEF Quiet, ReaderReceives
  <2>2. c.requests = <<"cancel">> /\ pc[h] # "cancel"
    BY <1>1, <2>1 DEF HandlerInv, Quiet
  <2>3. msg = "cancel" /\ Tail(c.requests) = <<>>
    BY <2>2
  <2>4. QED
    BY <1>1, <1>3, <2>1, <2>3 DEF HandlerInv, Quiet, ReaderReceives
<1>7. ASSUME Reading(h)
      PROVE  /\ InFlight(h)' = InFlight(h) /\ Asked(h)' = Asked(h) /\ Answers(h)' = Answers(h)
             /\ call[h].server = "exit" => call'[h].server = "exit"
             /\ "cancel" \notin Elements(call'[h].requests)
  <2>1. msg # "cancel" /\ "cancel" \notin Elements(Tail(c.requests))
    BY <1>1, <1>2, <1>7 DEF HandlerInv, Counted
  <2>2. PICK q, i, p \in Nat : q = Len(c.requests) /\ i = Len(c.incoming) /\ p = Len(c.responses)
    BY <1>1, Lengths
  <2>3. InFlight(h)' = InFlight(h)
    <3> DEFINE sending == IF c.server = "send" THEN 1 ELSE 0
    <3>1. InFlight(h) = q + i + p + 0 + sending
      BY <1>1, <2>2 DEF InFlight
    <3>2. InFlight(h)' = (q - 1) + i + p + 1 + sending
      BY <1>2, <1>3, <2>1, <2>2 DEF InFlight
    <3>3. sending \in Nat
      OBVIOUS
    <3> HIDE DEF sending
    <3>4. QED
      BY <3>1, <3>2, <3>3
  <2>4. Asked(h)' = Asked(h)
    BY <1>1, <1>2, <1>3, <2>1 DEF Asked, ReaderReceives, clientVars
  <2>5. Answers(h)' = Answers(h)
    BY <1>3 DEF Answers
  <2>6. QED
    BY <1>3, <2>1, <2>3, <2>4, <2>5
<1>8. QED
  BY <1>4, <1>5, <1>6, <1>7, MessageMoves DEF ReaderReceives

\* A request moves on to the channel.
LEMMA ReaderPassesKeeps ==
  ASSUME IInv, NEW h \in Handlers, ReaderPasses(h)
  PROVE  IInv'
<1> DEFINE c == call[h]
<1>1. /\ c \in CallRecords /\ c.reader = "hold" /\ c.held \in Nodes
      /\ HandlerInv(h) /\ call \in [Handlers -> CallRecords]
  BY DEF IInv, TypeInv, ReaderPasses
<1>2. /\ Append(c.incoming, c.held) \in Seq(Nodes)
      /\ Len(c.incoming) \in Nat /\ Len(Append(c.incoming, c.held)) = Len(c.incoming) + 1
      /\ Elements(Append(c.incoming, c.held)) = Elements(c.incoming) \cup {c.held}
  BY <1>1, ElementsAppend, LenProperties DEF CallRecords
<1>3. /\ call'[h].incoming = Append(c.incoming, c.held) /\ call'[h].held = NoKey
      /\ call'[h].reader = "recv" /\ call'[h].done = c.done
      /\ call'[h].requests = c.requests /\ call'[h].server = c.server
      /\ call'[h].answer = c.answer /\ call'[h].responses = c.responses
  BY <1>1 DEF ReaderPasses, ReaderLoops, CallRecords
<1>4. call' \in [Handlers -> CallRecords] /\ \A g \in Handlers \ {h} : call'[g] = call[g]
  BY <1>1, <1>2 DEF ReaderPasses, ReaderLoops, CallRecords
<1>5. pc[h] \notin {"cancel", "put", "delete", "ok"}
  BY <1>1 DEF HandlerInv, Quiet
<1>6. Quiet(h)'
  BY <1>5 DEF Quiet, ReaderPasses
<1>7. ASSUME Reading(h)
      PROVE  /\ InFlight(h)' = InFlight(h) /\ Asked(h)' = Asked(h) /\ Answers(h)' = Answers(h)
             /\ call[h].server = "exit" => call'[h].server = "exit"
             /\ "cancel" \notin Elements(call'[h].requests)
  <2>1. "cancel" \notin Elements(c.requests)
    BY <1>1, <1>7 DEF HandlerInv, Counted
  <2>2. PICK q, i, p \in Nat : q = Len(c.requests) /\ i = Len(c.incoming) /\ p = Len(c.responses)
    BY <1>1, Lengths
  <2>3. InFlight(h)' = InFlight(h)
    <3> DEFINE sending == IF c.server = "send" THEN 1 ELSE 0
    <3>1. InFlight(h) = q + i + p + 1 + sending
      BY <1>1, <2>2 DEF InFlight
    <3>2. InFlight(h)' = q + (i + 1) + p + 0 + sending
      BY <1>2, <1>3, <2>2 DEF InFlight
    <3>3. sending \in Nat
      OBVIOUS
    <3> HIDE DEF sending
    <3>4. QED
      BY <3>1, <3>2, <3>3
  <2>4. Asked(h)' = Asked(h)
    BY <1>1, <1>2, <1>3 DEF Asked, ReaderPasses, clientVars
  <2>5. Answers(h)' = Answers(h)
    BY <1>3 DEF Answers
  <2>6. QED
    BY <1>3, <2>1, <2>3, <2>4, <2>5
<1>8. QED
  BY <1>3, <1>4, <1>6, <1>7, MessageMoves DEF ReaderPasses

\* A reader that ends holds nothing.
LEMMA ReaderFailsKeeps ==
  ASSUME IInv, NEW h \in Handlers, ReaderFails(h)
  PROVE  IInv'
<1> DEFINE c == call[h]
<1>1. /\ c \in CallRecords /\ c.reader = "recv"
      /\ HandlerInv(h) /\ call \in [Handlers -> CallRecords]
  BY DEF IInv, TypeInv, ReaderFails
<1>2. /\ call'[h].reader = "exit" /\ call'[h].incoming = c.incoming /\ call'[h].done = c.done
      /\ call'[h].requests = c.requests /\ call'[h].server = c.server
      /\ call'[h].answer = c.answer /\ call'[h].responses = c.responses
  BY <1>1 DEF ReaderFails, CallRecords
<1>3. call' \in [Handlers -> CallRecords] /\ \A g \in Handlers \ {h} : call'[g] = call[g]
  BY <1>1 DEF ReaderFails, CallRecords
<1>4. Quiet(h)'
  BY <1>1, <1>2 DEF HandlerInv, Quiet, ReaderFails
<1>5. ASSUME Reading(h)
      PROVE  "cancel" \notin Elements(c.requests)
  BY <1>1, <1>5 DEF HandlerInv, Counted
<1>6. InFlight(h)' = InFlight(h) /\ Answers(h)' = Answers(h)
  BY <1>1, <1>2 DEF InFlight, Answers
<1>7. Asked(h)' = Asked(h)
  BY <1>1, <1>2 DEF Asked, ReaderFails, clientVars
<1>8. QED
  BY <1>2, <1>3, <1>4, <1>5, <1>6, <1>7, MessageMoves DEF ReaderFails

\* An answer moves on to the client.
LEMMA ServerSendsKeeps ==
  ASSUME IInv, NEW h \in Handlers, ServerSends(h)
  PROVE  IInv'
<1> DEFINE c == call[h]
<1>1. /\ c \in CallRecords /\ c.server = "send" /\ (c.reader = "hold" => c.held \in Nodes)
      /\ HandlerInv(h) /\ call \in [Handlers -> CallRecords]
  BY DEF IInv, TypeInv, ServerSends
<1>2. /\ Append(c.responses, c.answer) \in Seq(SUBSET EdgeKeys)
      /\ Len(Append(c.responses, c.answer)) = Len(c.responses) + 1
      /\ Elements(Append(c.responses, c.answer)) = Elements(c.responses) \cup {c.answer}
  <2>1. c.responses \in Seq(SUBSET EdgeKeys) /\ c.answer \in SUBSET EdgeKeys
    BY <1>1 DEF CallRecords
  <2>2. QED
    BY <2>1, ElementsAppend
<1>3. /\ call'[h].responses = Append(c.responses, c.answer) /\ call'[h].server = "select"
      /\ call'[h].reader = c.reader /\ call'[h].held = c.held /\ call'[h].done = c.done
      /\ call'[h].incoming = c.incoming /\ call'[h].requests = c.requests
  BY <1>1 DEF ServerSends, CallRecords
<1>4. call' \in [Handlers -> CallRecords] /\ \A g \in Handlers \ {h} : call'[g] = call[g]
  BY <1>1, <1>2 DEF ServerSends, CallRecords
<1>5. Quiet(h)'
  <2>1. pc[h] \notin {"cancel", "put", "delete", "ok"}
    BY <1>1 DEF HandlerInv, Quiet
  <2>2. QED
    BY <2>1 DEF Quiet, ServerSends
<1>6. ASSUME Reading(h)
      PROVE  "cancel" \notin Elements(c.requests)
  BY <1>1, <1>6 DEF HandlerInv, Counted
<1>7. InFlight(h)' = InFlight(h)
  <2> DEFINE holding == IF c.reader = "hold" THEN 1 ELSE 0
  <2>1. PICK q, i, p \in Nat : q = Len(c.requests) /\ i = Len(c.incoming) /\ p = Len(c.responses)
    BY <1>1, Lengths
  <2>2. InFlight(h) = q + i + p + holding + 1
    BY <1>1, <2>1 DEF InFlight
  <2>3. InFlight(h)' = q + i + (p + 1) + holding + 0
    BY <1>2, <1>3, <2>1 DEF InFlight
  <2>4. holding \in Nat
    OBVIOUS
  <2> HIDE DEF holding
  <2>5. QED
    BY <2>2, <2>3, <2>4
<1>8. Answers(h)' = Answers(h)
  <2>1. Answers(h) = (UNION Elements(c.responses)) \cup c.answer
    BY <1>1 DEF Answers
  <2>2. Answers(h)' = UNION Elements(Append(c.responses, c.answer))
    BY <1>3 DEF Answers
  <2>3. Answers(h)' = UNION (Elements(c.responses) \cup {c.answer})
    BY <1>2, <2>2
  <2>4. \A A, B : UNION (A \cup {B}) = (UNION A) \cup B
    OBVIOUS
  <2>5. QED
    BY <2>1, <2>3, <2>4
<1>9. Asked(h)' = Asked(h)
  BY <1>3 DEF Asked, ServerSends, clientVars
<1>10. QED
  BY <1>1, <1>3, <1>4, <1>5, <1>6, <1>7, <1>8, <1>9, MessageMoves DEF ServerSends

\* A lost stream takes no message with it.
LEMMA StreamLostKeeps ==
  ASSUME IInv, NEW h \in Handlers, StreamLost(h)
  PROVE  IInv'
<1> DEFINE c == call[h]
<1>1. /\ c \in CallRecords /\ (c.reader = "hold" => c.held \in Nodes)
      /\ HandlerInv(h) /\ call \in [Handlers -> CallRecords]
  BY DEF IInv, TypeInv
<1>2. /\ call'[h].reader = c.reader /\ call'[h].held = c.held /\ call'[h].incoming = c.incoming
      /\ call'[h].requests = c.requests /\ call'[h].server = c.server
      /\ call'[h].answer = c.answer /\ call'[h].responses = c.responses
  BY <1>1 DEF StreamLost, CallRecords
<1>3. call' \in [Handlers -> CallRecords] /\ \A g \in Handlers \ {h} : call'[g] = call[g]
  BY <1>1 DEF StreamLost, CallRecords
<1>4. Quiet(h)'
  BY <1>1, <1>2 DEF HandlerInv, Quiet, StreamLost
<1>5. Reading(h) => "cancel" \notin Elements(c.requests)
  BY <1>1 DEF HandlerInv, Counted
<1>6. InFlight(h)' = InFlight(h) /\ Answers(h)' = Answers(h)
  BY <1>2 DEF InFlight, Answers
<1>7. Asked(h)' = Asked(h)
  BY <1>2 DEF Asked, StreamLost, clientVars
<1>8. QED
  BY <1>1, <1>2, <1>3, <1>4, <1>5, <1>6, <1>7, MessageMoves DEF StreamLost

\* The server ends at a cancel or with the stream, and takes no message with it.
LEMMA ServerDoneKeeps ==
  ASSUME IInv, NEW h \in Handlers, ServerDone(h)
  PROVE  IInv'
<1> DEFINE c == call[h]
<1>1. /\ c \in CallRecords /\ c.server = "select" /\ (c.reader = "hold" => c.held \in Nodes)
      /\ HandlerInv(h) /\ call \in [Handlers -> CallRecords]
  BY DEF IInv, TypeInv, ServerDone
<1>2. /\ call'[h].server = "exit" /\ call'[h].reader = c.reader /\ call'[h].held = c.held
      /\ call'[h].incoming = c.incoming /\ call'[h].requests = c.requests
      /\ call'[h].answer = c.answer /\ call'[h].responses = c.responses
  BY <1>1 DEF ServerDone, CallRecords
<1>3. call' \in [Handlers -> CallRecords] /\ \A g \in Handlers \ {h} : call'[g] = call[g]
  BY <1>1 DEF ServerDone, CallRecords
<1>4. Quiet(h)'
  BY <1>1, <1>2 DEF HandlerInv, Quiet, ServerDone
<1>5. Reading(h) => "cancel" \notin Elements(c.requests)
  BY <1>1 DEF HandlerInv, Counted
<1>6. InFlight(h)' = InFlight(h) /\ Answers(h)' = Answers(h)
  BY <1>1, <1>2 DEF InFlight, Answers
<1>7. Asked(h)' = Asked(h)
  BY <1>2 DEF Asked, ServerDone, clientVars
<1>8. QED
  BY <1>1, <1>2, <1>3, <1>4, <1>5, <1>6, <1>7, MessageMoves DEF ServerDone

\* The tier has finitely many nodes.
LEMMA UnsentFinite ==
  ASSUME NEW h \in Handlers, Reading(h), Counted(h)
  PROVE  IsFiniteSet(unsent[h]) /\ Cardinality(unsent[h]) \in Nat
<1>1. unsent[h] \subseteq Tier(h)
  BY DEF Counted, Asked
<1>2. IsFiniteSet(Tier(h))
  BY FS_Singleton, WindowAssumption DEF Tier
<1>3. QED
  BY <1>1, <1>2, FS_Subset, FS_CardinalityType

\* An answer has edges that leave the node asked for: of a source its modules, of a
\* module the dependencies of all sources.
LEMMA NeighborFacts ==
  ASSUME TypeInv, NodesThere, NothingUnreachable, NEW n
  PROVE  /\ NeighborsFrom(table, n) \subseteq EdgeKeys
         /\ \A e \in NeighborsFrom(table, n) : e.k1 = n
         /\ \A h \in Handlers, e \in RowKeys : Dependency(e, h) =>
              /\ n = e.k1 => e \in NeighborsFrom(table, n)
              /\ n = req[h].url => SourceModule(req[h].url, e.k1) \in NeighborsFrom(table, n)
<1>1. NeighborsFrom(table, n) \subseteq EdgeKeys /\ \A e \in NeighborsFrom(table, n) : e.k1 = n
  BY DEF NeighborsFrom, EdgeKeys, TypeInv
<1>2. ASSUME NEW e \in DOMAIN table, e.k1 # e.k2 PROVE e \in NeighborsFrom(table, e.k1)
  <2>1. Node(e.k2) \in DOMAIN table /\ Node(e.k2).k1 = e.k2 /\ Node(e.k2).k2 = e.k2
    BY DEF NodesThere, Node, Row
  <2>2. QED
    BY <1>2, <2>1 DEF NeighborsFrom
<1>3. ASSUME NEW h \in Handlers, NEW e \in RowKeys, Dependency(e, h)
      PROVE  /\ n = e.k1 => e \in NeighborsFrom(table, n)
             /\ n = req[h].url => SourceModule(req[h].url, e.k1) \in NeighborsFrom(table, n)
  <2> DEFINE s == req[h].url
  <2>1. e \in DOMAIN table /\ e.k3 = s /\ s \in Sources \ Overlapping /\ e.k1 # e.k2
    BY <1>3 DEF Dependency
  <2>2. SourceModule(s, e.k1) \in DOMAIN table /\ e.k1 \in Modules
    BY <2>1, RowFacts DEF NothingUnreachable
  <2>3. SourceModule(s, e.k1).k1 = s /\ SourceModule(s, e.k1).k2 = e.k1 /\ s # e.k1
    BY <2>1, <2>2, KeyAssumption DEF SourceModule, Row
  <2>4. QED
    BY <1>2, <2>1, <2>2, <2>3
<1>4. QED
  BY <1>1, <1>3

\* A node is exchanged for the edges that leave it: those of the source that it leads to
\* are now among the answers.
LEMMA ServerAnswersKeeps ==
  ASSUME IInv, NEW h \in Handlers, ServerAnswers(h)
  PROVE  IInv'
<1> DEFINE c == call[h]
           n == Head(c.incoming)
           edges == NeighborsFrom(table, n)
<1>1. /\ c \in CallRecords /\ c.server = "select" /\ c.incoming # <<>>
      /\ (c.reader = "hold" => c.held \in Nodes)
      /\ HandlerInv(h) /\ call \in [Handlers -> CallRecords]
  BY DEF IInv, TypeInv, ServerAnswers
<1>2. /\ Tail(c.incoming) \in Seq(Nodes) /\ n \in Nodes
      /\ Len(Tail(c.incoming)) = Len(c.incoming) - 1
      /\ Elements(c.incoming) = Elements(Tail(c.incoming)) \cup {n}
  <2>1. c.incoming \in Seq(Nodes)
    BY <1>1 DEF CallRecords
  <2>2. QED
    BY <1>1, <2>1, ElementsTail
<1>3. /\ edges \subseteq EdgeKeys
      /\ \A e \in edges : e.k1 = n
      /\ \A e \in RowKeys : Dependency(e, h) =>
              /\ n = e.k1 => e \in edges
              /\ n = req[h].url => SourceModule(req[h].url, e.k1) \in edges
  BY NeighborFacts DEF IInv
<1> HIDE DEF edges
<1>4. /\ call'[h].incoming = Tail(c.incoming) /\ call'[h].server = "send"
      /\ call'[h].answer = edges /\ call'[h].responses = c.responses
      /\ call'[h].reader = c.reader /\ call'[h].held = c.held /\ call'[h].done = c.done
      /\ call'[h].requests = c.requests
  BY <1>1 DEF ServerAnswers, CallRecords, edges
<1>5. call' \in [Handlers -> CallRecords] /\ \A g \in Handlers \ {h} : call'[g] = call[g]
  <2>1. call' = [call EXCEPT ![h].incoming = Tail(c.incoming), ![h].server = "send", ![h].answer = edges]
    BY DEF ServerAnswers, edges
  <2>2. QED
    BY <1>1, <1>2, <1>3, <2>1 DEF CallRecords
<1>6. Quiet(h)'
  <2>1. pc[h] \notin {"cancel", "put", "delete", "ok"}
    BY <1>1 DEF HandlerInv, Quiet
  <2>2. QED
    BY <2>1 DEF Quiet, ServerAnswers
<1>7. InFlight(h)' = InFlight(h)
  <2> DEFINE holding == IF c.reader = "hold" THEN 1 ELSE 0
  <2>1. PICK q, i, p \in Nat : q = Len(c.requests) /\ i = Len(c.incoming) /\ p = Len(c.responses)
    BY <1>1, Lengths
  <2>2. InFlight(h) = q + i + p + holding + 0
    BY <1>1, <2>1 DEF InFlight
  <2>3. InFlight(h)' = q + (i - 1) + p + holding + 1
    BY <1>2, <1>4, <2>1 DEF InFlight
  <2>4. holding \in Nat
    OBVIOUS
  <2> HIDE DEF holding
  <2>5. QED
    BY <2>2, <2>3, <2>4
<1>8. Answers(h)' = Answers(h) \cup edges
  BY <1>1, <1>4 DEF Answers
<1>9. Asked(h) = Asked(h)' \cup {n}
  BY <1>2, <1>4 DEF Asked, ServerAnswers, clientVars
<1>10. (Reading(h)' <=> Reading(h)) /\ Tier(h)' = Tier(h)
  BY DEF Reading, Tier, ServerAnswers, clientVars
<1>11. Counted(h)'
  BY <1>1, <1>4, <1>7, <1>9, <1>10 DEF HandlerInv, Counted, ServerAnswers, clientVars
<1>12. Collected(h)'
  <2>1. SUFFICES ASSUME Reading(h), Complete(h) PROVE Collected(h)'
    BY <1>7, <1>10 DEF Collected, Complete, ServerAnswers, clientVars
  <2>2. \A e \in RowKeys : Dependency(e, h)' <=> Dependency(e, h)
    BY DEF Dependency, ServerAnswers
  <2>3. n \in Tier(h)
    BY <1>1, <1>9, <2>1 DEF HandlerInv, Counted
  <2>4. ASSUME depth[h] = 0
        PROVE  \A e \in RowKeys : Dependency(e, h) => SourceModule(req[h].url, e.k1) \in Answers(h)'
    BY <1>3, <1>8, <2>3, <2>4 DEF Tier
  <2>5. ASSUME depth[h] = 1, NEW e \in RowKeys, Dependency(e, h)
        PROVE  e.k1 \in Asked(h)' \/ e \in Answers(h)' \cup stored[h]
    <3>1. e.k1 \in Asked(h) \/ e \in Answers(h) \cup stored[h]
      BY <1>1, <2>1, <2>5 DEF HandlerInv, Collected
    <3>2. QED
      BY <1>3, <1>8, <1>9, <2>5, <3>1
  <2>6. depth'[h] = depth[h] /\ stored'[h] = stored[h] /\ req'[h] = req[h]
    BY DEF ServerAnswers, clientVars
  <2>7. QED
    BY <2>2, <2>4, <2>5, <2>6 DEF Collected
<1>13. Reading(h) => \A e \in Answers(h)' : e.k1 \in {req[h].url} \cup Modules
  BY <1>1, <1>3, <1>8, <1>9 DEF HandlerInv, OwnResults, Counted, Tier
<1>14. QED
  BY <1>1, <1>4, <1>5, <1>6, <1>11, <1>12, <1>13, ServerSide DEF ServerAnswers

\* The server takes a message with it, so that the client's count is not reached any more.
LEMMA ServerFailsKeeps ==
  ASSUME IInv, NEW h \in Handlers, ServerFails(h)
  PROVE  IInv'
<1> DEFINE c == call[h]
           F == IF c.server = "select" THEN Tail(c.incoming) ELSE c.incoming
<1>1. /\ c \in CallRecords /\ (c.reader = "hold" => c.held \in Nodes)
      /\ (c.server = "select" /\ c.incoming # <<>>) \/ c.server = "send"
      /\ HandlerInv(h) /\ call \in [Handlers -> CallRecords]
  BY DEF IInv, TypeInv, ServerFails
<1>2. c.incoming \in Seq(Nodes)
  BY <1>1 DEF CallRecords
<1>3. /\ F \in Seq(Nodes) /\ Elements(F) \subseteq Elements(c.incoming)
      /\ Len(F) = IF c.server = "select" THEN Len(c.incoming) - 1 ELSE Len(c.incoming)
  <2>1. CASE c.server = "select"
    BY <1>1, <1>2, <2>1, ElementsTail
  <2>2. CASE c.server # "select"
    BY <1>2, <2>2
  <2>3. QED
    BY <2>1, <2>2
<1>4. /\ call'[h].incoming = F /\ call'[h].server = "exit" /\ call'[h].responses = c.responses
      /\ call'[h].reader = c.reader /\ call'[h].held = c.held /\ call'[h].done = c.done
      /\ call'[h].requests = c.requests
  BY <1>1 DEF ServerFails, CallRecords
<1>5. call' \in [Handlers -> CallRecords] /\ \A g \in Handlers \ {h} : call'[g] = call[g]
  <2>1. CASE call' = [call EXCEPT ![h].server = "exit", ![h].incoming = Tail(@)] /\ c.server = "select"
    BY <1>1, <1>3, <2>1 DEF CallRecords
  <2>2. CASE call' = [call EXCEPT ![h].server = "exit", ![h].answer = {}]
    BY <1>1, <2>2 DEF CallRecords
  <2>3. QED
    BY <2>1, <2>2 DEF ServerFails
<1> HIDE DEF F
<1>6. Quiet(h)'
  <2>1. pc[h] \notin {"cancel", "put", "delete", "ok"}
    BY <1>1 DEF HandlerInv, Quiet
  <2>2. QED
    BY <2>1 DEF Quiet, ServerFails
<1>7. InFlight(h)' \in Nat /\ InFlight(h) \in Nat /\ InFlight(h)' < InFlight(h)
  <2> DEFINE holding == IF c.reader = "hold" THEN 1 ELSE 0
  <2>1. PICK q, i, p \in Nat : q = Len(c.requests) /\ i = Len(c.incoming) /\ p = Len(c.responses)
    BY <1>1, Lengths
  <2>2. holding \in Nat
    OBVIOUS
  <2>3. CASE c.server = "select"
    <3>1. InFlight(h) = q + i + p + holding + 0
      BY <2>1, <2>3 DEF InFlight
    <3>2. InFlight(h)' = q + (i - 1) + p + holding + 0
      BY <1>3, <1>4, <2>1, <2>3 DEF InFlight
    <3>3. i > 0
      BY <1>1, <1>2, <2>1, <2>3, EmptySeq
    <3> HIDE DEF holding
    <3>4. QED
      BY <2>2, <3>1, <3>2, <3>3
  <2>4. CASE c.server = "send"
    <3>1. InFlight(h) = q + i + p + holding + 1
      BY <2>1, <2>4 DEF InFlight
    <3>2. InFlight(h)' = q + i + p + holding + 0
      BY <1>3, <1>4, <2>1, <2>4 DEF InFlight
    <3> HIDE DEF holding
    <3>3. QED
      BY <2>2, <3>1, <3>2
  <2>5. QED
    BY <1>1, <2>3, <2>4
<1>8. Answers(h)' \subseteq Answers(h)
  BY <1>4 DEF Answers
<1>9. Asked(h)' \subseteq Asked(h)
  BY <1>3, <1>4 DEF Asked, ServerFails, clientVars
<1>10. (Reading(h)' <=> Reading(h)) /\ Tier(h)' = Tier(h)
  BY DEF Reading, Tier, ServerFails, clientVars
<1>11. Counted(h)'
  <2>1. SUFFICES ASSUME Reading(h) PROVE Counted(h)'
    BY <1>10 DEF Counted
  <2>2. /\ awaited[h] = Cardinality(unsent[h]) + InFlight(h) /\ Cardinality(unsent[h]) \in Nat
        /\ "cancel" \notin Elements(c.requests)
        /\ Asked(h) \subseteq Tier(h) /\ (pc[h] = "receive" => unsent[h] = {})
        /\ depth[h] = 0 => awaited[h] = 1
    BY <1>1, <2>1, UnsentFinite DEF HandlerInv, Counted
  <2>3. awaited[h] >= Cardinality(unsent[h]) + InFlight(h)'
    BY <1>7, <2>2
  <2>4. awaited'[h] = awaited[h] /\ unsent'[h] = unsent[h] /\ pc'[h] = pc[h] /\ depth'[h] = depth[h]
    BY DEF ServerFails, clientVars
  <2>5. QED
    BY <1>4, <1>9, <1>10, <2>2, <2>3, <2>4 DEF Counted
<1>12. Collected(h)'
  <2>1. SUFFICES ASSUME Reading(h) PROVE ~Complete(h)'
    BY <1>10 DEF Collected
  <2>2. awaited[h] = Cardinality(unsent[h]) + InFlight(h) /\ Cardinality(unsent[h]) \in Nat
    BY <1>1, <2>1, UnsentFinite DEF HandlerInv, Counted
  <2>3. awaited[h] # Cardinality(unsent[h]) + InFlight(h)'
    BY <1>7, <2>2
  <2>4. QED
    BY <2>3 DEF Complete, ServerFails, clientVars
<1>13. Reading(h) => \A e \in Answers(h)' : e.k1 \in {req[h].url} \cup Modules
  BY <1>1, <1>8 DEF HandlerInv, OwnResults
<1>14. QED
  BY <1>1, <1>4, <1>5, <1>6, <1>11, <1>12, <1>13, ServerSide DEF ServerFails

\* A Store starts with the source as the first tier.
LEMMA StoreKeeps ==
  ASSUME IInv, NEW h \in Handlers, NEW r \in Requests, Store(h, r)
  PROVE  IInv'
<1>1. /\ TypeInv /\ HandlerInv(h) /\ pc[h] = "idle" /\ r.url \in Sources /\ depth[h] = 0 /\ stored[h] = {}
  BY ProposedFacts DEF IInv, Store, HandlerInv, OwnRequest, Busy
<1>2. NewCall \in CallRecords /\ NewCall.reader = "recv" /\ NewCall.server = "select"
      /\ NewCall.requests = <<>> /\ NewCall.incoming = <<>> /\ NewCall.responses = <<>> /\ ~NewCall.done
  <2>1. <<>> \in Seq(Nodes \cup {"cancel"}) /\ <<>> \in Seq(Nodes) /\ <<>> \in Seq(SUBSET EdgeKeys)
    BY EmptySeq
  <2>2. QED
    BY <2>1 DEF NewCall, NoCall, CallRecords
<1>3. /\ pc'[h] = "send" /\ req'[h] = r /\ unsent'[h] = {r.url} /\ awaited'[h] = 1
      /\ call'[h] = NewCall /\ depth'[h] = 0 /\ stored'[h] = {}
  BY <1>1 DEF Store, TypeInv
<1>4. \A g \in Handlers \ {h} : Untouched(g)
  BY <1>1 DEF Untouched, Store, TypeInv
<1>5. TypeInv'
  <2>1. pc' \in [Handlers -> {"idle", "send", "receive", "cancel", "put", "delete", "ok", "error"}]
        /\ req' \in [Handlers -> Requests \cup {NoRequest}] /\ awaited' \in [Handlers -> Nat]
        /\ unsent' \in [Handlers -> SUBSET Nodes]
    BY <1>1 DEF Store, TypeInv, Nodes
  <2>2. call' \in [Handlers -> CallRecords]
    BY <1>1, <1>2 DEF Store, TypeInv
  <2>3. \A g \in Handlers : call'[g].reader = "hold" => call'[g].held \in Nodes
    BY <1>1, <1>2, <1>3, <1>4 DEF TypeInv, Untouched
  <2>4. QED
    BY <1>1, <2>1, <2>2, <2>3 DEF TypeInv, Store
<1>6. Asked(h)' = {r.url} /\ Answers(h)' = {} /\ InFlight(h)' = 0
  <2>1. Elements(<<>>) = {} /\ Len(<<>>) = 0
    BY DEF Elements
  <2>2. Asked(h)' = {r.url}
    BY <1>2, <1>3, <2>1 DEF Asked
  <2>3. Answers(h)' = {}
    BY <1>2, <1>3, <2>1 DEF Answers
  <2>4. InFlight(h)' = 0
    <3>1. PICK z \in Nat : z = Len(<<>>) /\ z = 0
      BY <2>1
    <3>2. InFlight(h)' = z + z + z + 0 + 0
      BY <1>2, <1>3, <3>1 DEF InFlight
    <3>3. QED
      BY <3>1, <3>2
  <2>5. QED
    BY <2>2, <2>3, <2>4
<1>7. OwnRequest(h)' /\ Quiet(h)' /\ FoundAll(h)' /\ PutThere(h)'
  BY <1>1, <1>3 DEF OwnRequest, Busy, Quiet, FoundAll, PutThere
<1>8. Counted(h)'
  <2>1. Cardinality({r.url}) = 1
    BY FS_Singleton
  <2>2. "cancel" \notin Elements(<<>>)
    BY DEF Elements
  <2>3. QED
    BY <1>2, <1>3, <1>6, <2>1, <2>2 DEF Counted, Tier
<1>9. Collected(h)' /\ OwnResults(h)'
  BY <1>3, <1>6 DEF Collected, OwnResults
<1>10. StaysApart(h)
  BY <1>3 DEF StaysApart, Store
<1>11. QED
  BY <1>4, <1>5, <1>7, <1>8, <1>9, <1>10, TableKept DEF Store, HandlerInv

\* A node moves from the tier to the stream.
LEMMA SendRequestKeeps ==
  ASSUME IInv, NEW h \in Handlers, NEW n \in Sources \cup Modules, SendRequest(h, n)
  PROVE  IInv'
<1> DEFINE c == call[h]
<1>1. /\ TypeInv /\ HandlerInv(h) /\ c \in CallRecords /\ pc[h] = "send" /\ Reading(h)
      /\ c.server # "exit" /\ n \in unsent[h] /\ (c.reader = "hold" => c.held \in Nodes)
  BY DEF IInv, TypeInv, SendRequest, Reading
<1>2. /\ Append(c.requests, n) \in Seq(Nodes \cup {"cancel"})
      /\ Len(Append(c.requests, n)) = Len(c.requests) + 1
      /\ Elements(Append(c.requests, n)) = Elements(c.requests) \cup {n}
  <2>1. c.requests \in Seq(Nodes \cup {"cancel"}) /\ n \in Nodes \cup {"cancel"}
    BY <1>1 DEF CallRecords, Nodes
  <2>2. QED
    BY <2>1, ElementsAppend
<1>3. /\ unsent'[h] = unsent[h] \ {n} /\ pc'[h] = IF unsent[h] = {n} THEN "receive" ELSE "send"
      /\ req'[h] = req[h] /\ depth'[h] = depth[h] /\ awaited'[h] = awaited[h] /\ stored'[h] = stored[h]
      /\ call'[h].requests = Append(c.requests, n) /\ call'[h].incoming = c.incoming
      /\ call'[h].reader = c.reader /\ call'[h].held = c.held /\ call'[h].done = c.done
      /\ call'[h].server = c.server /\ call'[h].answer = c.answer /\ call'[h].responses = c.responses
  BY <1>1 DEF SendRequest, TypeInv, CallRecords
<1>4. \A g \in Handlers \ {h} : Untouched(g)
  BY <1>1 DEF Untouched, SendRequest, TypeInv
<1>5. TypeInv'
  <2>1. call' \in [Handlers -> CallRecords]
    BY <1>1, <1>2 DEF SendRequest, TypeInv, CallRecords
  <2>2. pc' \in [Handlers -> {"idle", "send", "receive", "cancel", "put", "delete", "ok", "error"}]
        /\ unsent' \in [Handlers -> SUBSET Nodes]
    BY <1>1 DEF SendRequest, TypeInv
  <2>3. \A g \in Handlers : call'[g].reader = "hold" => call'[g].held \in Nodes
    BY <1>1, <1>3, <1>4 DEF TypeInv, Untouched
  <2>4. QED
    BY <1>1, <2>1, <2>2, <2>3 DEF TypeInv, SendRequest
<1>6. Asked(h)' = Asked(h) /\ Answers(h)' = Answers(h)
  BY <1>1, <1>2, <1>3 DEF Asked, Answers
<1>7. Reading(h)' /\ Tier(h)' = Tier(h)
  BY <1>3 DEF Reading, Tier
<1>8. Counted(h)'
  <2>1. InFlight(h)' = InFlight(h) + 1 /\ InFlight(h) \in Nat
    <3> DEFINE rest == (IF c.reader = "hold" THEN 1 ELSE 0)
               sending == (IF c.server = "send" THEN 1 ELSE 0)
    <3>1. PICK q, i, p \in Nat : q = Len(c.requests) /\ i = Len(c.incoming) /\ p = Len(c.responses)
      BY <1>1, Lengths
    <3>2. InFlight(h) = q + i + p + rest + sending
      BY <3>1 DEF InFlight
    <3>3. InFlight(h)' = (q + 1) + i + p + rest + sending
      BY <1>2, <1>3, <3>1 DEF InFlight
    <3>4. rest \in Nat /\ sending \in Nat
      OBVIOUS
    <3> HIDE DEF rest, sending
    <3>5. QED
      BY <3>2, <3>3, <3>4
  <2>2. IsFiniteSet(unsent[h]) /\ Cardinality(unsent[h]) \in Nat
    BY <1>1, UnsentFinite DEF HandlerInv
  <2>3. Cardinality(unsent[h] \ {n}) = Cardinality(unsent[h]) - 1
    BY <1>1, <2>2, FS_RemoveElement
  <2>4. /\ awaited[h] = Cardinality(unsent[h]) + InFlight(h)
        /\ "cancel" \notin Elements(c.requests) /\ Asked(h) \subseteq Tier(h)
        /\ depth[h] = 0 => awaited[h] = 1
    BY <1>1 DEF HandlerInv, Counted
  <2>5. /\ awaited[h] = Cardinality(unsent[h] \ {n}) + InFlight(h)'
        /\ awaited[h] >= Cardinality(unsent[h] \ {n}) + InFlight(h)'
    BY <2>1, <2>2, <2>3, <2>4
  <2>6. "cancel" \notin Elements(call'[h].requests)
    BY <1>2, <1>3, <2>4, KeyAssumption
  <2>7. pc'[h] = "receive" => unsent'[h] = {}
    BY <1>3
  <2>8. QED
    BY <1>1, <1>3, <1>6, <1>7, <2>4, <2>5, <2>6, <2>7 DEF Counted
<1>9. Collected(h)'
  <2>1. \A e \in RowKeys : Dependency(e, h)' <=> Dependency(e, h)
    BY DEF Dependency, SendRequest
  <2>2. Complete(h)
    BY <1>1 DEF HandlerInv, Counted, Complete
  <2>3. QED
    BY <1>1, <1>3, <1>6, <2>1, <2>2 DEF HandlerInv, Collected
<1>10. OwnResults(h)'
  BY <1>1, <1>3, <1>6 DEF HandlerInv, OwnResults
<1>11. OwnRequest(h)'
  BY <1>1, <1>3 DEF HandlerInv, OwnRequest, Busy
<1>12. Quiet(h)' /\ FoundAll(h)' /\ PutThere(h)'
  BY <1>3 DEF Quiet, FoundAll, PutThere
<1>13. HandlerInv(h)'
  BY <1>8, <1>9, <1>10, <1>11, <1>12 DEF HandlerInv
<1>14. StaysApart(h)
  BY <1>1, <1>3 DEF StaysApart, Reading, Busy
<1>15. QED
  BY <1>4, <1>5, <1>13, <1>14, TableKept DEF SendRequest

\* A response is taken: what the step does to the stream and to the results, whether
\* or not the response is the last one.
LEMMA ReceiveFacts ==
  ASSUME IInv, NEW h \in Handlers, Receive(h)
  PROVE  LET edges == Head(call[h].responses)
         IN /\ edges \subseteq EdgeKeys /\ \A e \in edges : e.k2 \in Modules
            /\ stored'[h] = stored[h] \cup OwnEdges(edges, req[h].url)
            /\ req'[h] = req[h] /\ req[h] \in Requests /\ req[h].url \in Sources
            /\ call' \in [Handlers -> CallRecords]
            /\ call'[h].requests = call[h].requests /\ call'[h].incoming = call[h].incoming
            /\ call'[h].reader = call[h].reader /\ call'[h].held = call[h].held
            /\ call'[h].done = call[h].done /\ call'[h].server = call[h].server
            /\ Answers(h) = Answers(h)' \cup edges
            /\ unsent[h] = {} /\ Cardinality(unsent[h]) = 0
            /\ InFlight(h) \in Nat \ {0} /\ InFlight(h)' = InFlight(h) - 1
<1> DEFINE c == call[h]
           edges == Head(c.responses)
<1>1. /\ TypeInv /\ HandlerInv(h) /\ c \in CallRecords /\ pc[h] = "receive" /\ Reading(h)
      /\ c.responses # <<>> /\ req[h] \in Requests /\ req[h].url \in Sources
      /\ call \in [Handlers -> CallRecords]
  BY ProposedFacts DEF IInv, TypeInv, Receive, Reading, HandlerInv, OwnRequest, Busy
<1>2. /\ Tail(c.responses) \in Seq(SUBSET EdgeKeys) /\ Len(Tail(c.responses)) = Len(c.responses) - 1
      /\ Len(c.responses) \in Nat \ {0} /\ edges \in SUBSET EdgeKeys
      /\ Elements(c.responses) = Elements(Tail(c.responses)) \cup {edges}
  <2>1. c.responses \in Seq(SUBSET EdgeKeys)
    BY <1>1 DEF CallRecords
  <2>2. QED
    BY <1>1, <2>1, ElementsTail
<1>3. \A e \in edges : e.k2 \in Modules
  BY <1>2, RowFacts DEF EdgeKeys
<1>4. stored'[h] = stored[h] \cup OwnEdges(edges, req[h].url) /\ req'[h] = req[h]
  BY <1>1 DEF Receive, TypeInv
<1>5. call' = [call EXCEPT ![h].responses = Tail(@)]
  BY DEF Receive
<1>6. /\ call' \in [Handlers -> CallRecords]
      /\ call'[h].responses = Tail(c.responses) /\ call'[h].answer = c.answer
      /\ call'[h].requests = c.requests /\ call'[h].incoming = c.incoming
      /\ call'[h].reader = c.reader /\ call'[h].held = c.held
      /\ call'[h].done = c.done /\ call'[h].server = c.server
  BY <1>1, <1>2, <1>5 DEF CallRecords
<1>7. Answers(h) = Answers(h)' \cup edges
  BY <1>2, <1>6 DEF Answers
<1>8. unsent[h] = {} /\ Cardinality(unsent[h]) = 0
  BY <1>1, FS_EmptySet DEF HandlerInv, Counted
<1>9. InFlight(h) \in Nat \ {0} /\ InFlight(h)' = InFlight(h) - 1
  <2> DEFINE holding == (IF c.reader = "hold" THEN 1 ELSE 0)
             sending == (IF c.server = "send" THEN 1 ELSE 0)
  <2>1. PICK q, i, p \in Nat : q = Len(c.requests) /\ i = Len(c.incoming) /\ p = Len(c.responses)
    BY <1>1, Lengths
  <2>2. InFlight(h) = q + i + p + holding + sending
    BY <2>1 DEF InFlight
  <2>3. InFlight(h)' = q + i + (p - 1) + holding + sending
    BY <1>2, <1>6, <2>1 DEF InFlight
  <2>4. holding \in Nat /\ sending \in Nat /\ p > 0
    BY <1>2, <2>1
  <2> HIDE DEF holding, sending
  <2>5. QED
    BY <2>2, <2>3, <2>4
<1>10. QED
  BY <1>1, <1>2, <1>3, <1>4, <1>6, <1>7, <1>8, <1>9

\* With the last response of a tier nothing is left on its way.
LEMMA LastResponseFacts ==
  ASSUME IInv, NEW h \in Handlers, Receive(h), awaited[h] = 1
  PROVE  /\ Complete(h) /\ call[h].server # "send" /\ call[h].reader # "hold"
         /\ call[h].requests = <<>> /\ call[h].incoming = <<>>
         /\ Asked(h) = {} /\ Answers(h) = Head(call[h].responses) /\ InFlight(h) = 1
<1> DEFINE c == call[h]
           edges == Head(c.responses)
<1>1. /\ HandlerInv(h) /\ c \in CallRecords /\ Reading(h) /\ c.responses # <<>>
  BY DEF IInv, TypeInv, Receive, Reading
<1>2. /\ unsent[h] = {} /\ Cardinality(unsent[h]) = 0 /\ InFlight(h) \in Nat \ {0}
  BY ReceiveFacts
<1>3. Complete(h) /\ InFlight(h) = 1
  BY <1>1, <1>2 DEF HandlerInv, Counted, Complete
<1>4. PICK q, i, p \in Nat : q = Len(c.requests) /\ i = Len(c.incoming) /\ p = Len(c.responses)
  BY <1>1, Lengths
<1>5. p > 0
  BY <1>1, <1>4, ElementsEmpty DEF CallRecords
<1>6. p = 1 /\ q = 0 /\ i = 0 /\ c.reader # "hold" /\ c.server # "send"
  <2> DEFINE holding == (IF c.reader = "hold" THEN 1 ELSE 0)
             sending == (IF c.server = "send" THEN 1 ELSE 0)
  <2>1. holding \in Nat /\ sending \in Nat /\ (holding = 0 => c.reader # "hold")
        /\ (sending = 0 => c.server # "send")
    OBVIOUS
  <2>2. q + i + p + holding + sending = 1
    BY <1>3, <1>4 DEF InFlight
  <2> HIDE DEF holding, sending
  <2>3. p = 1 /\ q = 0 /\ i = 0 /\ holding = 0 /\ sending = 0
    BY <1>5, <2>1, <2>2
  <2>4. QED
    BY <2>1, <2>3
<1>7. /\ c.requests = <<>> /\ Elements(c.requests) = {}
      /\ c.incoming = <<>> /\ Elements(c.incoming) = {}
  BY <1>1, <1>4, <1>6, ElementsEmpty DEF CallRecords
<1>8. Asked(h) = {}
  BY <1>2, <1>6, <1>7 DEF Asked
<1>9. Answers(h) = edges
  <2>1. /\ Elements(c.responses) = Elements(Tail(c.responses)) \cup {edges}
        /\ Tail(c.responses) \in Seq(SUBSET EdgeKeys) /\ Len(Tail(c.responses)) = p - 1
    BY <1>1, <1>4, ElementsTail DEF CallRecords
  <2>2. Elements(Tail(c.responses)) = {}
    <3>1. Len(Tail(c.responses)) = 0
      BY <1>6, <2>1
    <3>2. 1..0 = {}
      OBVIOUS
    <3>3. QED
      BY <3>1, <3>2, Zenon DEF Elements
  <2>3. QED
    BY <1>6, <2>1, <2>2 DEF Answers
<1>10. QED
  BY <1>3, <1>6, <1>7, <1>8, <1>9

\* The results stay the source's own, whichever response is taken.
LEMMA ReceiveResults ==
  ASSUME IInv, NEW h \in Handlers, Receive(h)
  PROVE  /\ stored' \in [Handlers -> SUBSET EdgeKeys] /\ OwnResults(h)'
         /\ \A e \in RowKeys : (Dependency(e, h) /\ e \in Answers(h) \cup stored[h]) =>
              e \in Answers(h)' \cup stored'[h]
<1> DEFINE edges == Head(call[h].responses)
<1>1. /\ edges \subseteq EdgeKeys /\ stored'[h] = stored[h] \cup OwnEdges(edges, req[h].url)
      /\ Answers(h) = Answers(h)' \cup edges /\ req[h].url \in Sources /\ req'[h] = req[h]
  BY ReceiveFacts
<1>2. /\ stored \in [Handlers -> SUBSET EdgeKeys] /\ HandlerInv(h) /\ Reading(h)
  BY DEF IInv, TypeInv, Receive, Reading
<1>3. stored' = [stored EXCEPT ![h] = @ \cup OwnEdges(edges, req[h].url)]
  BY <1>1 DEF Receive
<1> HIDE DEF edges
<1>4. stored' \in [Handlers -> SUBSET EdgeKeys]
  BY <1>1, <1>2, <1>3 DEF OwnEdges
<1>5. ASSUME NEW e \in OwnEdges(edges, req[h].url) PROVE (e.k1 = req[h].url /\ e.k3 = NoKey) \/ e.k3 = req[h].url
  <2>1. e \in edges /\ (e.k3 = NoKey \/ e.k3 = req[h].url)
    BY DEF OwnEdges
  <2>2. e \in RowKeys /\ e.k1 # e.k2 /\ e.k1 \in {req[h].url} \cup Modules
    BY <1>1, <1>2, <2>1 DEF EdgeKeys, HandlerInv, OwnResults
  <2>3. e.k3 = NoKey => e.k1 \in Sources \cup {NoUrl}
    BY <2>2, RowFacts
  <2>4. QED
    BY <2>1, <2>2, <2>3, KeyAssumption
<1>6. OwnResults(h)'
  BY <1>1, <1>2, <1>5 DEF HandlerInv, OwnResults
<1>7. ASSUME NEW e \in RowKeys, Dependency(e, h), e \in Answers(h) \cup stored[h]
      PROVE  e \in Answers(h)' \cup stored'[h]
  BY <1>1, <1>7 DEF OwnEdges, Dependency
<1>8. QED
  BY <1>4, <1>6, <1>7

\* One response fewer is awaited, and its edges are in the results.  With the last one the
\* modules of the source are the next tier, or every dependency is in the results.
LEMMA ReceiveKeeps ==
  ASSUME IInv, NEW h \in Handlers, Receive(h)
  PROVE  IInv'
<1> DEFINE c == call[h]
           edges == Head(c.responses)
           found == next[h] \cup {e.k2 : e \in edges}
<1>1. /\ TypeInv /\ HandlerInv(h) /\ c \in CallRecords /\ pc[h] = "receive" /\ Reading(h)
      /\ awaited[h] \in Nat /\ depth[h] \in {0, 1} /\ UNCHANGED <<table, req>>
  BY DEF IInv, TypeInv, Receive, Reading
<1>2. /\ \A e \in edges : e.k2 \in Modules
      /\ req'[h] = req[h] /\ req[h] \in Requests /\ req[h].url \in Sources
      /\ call' \in [Handlers -> CallRecords]
      /\ call'[h].requests = c.requests /\ call'[h].incoming = c.incoming
      /\ call'[h].reader = c.reader /\ call'[h].held = c.held
      /\ call'[h].done = c.done /\ call'[h].server = c.server
      /\ unsent[h] = {} /\ Cardinality(unsent[h]) = 0
      /\ InFlight(h) \in Nat \ {0} /\ InFlight(h)' = InFlight(h) - 1
  BY ReceiveFacts
<1>3. stored' \in [Handlers -> SUBSET EdgeKeys] /\ OwnResults(h)'
  BY ReceiveResults
<1>4. \A g \in Handlers \ {h} : Untouched(g)
  BY <1>1 DEF Receive, Untouched, TypeInv
<1>5. \A g \in Handlers : call'[g].reader = "hold" => call'[g].held \in Nodes
  BY <1>1, <1>2, <1>4 DEF TypeInv, Untouched
<1>6. found \subseteq Modules /\ IsFiniteSet(found) /\ Cardinality(found) \in Nat
  <2>1. found \subseteq Modules
    BY <1>1, <1>2 DEF TypeInv
  <2>2. QED
    BY <2>1, WindowAssumption, FS_Subset, FS_CardinalityType
<1>7. \A e \in RowKeys : Dependency(e, h)' <=> Dependency(e, h)
  BY <1>1 DEF Dependency
<1>8. /\ c.server # "exit" => awaited[h] = InFlight(h)
      /\ awaited[h] >= InFlight(h) /\ (Complete(h) <=> awaited[h] = InFlight(h))
      /\ "cancel" \notin Elements(c.requests) /\ Asked(h) \subseteq Tier(h)
      /\ depth[h] = 0 => awaited[h] = 1
  <2>1. \A n \in Nat : 0 + n = n
    OBVIOUS
  <2>2. QED
    BY <1>1, <1>2, <2>1 DEF HandlerInv, Counted, Complete
<1>0. StaysApart(h)
  BY <1>1, <1>2 DEF StaysApart, Busy
<1>9. CASE awaited[h] # 1
  <2>1. awaited[h] - 1 \in Nat /\ depth[h] = 1
    BY <1>1, <1>2, <1>8, <1>9
  <2>2. /\ awaited' = [awaited EXCEPT ![h] = @ - 1] /\ next' = [next EXCEPT ![h] = found]
        /\ UNCHANGED <<pc, depth, unsent>>
    BY <1>9 DEF Receive, LastResponse
  <2>3. awaited' \in [Handlers -> Nat] /\ next' \in [Handlers -> SUBSET Modules]
        /\ awaited'[h] = awaited[h] - 1
    BY <1>1, <1>6, <2>1, <2>2 DEF TypeInv
  <2>4. TypeInv'
    BY <1>1, <1>2, <1>3, <1>5, <2>2, <2>3 DEF TypeInv
  <2>5. Asked(h)' = Asked(h) /\ Tier(h)' = Tier(h) /\ Reading(h)'
    BY <1>1, <1>2, <2>2 DEF Asked, Tier, Reading
  <2>6. Counted(h)'
    <3>1. /\ c.server # "exit" => awaited'[h] = Cardinality(unsent[h]) + InFlight(h)'
          /\ awaited'[h] >= Cardinality(unsent[h]) + InFlight(h)'
      BY <1>1, <1>2, <1>8, <2>3
    <3>2. unsent' = unsent /\ depth' = depth
      BY <2>2
    <3>3. /\ "cancel" \notin Elements(call'[h].requests)
          /\ Asked(h)' \subseteq Tier(h)' /\ unsent'[h] = {} /\ depth'[h] # 0
      BY <1>2, <1>8, <2>1, <2>5, <3>2
    <3>4. call'[h].server = c.server
      BY <1>2
    <3>5. QED
      BY <3>1, <3>2, <3>3, <3>4 DEF Counted
  <2>7. Collected(h)'
    <3>0. Complete(h)' => Complete(h)
      <4>1. Complete(h)' => awaited[h] - 1 = Cardinality(unsent[h]) + (InFlight(h) - 1)
        BY <1>2, <2>2, <2>3 DEF Complete
      <4>2. QED
        BY <1>1, <1>2, <1>8, <4>1
    <3>1. SUFFICES ASSUME Complete(h), NEW e \in RowKeys, Dependency(e, h)
                   PROVE  e.k1 \in Asked(h)' \/ e \in Answers(h)' \cup stored'[h]
      BY <1>2, <1>7, <2>1, <2>2, <3>0 DEF Collected
    <3>2. e.k1 \in Asked(h) \/ e \in Answers(h) \cup stored[h]
      BY <1>1, <2>1, <3>1 DEF HandlerInv, Collected
    <3>3. QED
      BY <2>5, <3>1, <3>2, ReceiveResults
  <2>8. OwnRequest(h)' /\ Quiet(h)' /\ FoundAll(h)' /\ PutThere(h)'
    BY <1>1, <1>2, <2>2 DEF OwnRequest, Busy, Quiet, FoundAll, PutThere
  <2>9. QED
    BY <1>1, <1>3, <1>4, <2>4, <2>6, <2>7, <2>8, <1>0, TableKept DEF HandlerInv
<1>10. ASSUME awaited[h] = 1
       PROVE  /\ Complete(h) /\ c.server # "send" /\ c.reader # "hold"
              /\ c.requests = <<>> /\ c.incoming = <<>> /\ Elements(<<>>) = {}
              /\ Asked(h) = {} /\ Answers(h) = edges /\ InFlight(h)' = 0
  <2>1. Elements(<<>>) = {}
    BY DEF Elements
  <2>2. QED
    BY <1>2, <1>10, <2>1, LastResponseFacts
<1>11. ASSUME awaited[h] = 1, depth[h] = 0, NEW e \in RowKeys, Dependency(e, h) PROVE e.k1 \in found
  <2>1. SourceModule(req[h].url, e.k1) \in edges
    BY <1>1, <1>10, <1>11 DEF HandlerInv, Collected
  <2>2. QED
    BY <2>1 DEF SourceModule, Row
<1> HIDE DEF found
<1>12. CASE awaited[h] = 1 /\ depth[h] = 0 /\ found # {}
  <2>1. /\ awaited' = [awaited EXCEPT ![h] = Cardinality(found)]
        /\ unsent' = [unsent EXCEPT ![h] = found]
        /\ depth' = [depth EXCEPT ![h] = 1] /\ next' = [next EXCEPT ![h] = {}]
        /\ pc' = [pc EXCEPT ![h] = "send"]
    BY <1>12 DEF Receive, LastResponse, found
  <2>2. /\ awaited' \in [Handlers -> Nat] /\ unsent' \in [Handlers -> SUBSET Nodes]
        /\ depth' \in [Handlers -> {0, 1}] /\ next' \in [Handlers -> SUBSET Modules]
        /\ pc' \in [Handlers -> {"idle", "send", "receive", "cancel", "put", "delete", "ok", "error"}]
        /\ awaited'[h] = Cardinality(found) /\ unsent'[h] = found /\ depth'[h] = 1 /\ pc'[h] = "send"
    BY <1>1, <1>6, <2>1 DEF TypeInv, Nodes
  <2>3. TypeInv'
    BY <1>1, <1>2, <1>3, <1>5, <2>2 DEF TypeInv
  <2>4. Asked(h)' = found
    BY <1>2, <1>10, <1>12, <2>2 DEF Asked
  <2>5. Counted(h)'
    <3>1. Cardinality(found) = Cardinality(found) + InFlight(h)'
      BY <1>6, <1>10, <1>12
    <3>2. QED
      BY <1>2, <1>6, <1>8, <1>10, <1>12, <2>2, <2>4, <3>1 DEF Counted, Tier
  <2>6. Collected(h)'
    BY <1>7, <1>11, <1>12, <2>2, <2>4 DEF Collected
  <2>7. OwnRequest(h)' /\ Quiet(h)' /\ FoundAll(h)' /\ PutThere(h)'
    BY <1>2, <2>2 DEF OwnRequest, Busy, Quiet, FoundAll, PutThere
  <2>8. QED
    BY <1>1, <1>3, <1>4, <2>3, <2>5, <2>6, <2>7, <1>0, TableKept DEF HandlerInv
<1>13. CASE awaited[h] = 1 /\ ~(depth[h] = 0 /\ found # {})
  <2>1. /\ awaited' = [awaited EXCEPT ![h] = 0] /\ pc' = [pc EXCEPT ![h] = "cancel"]
        /\ UNCHANGED <<depth, unsent, next>>
    BY <1>13 DEF Receive, LastResponse, found
  <2>2. /\ awaited' \in [Handlers -> Nat] /\ pc'[h] = "cancel"
        /\ pc' \in [Handlers -> {"idle", "send", "receive", "cancel", "put", "delete", "ok", "error"}]
    BY <1>1, <2>1 DEF TypeInv
  <2>3. TypeInv'
    BY <1>1, <1>2, <1>3, <1>5, <2>1, <2>2 DEF TypeInv
  <2>4. FoundAll(h)'
    <3>1. SUFFICES ASSUME NEW e \in RowKeys, Dependency(e, h) PROVE e \in stored'[h]
      BY <1>7, <2>2 DEF FoundAll
    <3>2. depth[h] = 1
      BY <1>1, <1>11, <1>13, <3>1
    <3>3. e \in edges \cup stored[h]
      BY <1>1, <1>10, <1>13, <3>1, <3>2 DEF HandlerInv, Collected
    <3>4. e.k3 = req[h].url /\ stored'[h] = stored[h] \cup OwnEdges(edges, req[h].url)
      BY <3>1, ReceiveFacts DEF Dependency
    <3>5. QED
      BY <3>3, <3>4 DEF OwnEdges
  <2>5. Quiet(h)'
    BY <1>2, <1>10, <1>13 DEF Quiet
  <2>6. OwnRequest(h)' /\ Counted(h)' /\ Collected(h)' /\ PutThere(h)'
    BY <1>2, <2>2 DEF OwnRequest, Busy, Counted, Collected, Reading, PutThere
  <2>7. QED
    BY <1>1, <1>3, <1>4, <2>3, <2>4, <2>5, <2>6, <1>0, TableKept DEF HandlerInv
<1>14. QED
  BY <1>9, <1>12, <1>13

\* A Store whose reading failed promises nothing more.
LEMMA ReadFailsKeeps ==
  ASSUME IInv, NEW h \in Handlers, ReadFails(h)
  PROVE  IInv'
<1> USE DEF clientVars
<1>1. /\ TypeInv /\ HandlerInv(h) /\ pc'[h] = "error" /\ Busy(h)
      /\ pc' \in [Handlers -> {"idle", "send", "receive", "cancel", "put", "delete", "ok", "error"}]
  BY DEF IInv, TypeInv, ReadFails, Busy
<1>2. TypeInv'
  BY <1>1 DEF TypeInv, ReadFails
<1>3. \A g \in Handlers \ {h} : Untouched(g)
  BY <1>1 DEF Untouched, ReadFails, TypeInv
<1>4. HandlerInv(h)'
  BY <1>1 DEF HandlerInv, OwnRequest, Busy, Counted, Quiet, Collected, OwnResults, FoundAll,
              PutThere, Reading, ReadFails
<1>5. StaysApart(h)
  BY DEF StaysApart, ReadFails, Busy
<1>6. QED
  BY <1>2, <1>3, <1>4, <1>5, TableKept DEF ReadFails

\* The cancel is alone in the stream.
LEMMA SendCancelKeeps ==
  ASSUME IInv, NEW h \in Handlers, SendCancel(h)
  PROVE  IInv'
<1> USE DEF clientVars
<1> DEFINE c == call[h]
<1>1. /\ TypeInv /\ HandlerInv(h) /\ c \in CallRecords /\ pc[h] = "cancel" /\ pc'[h] = "put" /\ Busy(h)
      /\ pc' \in [Handlers -> {"idle", "send", "receive", "cancel", "put", "delete", "ok", "error"}]
      /\ (c.reader = "hold" => c.held \in Nodes)
  BY DEF IInv, TypeInv, SendCancel, Busy
<1>2. /\ c.incoming = <<>> /\ c.reader # "hold" /\ c.server # "send" /\ c.requests = <<>>
  BY <1>1 DEF HandlerInv, Quiet
<1>3. /\ Append(c.requests, "cancel") = <<"cancel">>
      /\ Append(c.requests, "cancel") \in Seq(Nodes \cup {"cancel"})
  BY <1>1, <1>2, ElementsAppend DEF CallRecords
<1>4. /\ call'[h].requests = <<"cancel">> /\ call'[h].incoming = <<>>
      /\ call'[h].reader = c.reader /\ call'[h].held = c.held /\ call'[h].server = c.server
  BY <1>1, <1>2, <1>3 DEF SendCancel, TypeInv, CallRecords
<1>5. \A g \in Handlers \ {h} : Untouched(g)
  BY <1>1 DEF Untouched, SendCancel, TypeInv
<1>6. TypeInv'
  <2>1. call' \in [Handlers -> CallRecords]
    BY <1>1, <1>3 DEF SendCancel, TypeInv, CallRecords
  <2>2. \A g \in Handlers : call'[g].reader = "hold" => call'[g].held \in Nodes
    BY <1>1, <1>4, <1>5 DEF TypeInv, Untouched
  <2>3. QED
    BY <1>1, <2>1, <2>2 DEF TypeInv, SendCancel
<1>7. Quiet(h)'
  BY <1>1, <1>2, <1>4 DEF Quiet
<1>8. FoundAll(h)'
  BY <1>1 DEF HandlerInv, FoundAll, Dependency, SendCancel
<1>9. OwnRequest(h)' /\ Counted(h)' /\ Collected(h)' /\ OwnResults(h)' /\ PutThere(h)'
  BY <1>1 DEF HandlerInv, OwnRequest, Busy, Counted, Collected, OwnResults, PutThere, Reading,
              SendCancel
<1>10. StaysApart(h)
  BY <1>1 DEF StaysApart, SendCancel
<1>11. QED
  BY <1>5, <1>6, <1>7, <1>8, <1>9, <1>10, TableKept DEF SendCancel, HandlerInv

\* Nothing is left of a finished Store.
LEMMA FinishKeeps ==
  ASSUME IInv, NEW h \in Handlers, Finish(h)
  PROVE  IInv'
<1>1. TypeInv
  BY DEF IInv
<1>2. NoCall \in CallRecords /\ NoCall.reader # "hold"
  <2>1. <<>> \in Seq(Nodes \cup {"cancel"}) /\ <<>> \in Seq(Nodes) /\ <<>> \in Seq(SUBSET EdgeKeys)
    BY EmptySeq
  <2>2. QED
    BY <2>1 DEF NoCall, CallRecords
<1>3. /\ pc'[h] = "idle" /\ depth'[h] = 0 /\ stored'[h] = {} /\ call'[h] = NoCall
  BY <1>1 DEF Finish, TypeInv
<1>4. \A g \in Handlers \ {h} : Untouched(g)
  BY <1>1 DEF Untouched, Finish, TypeInv
<1>5. TypeInv'
  <2>1. /\ pc' \in [Handlers -> {"idle", "send", "receive", "cancel", "put", "delete", "ok", "error"}]
        /\ req' \in [Handlers -> Requests \cup {NoRequest}]
        /\ depth' \in [Handlers -> {0, 1}] /\ awaited' \in [Handlers -> Nat]
    BY <1>1 DEF Finish, TypeInv
  <2>2. /\ unsent' \in [Handlers -> SUBSET Nodes] /\ next' \in [Handlers -> SUBSET Modules]
        /\ stored' \in [Handlers -> SUBSET EdgeKeys] /\ call' \in [Handlers -> CallRecords]
    BY <1>1, <1>2 DEF Finish, TypeInv
  <2>3. \A g \in Handlers : call'[g].reader = "hold" => call'[g].held \in Nodes
    BY <1>1, <1>2, <1>3, <1>4 DEF TypeInv, Untouched
  <2>4. QED
    BY <1>1, <2>1, <2>2, <2>3 DEF TypeInv, Finish
<1>6. HandlerInv(h)'
  BY <1>3 DEF HandlerInv, OwnRequest, Busy, Counted, Quiet, Collected, OwnResults, FoundAll,
              PutThere, Reading
<1>7. StaysApart(h)
  BY <1>3 DEF StaysApart, Busy
<1>8. QED
  BY <1>4, <1>5, <1>6, <1>7, TableKept DEF Finish

\* The other Stores under way that do not overlap are for other sources.
LEMMA OtherSource ==
  ASSUME IInv, NEW h \in Handlers, Busy(h), NEW g \in Handlers \ {h}, Busy(g),
         req[g].url \notin Overlapping
  PROVE  req[g].url \in Sources \ {req[h].url}
<1>1. req[g] \in Requests
  BY DEF IInv, HandlerInv, OwnRequest
<1>2. req[g].url # req[h].url
  BY DEF IInv, Apart
<1>3. QED
  BY <1>1, <1>2, ProposedFacts

\* The rows after a Put: the proposed ones and the old ones, those of other sources
\* untouched.
LEMMA PutRows ==
  ASSUME IInv, NEW h \in Handlers, Busy(h), UNCHANGED req,
         table' = Inserted(table, GetProposed(req[h]))
  PROVE  /\ DOMAIN table' \subseteq RowKeys /\ \A k \in DOMAIN table' : table'[k] \in Refs \cup {NoRef}
         /\ NodesThere' /\ NothingUnreachable' /\ \A g \in Handlers \ {h} : RowsKept(g)
         /\ \A e \in RowKeys : Dependency(e, h)' => Dependency(e, h) \/ e \in ProposedEdges(req[h])
         /\ \A e \in ProposedEdges(req[h]) : e.k3 = req[h].url => e \in DOMAIN table' /\ table'[e] = req[h].ref
         /\ \A f \in req[h].manifestFiles : SourceModule(req[h].url, f.module) \in DOMAIN table'
<1> DEFINE r == req[h]
           P == ProposedNodes(r) \cup ProposedEdges(r)
<1>1. r \in Requests /\ TypeInv
  BY DEF IInv, HandlerInv, OwnRequest
<1>0. PICK s \in Sources : s = r.url
  BY <1>1, ProposedFacts
<1> HIDE DEF r
<1>2. /\ r.ref \in Refs
      /\ ProposedNodes(r) \subseteq RowKeys /\ ProposedEdges(r) \subseteq RowKeys
      /\ \A n \in ProposedNodes(r) : n.k1 = n.k2 /\ n.k3 = NoKey /\ Node(n.k2) \in ProposedNodes(r)
      /\ \A e \in ProposedEdges(r) :
           /\ Node(e.k2) \in ProposedNodes(r)
           /\ e.k3 = NoKey \/ (e.k3 = s /\ SourceModule(s, e.k1) \in ProposedEdges(r))
      /\ \A f \in r.manifestFiles : SourceModule(s, f.module) \in ProposedEdges(r)
  BY <1>0, <1>1, ProposedFacts
<1>3. /\ DOMAIN table' = DOMAIN table \cup P
      /\ \A e \in DOMAIN table : e \notin P => table'[e] = table[e]
      /\ \A e \in P : table'[e] = IF e.k3 = NoKey THEN NoRef ELSE r.ref
  <2>1. table' = Inserted(table, GetProposed(r))
    BY DEF r
  <2> DEFINE new == Inserted(table, GetProposed(r))
  <2>2. /\ DOMAIN new = DOMAIN table \cup ProposedNodes(r) \cup ProposedEdges(r)
        /\ \A e \in DOMAIN table : e \notin ProposedNodes(r) \cup ProposedEdges(r) => new[e] = table[e]
        /\ \A e \in ProposedNodes(r) \cup ProposedEdges(r) :
             new[e] = IF e.k3 = NoKey THEN NoRef ELSE r.ref
    BY <1>1, InsertedFacts
  <2> HIDE DEF new
  <2>3. table' = new
    BY <2>1 DEF new
  <2>4. DOMAIN table' = DOMAIN table \cup P
    BY <2>2, <2>3
  <2>5. QED
    BY <2>2, <2>3, <2>4
<1>4. \A e \in P : e.k3 = NoKey \/ e.k3 = s
  BY <1>2
<1>5. NoKey \notin Sources
  BY KeyAssumption
<1>6. DOMAIN table' \subseteq RowKeys /\ \A k \in DOMAIN table' : table'[k] \in Refs \cup {NoRef}
  BY <1>1, <1>2, <1>3 DEF TypeInv
<1>7. NodesThere'
  BY <1>2, <1>3 DEF IInv, NodesThere
<1>8. NothingUnreachable'
  <2>1. SUFFICES ASSUME NEW e \in DOMAIN table', e.k3 \in Sources \ Overlapping, e.k1 # e.k2
                 PROVE  SourceModule(e.k3, e.k1) \in DOMAIN table'
    BY DEF NothingUnreachable
  <2>2. CASE e \in DOMAIN table
    BY <1>3, <2>1, <2>2 DEF IInv, NothingUnreachable
  <2>3. CASE e \in P
    BY <1>2, <1>3, <1>5, <2>1, <2>3
  <2>4. QED
    BY <1>3, <2>1, <2>2, <2>3
<1>9. ASSUME NEW g \in Handlers \ {h} PROVE RowsKept(g)
  <2>1. (Busy(g) /\ req[g].url \notin Overlapping) => req[g].url \in Sources \ {s}
    BY <1>0, OtherSource DEF r
  <2>2. QED
    BY <1>3, <1>4, <1>5, <2>1 DEF RowsKept
<1>10. \A e \in RowKeys : Dependency(e, h)' => Dependency(e, h) \/ e \in ProposedEdges(r)
  BY <1>2, <1>3, <1>5 DEF Dependency
<1>11. \A e \in ProposedEdges(r) : e.k3 = s => e \in DOMAIN table' /\ table'[e] = r.ref
  BY <1>3, <1>5
<1>12. \A f \in r.manifestFiles : SourceModule(s, f.module) \in DOMAIN table'
  BY <1>2, <1>3
<1>13. QED
  BY <1>0, <1>6, <1>7, <1>8, <1>9, <1>10, <1>11, <1>12 DEF r

\* The rows after a Delete: nodes and rows of other sources are all there.  A module
\* of the source is deleted only with all its dependencies.
LEMMA DeleteRows ==
  ASSUME IInv, NEW h \in Handlers, pc[h] = "delete", UNCHANGED req,
         table' = Deleted(table, EdgesToDelete(h))
  PROVE  /\ DOMAIN table' \subseteq RowKeys /\ \A k \in DOMAIN table' : table'[k] \in Refs \cup {NoRef}
         /\ NodesThere' /\ NothingUnreachable' /\ \A g \in Handlers \ {h} : RowsKept(g)
         /\ \A e \in RowKeys : Dependency(e, h)' => Dependency(e, h) /\ e \in ProposedEdges(req[h])
         /\ req[h].url \notin Overlapping =>
              /\ \A e \in ProposedEdges(req[h]) :
                   e.k3 = req[h].url => e \in DOMAIN table' /\ table'[e] = req[h].ref
              /\ \A f \in req[h].manifestFiles : SourceModule(req[h].url, f.module) \in DOMAIN table'
<1> DEFINE r == req[h]
           K == EdgesToDelete(h)
<1>1. r \in Requests /\ TypeInv /\ HandlerInv(h) /\ Busy(h)
  BY DEF IInv, HandlerInv, OwnRequest, Busy
<1>0. PICK s \in Sources : s = r.url
  BY <1>1, ProposedFacts
<1>2. /\ DOMAIN table' = DOMAIN table \ K /\ \A e \in DOMAIN table' : table'[e] = table[e]
      /\ K = stored[h] \ ProposedEdges(r)
  BY DEF Deleted, EdgesToDelete
<1> HIDE DEF r, K
<1>3. \A e \in K : e \in EdgeKeys /\ ((e.k1 = s /\ e.k3 = NoKey) \/ e.k3 = s)
  BY <1>0, <1>1, <1>2 DEF HandlerInv, OwnResults, TypeInv, r
<1>4. /\ \A e \in ProposedEdges(r) : e.k3 = NoKey \/ SourceModule(s, e.k1) \in ProposedEdges(r)
      /\ \A f \in r.manifestFiles : SourceModule(s, f.module) \in ProposedEdges(r)
  BY <1>0, <1>1, ProposedFacts
<1>5. NoKey \notin Sources
  BY KeyAssumption
<1>6. DOMAIN table' \subseteq RowKeys /\ \A k \in DOMAIN table' : table'[k] \in Refs \cup {NoRef}
  BY <1>1, <1>2 DEF TypeInv
<1>7. NodesThere'
  <2>1. \A n : Node(n) \notin K
    BY <1>3 DEF EdgeKeys, Node, Row
  <2>2. QED
    BY <1>2, <2>1 DEF IInv, NodesThere
<1>8. \A e \in RowKeys : Dependency(e, h)' => Dependency(e, h) /\ e \in ProposedEdges(r)
  <2>1. SUFFICES ASSUME NEW e \in RowKeys, Dependency(e, h)' PROVE Dependency(e, h) /\ e \in ProposedEdges(r)
    OBVIOUS
  <2>2. Dependency(e, h) /\ e \notin K
    BY <1>2, <2>1 DEF Dependency
  <2>3. e \in stored[h] \/ e \in ProposedEdges(r)
    BY <1>1, <2>2 DEF HandlerInv, FoundAll, r
  <2>4. QED
    BY <1>2, <2>2, <2>3
<1>9. \A n, m : SourceModule(n, m).k1 = n /\ SourceModule(n, m).k3 = NoKey
  BY DEF SourceModule, Row
<1>10. NothingUnreachable'
  <2>1. SUFFICES ASSUME NEW e \in DOMAIN table', e.k3 \in Sources \ Overlapping, e.k1 # e.k2
                 PROVE  SourceModule(e.k3, e.k1) \in DOMAIN table'
    BY DEF NothingUnreachable
  <2>2. SourceModule(e.k3, e.k1) \in DOMAIN table
    BY <1>2, <2>1 DEF IInv, NothingUnreachable
  <2>3. CASE e.k3 # s
    BY <1>2, <1>3, <1>5, <1>9, <2>2, <2>3
  <2>4. CASE e.k3 = s
    <3>1. e \in ProposedEdges(r)
      BY <1>0, <1>6, <1>8, <2>1, <2>4 DEF Dependency, r
    <3>2. QED
      BY <1>2, <1>4, <1>5, <2>2, <2>4, <3>1
  <2>5. QED
    BY <2>3, <2>4
<1>11. ASSUME NEW g \in Handlers \ {h} PROVE RowsKept(g)
  <2>1. SUFFICES ASSUME Busy(g), req[g].url \notin Overlapping PROVE RowsKept(g)
    BY DEF RowsKept
  <2>2. PICK q \in Sources \ {s} : q = req[g].url
    BY <1>0, <1>1, <2>1, OtherSource DEF r
  <2>3. \A e \in K : e.k3 # q
    BY <1>3, <1>5
  <2>4. \A m \in Modules : SourceModule(q, m) \notin K
    BY <1>3, <1>5, <1>9
  <2>5. QED
    BY <1>2, <2>2, <2>3, <2>4 DEF RowsKept
<1>12. s \notin Overlapping =>
         \A e \in ProposedEdges(r) : e.k3 = s => e \in DOMAIN table' /\ table'[e] = r.ref
  BY <1>0, <1>1, <1>2 DEF HandlerInv, PutThere, r
<1>13. s \notin Overlapping => \A f \in r.manifestFiles : SourceModule(s, f.module) \in DOMAIN table'
  BY <1>0, <1>1, <1>2, <1>4 DEF HandlerInv, PutThere, r
<1>14. QED
  BY <1>0, <1>6, <1>7, <1>8, <1>10, <1>11, <1>12, <1>13 DEF r

\* A step of the Put or of the Delete, of which the table and the Store's place may
\* change.
LEMMA TableStep ==
  ASSUME IInv, NEW h \in Handlers, UNCHANGED <<req, clientVars, call>>,
         pc[h] \in {"put", "delete"}, NEW w \in {"put", "delete", "ok", "error"},
         pc' = [pc EXCEPT ![h] = w],
         DOMAIN table' \subseteq RowKeys, \A k \in DOMAIN table' : table'[k] \in Refs \cup {NoRef},
         NodesThere', NothingUnreachable', \A g \in Handlers \ {h} : RowsKept(g),
         FoundAll(h)', PutThere(h)'
  PROVE  IInv'
<1> USE DEF clientVars
<1>1. /\ TypeInv /\ HandlerInv(h) /\ pc'[h] = w /\ \A g \in Handlers \ {h} : pc'[g] = pc[g]
      /\ pc' \in [Handlers -> {"idle", "send", "receive", "cancel", "put", "delete", "ok", "error"}]
  BY DEF IInv, TypeInv
<1>2. TypeInv'
  BY <1>1 DEF TypeInv
<1>3. \A g \in Handlers \ {h} : HandlerInv(g)'
  BY <1>1, UntouchedKept DEF IInv, Untouched
<1>4. OwnRequest(h)' /\ Counted(h)' /\ Collected(h)' /\ OwnResults(h)'
  BY <1>1 DEF HandlerInv, OwnRequest, Busy, Counted, Collected, OwnResults, Reading
<1>5. Quiet(h)'
  BY <1>1 DEF HandlerInv, Quiet
<1>6. HandlerInv(h)'
  BY <1>4, <1>5 DEF HandlerInv
<1>7. Apart'
  BY <1>1 DEF IInv, Apart, Busy
<1>8. QED
  BY <1>2, <1>3, <1>6, <1>7 DEF IInv

\* A table that stays as it is has all the rows.
LEMMA SameRows ==
  ASSUME IInv, UNCHANGED <<table, req>>
  PROVE  /\ DOMAIN table' \subseteq RowKeys /\ \A k \in DOMAIN table' : table'[k] \in Refs \cup {NoRef}
         /\ NodesThere' /\ NothingUnreachable' /\ \A g \in Handlers : RowsKept(g)
         /\ \A g \in Handlers, e \in RowKeys : Dependency(e, g)' <=> Dependency(e, g)
  BY DEF IInv, TypeInv, NodesThere, NothingUnreachable, RowsKept, Dependency

\* A Put that is done, or fails with or without its effect.
LEMMA PutKeeps ==
  ASSUME IInv, NEW h \in Handlers, PutProposed(h) \/ PutFails(h)
  PROVE  IInv'
<1> DEFINE r == req[h]
<1>1. /\ pc[h] = "put" /\ UNCHANGED <<req, clientVars, call>> /\ Busy(h)
      /\ HandlerInv(h) /\ pc \in [Handlers -> {"idle", "send", "receive", "cancel", "put", "delete", "ok", "error"}]
  BY DEF PutProposed, PutFails, Busy, IInv, TypeInv
<1>2. PICK w \in {"put", "delete", "error"} : pc' = [pc EXCEPT ![h] = w]
      /\ (w = "delete" => table' = Inserted(table, GetProposed(r)))
  <2>1. pc = [pc EXCEPT ![h] = "put"]
    BY <1>1
  <2>2. QED
    BY <2>1 DEF PutProposed, PutFails
<1>3. pc'[h] = w
  BY <1>1, <1>2
<1>4. \A e \in RowKeys : Dependency(e, h) => e \in stored[h] \/ e \in ProposedEdges(r)
  BY <1>1 DEF HandlerInv, FoundAll
<1>5. stored'[h] = stored[h] /\ req'[h] = r
  BY <1>1 DEF clientVars
<1>6. CASE table' = Inserted(table, GetProposed(r))
  <2>1. FoundAll(h)'
    BY <1>1, <1>3, <1>4, <1>5, <1>6, PutRows DEF FoundAll
  <2>2. PutThere(h)'
    BY <1>1, <1>5, <1>6, PutRows DEF PutThere
  <2>3. QED
    BY <1>1, <1>2, <1>6, <2>1, <2>2, PutRows, TableStep
<1>7. CASE table' = table /\ w # "delete"
  <2>1. FoundAll(h)'
    BY <1>1, <1>3, <1>4, <1>5, <1>7, SameRows DEF FoundAll
  <2>2. PutThere(h)'
    BY <1>3, <1>7 DEF PutThere
  <2>3. QED
    BY <1>1, <1>2, <1>7, <2>1, <2>2, SameRows, TableStep
<1>8. QED
  BY <1>2, <1>6, <1>7 DEF PutProposed, PutFails

\* A Delete that is done, or fails with or without its effect.
LEMMA DeleteKeeps ==
  ASSUME IInv, NEW h \in Handlers, DeleteOutdated(h) \/ DeleteFails(h)
  PROVE  IInv'
<1> DEFINE r == req[h]
<1>1. /\ pc[h] = "delete" /\ UNCHANGED <<req, clientVars, call>>
      /\ HandlerInv(h) /\ pc \in [Handlers -> {"idle", "send", "receive", "cancel", "put", "delete", "ok", "error"}]
  BY DEF DeleteOutdated, DeleteFails, IInv, TypeInv
<1>2. PICK w \in {"delete", "ok", "error"} : pc' = [pc EXCEPT ![h] = w]
      /\ (w = "ok" => table' = Deleted(table, EdgesToDelete(h)))
  <2>1. pc = [pc EXCEPT ![h] = "delete"]
    BY <1>1
  <2>2. QED
    BY <2>1 DEF DeleteOutdated, DeleteFails
<1>3. pc'[h] = w
  BY <1>1, <1>2
<1>4. \A e \in RowKeys : Dependency(e, h) => e \in stored[h] \/ e \in ProposedEdges(r)
  BY <1>1 DEF HandlerInv, FoundAll
<1>5. stored'[h] = stored[h] /\ req'[h] = r
  BY <1>1 DEF clientVars
<1>6. CASE table' = Deleted(table, EdgesToDelete(h))
  <2>1. FoundAll(h)'
    BY <1>1, <1>3, <1>5, <1>6, DeleteRows DEF FoundAll
  <2>2. PutThere(h)'
    BY <1>1, <1>5, <1>6, DeleteRows DEF PutThere
  <2>3. QED
    BY <1>1, <1>2, <1>6, <2>1, <2>2, DeleteRows, TableStep
<1>7. CASE table' = table /\ w # "ok"
  <2>1. FoundAll(h)'
    BY <1>1, <1>3, <1>4, <1>5, <1>7, SameRows DEF FoundAll
  <2>2. PutThere(h)'
    BY <1>1, <1>3, <1>5, <1>7 DEF HandlerInv, PutThere
  <2>3. QED
    BY <1>1, <1>2, <1>7, <2>1, <2>2, SameRows, TableStep
<1>8. QED
  BY <1>2, <1>6, <1>7 DEF DeleteOutdated, DeleteFails

\* The invariant is inductive.
LEMMA StepKeeps ==
  ASSUME IInv, [Next]_vars
  PROVE  IInv'
<1>1. CASE UNCHANGED vars
  <2>1. TypeInv'
    BY <1>1 DEF IInv, TypeInv, vars, clientVars
  <2>2. NodesThere' /\ NothingUnreachable'
    BY <1>1 DEF IInv, NodesThere, NothingUnreachable, vars
  <2>3. ASSUME NEW g \in Handlers PROVE HandlerInv(g)'
    <3>1. Untouched(g) /\ RowsKept(g)
      BY <1>1 DEF Untouched, RowsKept, vars, clientVars
    <3>2. QED
      BY <3>1, UntouchedKept DEF IInv
  <2>4. Apart'
    BY <1>1 DEF IInv, Apart, Busy, vars
  <2>5. QED
    BY <2>1, <2>2, <2>3, <2>4 DEF IInv
<1>2. CASE \E h \in Handlers : (\E r \in Requests : Store(h, r)) \/ Client(h)
  <2>1. PICK h \in Handlers : (\E r \in Requests : Store(h, r)) \/ Client(h)
    BY <1>2
  <2>2. QED
    BY <2>1, StoreKeeps, SendRequestKeeps, ReceiveKeeps, ReadFailsKeeps, SendCancelKeeps, PutKeeps,
       DeleteKeeps, FinishKeeps DEF Client
<1>3. CASE \E h \in Handlers : Reader(h) \/ Server(h) \/ StreamLost(h) \/ ServerFails(h)
  <2>1. PICK h \in Handlers : Reader(h) \/ Server(h) \/ StreamLost(h) \/ ServerFails(h)
    BY <1>3
  <2>2. QED
    BY <2>1, ReaderReceivesKeeps, ReaderPassesKeeps, ReaderFailsKeeps, ServerAnswersKeeps,
       ServerSendsKeeps, ServerDoneKeeps, StreamLostKeeps, ServerFailsKeeps DEF Reader, Server
<1>4. CASE \E h \in Handlers : PutFails(h) \/ DeleteFails(h)
  BY <1>4, PutKeeps, DeleteKeeps
<1>5. QED
  BY <1>1, <1>2, <1>3, <1>4 DEF Next

-----------------------------------------------------------------------------
(* The theorem.                                                            *)

\* The properties follow from the invariant.
LEMMA InvariantImplies ==
  IInv => TypeOK /\ ResponsesMatch /\ StoredExactly /\ NothingUnreachable /\ NoReaderLeft
<1> SUFFICES ASSUME IInv
             PROVE  TypeOK /\ ResponsesMatch /\ StoredExactly /\ NothingUnreachable /\ NoReaderLeft
  OBVIOUS
<1>1. TypeOK
  <2>1. /\ \A h \in Handlers : call[h] \in CallRecords
        /\ EdgeKeys \subseteq RowKeys
    BY DEF IInv, TypeInv, EdgeKeys
  <2>2. \A h \in Handlers : /\ call[h].requests \in Seq(Sources \cup Modules \cup {"cancel"})
                           /\ call[h].incoming \in Seq(Sources \cup Modules)
                           /\ call[h].responses \in Seq(SUBSET EdgeKeys)
    BY <2>1 DEF CallRecords, Nodes
  <2>3. \A h \in Handlers : call[h].responses \in Seq(SUBSET RowKeys)
    <3>1. \A s \in Seq(SUBSET EdgeKeys) : s \in Seq(SUBSET RowKeys)
      <4>1. SUBSET EdgeKeys \subseteq SUBSET RowKeys
        BY <2>1
      <4>2. QED
        BY <4>1
    <3>2. QED
      BY <2>2, <3>1
  <2>4. QED
    BY <2>1, <2>2, <2>3 DEF IInv, TypeInv, TypeOK, Nodes
<1>2. ResponsesMatch
  BY DEF IInv, HandlerInv, Counted, Reading, ResponsesMatch
<1>3. StoredExactly
  <2>1. SUFFICES ASSUME NEW h \in Handlers, pc[h] = "ok", NEW s \in Sources \ Overlapping, s = req[h].url
                 PROVE  /\ \A m, d \in Modules : m # d =>
                             (ModuleDependency(m, d, s) \in DOMAIN table
                                <=> ModuleDependency(m, d, s) \in ProposedEdges(req[h]))
                        /\ \A e \in ProposedEdges(req[h]) : e.k3 = s => table[e] = req[h].ref
                        /\ \A f \in req[h].manifestFiles : SourceModule(s, f.module) \in DOMAIN table
    <3>1. \A h \in Handlers : pc[h] = "ok" => req[h].url \in Sources
      BY ProposedFacts DEF IInv, HandlerInv, OwnRequest, Busy
    <3>2. QED
      BY <3>1 DEF StoredExactly
  <2>2. HandlerInv(h)
    BY DEF IInv
  <2>3. ASSUME NEW m \in Modules, NEW d \in Modules, m # d
        PROVE  ModuleDependency(m, d, s) \in DOMAIN table
                 <=> ModuleDependency(m, d, s) \in ProposedEdges(req[h])
    <3> DEFINE e == ModuleDependency(m, d, s)
    <3>1. e \in RowKeys /\ e.k3 = s /\ e.k1 = m /\ e.k2 = d
      BY DEF RowKeys, ModuleDependency, Row
    <3> HIDE DEF e
    <3>2. e \in DOMAIN table => e \in ProposedEdges(req[h])
      BY <2>1, <2>2, <2>3, <3>1 DEF HandlerInv, FoundAll, Dependency
    <3>3. e \in ProposedEdges(req[h]) => e \in DOMAIN table
      BY <2>1, <2>2, <3>1 DEF HandlerInv, PutThere
    <3>4. QED
      BY <3>2, <3>3 DEF e
  <2>4. QED
    BY <2>1, <2>2, <2>3 DEF HandlerInv, PutThere
<1>4. NothingUnreachable /\ NoReaderLeft
  BY DEF IInv, HandlerInv, Quiet, NoReaderLeft
<1>5. QED
  BY <1>1, <1>2, <1>3, <1>4

\* Whatever requests the clients send, however the goroutines of a Traverse call and the
\* Stores interleave, and whatever fails: the client of a stream waits for exactly the
\* responses to come, and a Store that has read leaves no reader behind.  And where no two
\* Stores of a source run at a time (the service itself has no lock that keeps them
\* apart), no dependency of it is out of the traversal's reach, and a Store that succeeds
\* leaves exactly the dependencies of its request for it.
THEOREM ManifestStorageCorrect ==
  Spec => [](TypeOK /\ ResponsesMatch /\ StoredExactly /\ NothingUnreachable /\ NoReaderLeft)
<1>1. IInv /\ [Next]_vars => IInv'
  BY StepKeeps
<1>2. Spec => []IInv
  BY StoreStarts, <1>1, PTL DEF Spec
<1>3. QED
  BY <1>2, InvariantImplies, PTL

\* Rows go at a Delete only, and those it has read as the source's own.
LEMMA StepRemovesOwn ==
  ASSUME IInv, Next, NEW k \in DOMAIN table \ DOMAIN table'
  PROVE  /\ k.k1 # k.k2
         /\ \E h \in Handlers :
              pc[h] = "delete" /\ (k.k3 = req[h].url \/ (k.k3 = NoKey /\ k.k1 = req[h].url))
<1>1. table' # table
  OBVIOUS
<1>2. \A h \in Handlers : ~(Reader(h) \/ Server(h) \/ StreamLost(h) \/ ServerFails(h))
  BY <1>1 DEF Reader, Server, ReaderReceives, ReaderPasses, ReaderFails, ServerAnswers, ServerSends,
              ServerDone, StreamLost, ServerFails
<1>3. \A h \in Handlers : /\ \A r \in Requests : ~Store(h, r)
                          /\ \A n \in Sources \cup Modules : ~SendRequest(h, n)
                          /\ ~(Receive(h) \/ ReadFails(h) \/ SendCancel(h) \/ Finish(h))
  BY <1>1 DEF Store, SendRequest, Receive, ReadFails, SendCancel, Finish
<1>4. \A h \in Handlers : ~(PutProposed(h) \/ PutFails(h))
  <2>1. \A t, new : DOMAIN t \subseteq DOMAIN Inserted(t, new)
    BY DEF Inserted
  <2>2. QED
    BY <1>1, <2>1 DEF PutProposed, PutFails
<1>5. PICK h \in Handlers : DeleteOutdated(h) \/ DeleteFails(h)
  BY <1>2, <1>3, <1>4 DEF Next, Client
<1>6. pc[h] = "delete" /\ k \in stored[h]
  BY <1>1, <1>5 DEF DeleteOutdated, DeleteFails, Deleted, EdgesToDelete
<1>7. k \in EdgeKeys /\ OwnResults(h)
  BY <1>6 DEF IInv, TypeInv, HandlerInv
<1>8. QED
  BY <1>6, <1>7 DEF EdgeKeys, OwnResults

\* Whatever overlaps and fails, a Store never takes away a node, or a dependency or a
\* module of another source: what it deletes it has read as its own, however stale.
THEOREM OnlyOwnRows == Spec => ForeignRowsKept
<1>1. IInv /\ [Next]_vars => IInv'
  BY StepKeeps
<1>2. Spec => []IInv
  BY StoreStarts, <1>1, PTL DEF Spec
<1>3. IInv /\ [Next]_vars => [RemovesOwnRows]_vars
  BY StepRemovesOwn DEF RemovesOwnRows
<1>4. QED
  BY <1>2, <1>3, PTL DEF Spec, ForeignRowsKept
=============================================================================
