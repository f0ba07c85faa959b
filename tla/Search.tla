------------------------------- MODULE Search -------------------------------
(***************************************************************************)
(* The three streaming methods of the tracker's SearchService              *)
(* (services/v1alpha/service_search.go): Search, BreadthFirstSearch and    *)
(* DepthFirstSearch.  One call is modelled, with its two goroutines (the   *)
(* handler and the reader started by consumeStream), the client at the     *)
(* other end of the stream, and the Track calls that change the graph      *)
(* while the search is under way.                                          *)
(*                                                                         *)
(* The graph holds the depends edges in the direction the root asks for    *)
(* (dependencies or dependents).  The store returns neighbours in no       *)
(* particular order, so queue, stack and next are sets.                    *)
(***************************************************************************)
EXTENDS Naturals, Sequences, FiniteSets

CONSTANTS Modules,       \* the nodes of the graph
          Methods,       \* the methods the client may call
          Graphs,        \* the graphs the search may start on
          MaxChanges,    \* how often Track changes the graph during the search
          MaxMessages    \* how many messages the client sends

VARIABLES method,        \* the method called
          graph,         \* the live depends edges
          stable,        \* the edges that have been there all the time
          ever,          \* the edges that have been there at some time
          changes,       \* how often the graph has changed
          wire,          \* messages on their way to the tracker
          sentMessages,  \* how many messages the client has sent
          closed,        \* the client has closed its side of the stream
          done,          \* the context of the call is done
          reader,        \* the goroutine of consumeStream
          stream,        \* the channel it fills
          pc,            \* where the handler is
          root,          \* the first message it took from the channel
          queue,         \* requests of this tier (or the stack) not yet processed
          next,          \* requests for the next tier
          seen,          \* modules that have been put in a queue
          toSend,        \* responses of this tier not yet sent
          sent,          \* modules the client has got a response for, in order
          result         \* what the handler returned

searchVars == <<pc, root, queue, next, seen, toSend, sent, result>>
clientVars == <<wire, sentMessages, closed, done>>
graphVars == <<graph, stable, ever, changes>>
vars == <<method, graphVars, clientVars, reader, stream, searchVars>>

Edges == {e \in Modules \X Modules : e[1] # e[2]}

ASSUME GraphsAssumption == Graphs \subseteq SUBSET Edges

ASSUME MethodsAssumption ==
  Methods \subseteq {"Search", "BreadthFirstSearch", "DepthFirstSearch"}

ASSUME BoundsAssumption == MaxChanges \in Nat /\ MaxMessages \in Nat

\* A request for the neighbours of a module, one for the sources of a module or
\* the modules of a source, or a request to cancel.
Messages == Modules \cup {"sources", "cancel"}

Capacity == 2            \* of the channel consumeStream makes

Init ==
  /\ method \in Methods
  /\ graph \in Graphs /\ stable = graph /\ ever = graph /\ changes = 0
  /\ wire = <<>> /\ sentMessages = 0 /\ closed = FALSE /\ done = FALSE
  /\ reader = "start" /\ stream = <<>>
  /\ pc = "await" /\ root = "none" /\ queue = {} /\ next = {} /\ seen = {}
  /\ toSend = <<>> /\ sent = <<>> /\ result = "none"

-----------------------------------------------------------------------------
(* The client and the rest of the system.                                  *)

ClientSends(msg) ==
  /\ ~closed /\ ~done /\ pc # "returned"
  /\ sentMessages < MaxMessages
  /\ wire' = Append(wire, msg)
  /\ sentMessages' = sentMessages + 1
  /\ UNCHANGED <<method, graphVars, closed, done, reader, stream, searchVars>>

ClientCloses ==
  /\ ~closed /\ ~done /\ pc # "returned"
  /\ closed' = TRUE
  /\ UNCHANGED <<method, graphVars, wire, sentMessages, done, reader, stream, searchVars>>

\* The client cancels the call, its deadline passes or the connection breaks.
ContextDone ==
  /\ ~done /\ pc # "returned"
  /\ done' = TRUE
  /\ UNCHANGED <<method, graphVars, wire, sentMessages, closed, reader, stream, searchVars>>

\* A Track call adds or removes an edge.
GraphChanges ==
  /\ changes < MaxChanges /\ pc # "returned"
  /\ changes' = changes + 1
  /\ \E e \in Edges :
       graph' = IF e \in graph THEN graph \ {e} ELSE graph \cup {e}
  /\ stable' = stable \cap graph'
  /\ ever' = ever \cup graph'
  /\ UNCHANGED <<method, clientVars, reader, stream, searchVars>>

-----------------------------------------------------------------------------
(* consumeStream: one select, one Recv, and the goroutine is over.         *)

ReaderSelects ==
  /\ reader = "start"
  /\ reader' = IF done THEN "exit" ELSE "recv"
  /\ UNCHANGED <<method, graphVars, clientVars, stream, searchVars>>

ReaderReceives ==
  /\ reader = "recv" /\ wire # <<>> /\ ~done
  /\ reader' = "send"
  /\ UNCHANGED <<method, graphVars, clientVars, stream, searchVars>>

\* stream <- req, which nothing interrupts.
ReaderSends ==
  /\ reader = "send" /\ Len(stream) < Capacity
  /\ stream' = Append(stream, Head(wire))
  /\ wire' = Tail(wire)
  /\ reader' = "exit"
  /\ UNCHANGED <<method, graphVars, sentMessages, closed, done, searchVars>>

\* Recv fails: end of stream, context done, or the handler has returned.
ReaderFails ==
  /\ reader = "recv"
  /\ (closed /\ wire = <<>>) \/ done \/ pc = "returned"
  /\ reader' = "exit"
  /\ UNCHANGED <<method, graphVars, clientVars, stream, searchVars>>

-----------------------------------------------------------------------------
(* The handler.                                                            *)

Return(r) == pc' = "returned" /\ result' = r

\* root := <-stream (Search: a case of its select, where a cancel ends the call).
TakeRoot ==
  /\ pc = "await" /\ stream # <<>>
  /\ stream' = Tail(stream)
  /\ root' = Head(stream)
  /\ seen' = {Head(stream)}
  /\ queue' = {Head(stream)}
  /\ IF method = "Search" /\ Head(stream) = "cancel"
     THEN Return("cancelled")
     ELSE pc' = "process" /\ UNCHANGED result
  /\ UNCHANGED <<method, graphVars, clientVars, reader, next, toSend, sent>>

\* Search selects on the context as well; the other two methods do not.
SearchDone ==
  /\ pc = "await" /\ method = "Search" /\ done
  /\ Return("cancelled")
  /\ UNCHANGED <<method, graphVars, clientVars, reader, stream, root, queue, next, seen, toSend, sent>>

NeighbourEdges(m) == {e \in graph : e[1] = m}  \* a mutant: edges for nodes

Neighbours(m) == {e[2] : e \in {x \in graph : x[1] = m}}

\* The items transformResponse yields that no queue has had, and the ones seen.
Unseen(m) == Neighbours(m) \ seen

MarkedNot(m) == seen  \* a mutant: what is queued is not marked

Marked(m) == seen \cup Neighbours(m)

TierAlwaysOver(rest) == TRUE  \* a mutant

\* The responses are flushed when a breadth-first search has processed its whole
\* tier; the other methods send each response at once.
TierOver(rest) == method = "BreadthFirstSearch" => rest = {}

\* processRequest and transformResponse on one request of the queue.
Process(m) ==
  /\ pc = "process" /\ m \in queue /\ m \in Modules
  /\ queue' = queue \ {m}
  /\ toSend' = Append(toSend, m)
  /\ IF method = "Search" THEN UNCHANGED <<next, seen>>
     ELSE /\ next' = next \cup Unseen(m)
          /\ seen' = Marked(m)
  /\ pc' = IF TierOver(queue \ {m}) THEN "flush" ELSE "process"
  /\ UNCHANGED <<method, graphVars, clientVars, reader, stream, root, sent, result>>

\* A request for sources: an answer for Search, Unimplemented for the others
\* (transformResponse); a cancel as the root is Unimplemented (processRequest).
ProcessOther ==
  /\ pc = "process" /\ queue \cap {"sources", "cancel"} # {}
  /\ IF method = "Search" THEN /\ toSend' = Append(toSend, root)
                               /\ pc' = "flush" /\ UNCHANGED result
                          ELSE UNCHANGED toSend /\ Return("error")
  /\ UNCHANGED <<method, graphVars, clientVars, reader, stream, root, queue, next, seen, sent>>

\* The query of the graph store fails.
ProcessFails ==
  /\ pc = "process" /\ queue # {}
  /\ Return("error")
  /\ UNCHANGED <<method, graphVars, clientVars, reader, stream, root, queue, next, seen, toSend, sent>>

\* server.Send of the next response.
Send ==
  /\ pc = "flush" /\ toSend # <<>>
  /\ sent' = Append(sent, Head(toSend))
  /\ toSend' = Tail(toSend)
  /\ IF Len(toSend) > 1 THEN UNCHANGED <<pc, result>>
     ELSE IF method = "Search" THEN Return("ok")
     ELSE pc' = "select" /\ UNCHANGED result
  /\ UNCHANGED <<method, graphVars, clientVars, reader, stream, root, queue, next, seen>>

SendFails ==
  /\ pc = "flush" /\ done
  /\ Return("error")
  /\ UNCHANGED <<method, graphVars, clientVars, reader, stream, root, queue, next, seen, toSend, sent>>

\* The cases of the select at the end of an iteration that are ready.
Interrupts ==
  (IF done THEN {"cancelled"} ELSE {})
  \cup (IF stream = <<>> THEN {} ELSE {IF Head(stream) = "cancel" THEN "cancelled" ELSE "error"})

\* A mutant: the loop goes on with an empty queue.
ContinueForEver ==
  /\ pc = "select" /\ Interrupts = {}
  /\ queue' = next /\ next' = {} /\ pc' = "process"
  /\ UNCHANGED <<method, graphVars, clientVars, reader, stream, root, seen, toSend, sent, result>>

\* The select: a done context or another message ends the search, otherwise next
\* becomes the queue (the stack), replacing what was left in it.
Continue ==
  /\ pc = "select"
  /\ IF Interrupts # {} THEN /\ \E r \in Interrupts : Return(r)
                            /\ UNCHANGED <<queue, next>>
     ELSE /\ queue' = next
          /\ next' = {}
          /\ IF next = {} THEN Return("ok") ELSE pc' = "process" /\ UNCHANGED result
  /\ UNCHANGED <<method, graphVars, clientVars, reader, stream, root, seen, toSend, sent>>

Handler == \/ TakeRoot \/ SearchDone
           \/ (\E m \in Modules : Process(m)) \/ ProcessOther \/ ProcessFails
           \/ Send \/ SendFails \/ Continue

Reader == ReaderSelects \/ ReaderReceives \/ ReaderSends \/ ReaderFails

Environment == \/ \E msg \in Messages : ClientSends(msg)
               \/ ClientCloses \/ ContextDone \/ GraphChanges

Next == Handler \/ Reader \/ Environment

\* The Go scheduler runs both goroutines; no client has to do anything.
Fairness == WF_vars(Handler) /\ WF_vars(Reader)

Spec == Init /\ [][Next]_vars

FairSpec == Spec /\ Fairness

-----------------------------------------------------------------------------
(* Properties.                                                             *)

\* Requests in queues are for modules that were seen, once the root is a module.
TypeOK ==
  /\ method \in Methods
  /\ graph \subseteq Edges /\ stable \subseteq graph /\ graph \subseteq ever /\ ever \subseteq Edges
  /\ changes \in 0..MaxChanges /\ sentMessages \in 0..MaxMessages
  /\ wire \in Seq(Messages) /\ stream \in Seq(Messages)
  /\ closed \in BOOLEAN /\ done \in BOOLEAN
  /\ reader \in {"start", "recv", "send", "exit"}
  /\ pc \in {"await", "process", "flush", "select", "returned"}
  /\ root \in Messages \cup {"none"}
  /\ queue \subseteq Messages /\ next \subseteq Modules /\ seen \subseteq Messages
  /\ toSend \in Seq(Messages) /\ sent \in Seq(Messages)
  /\ result \in {"none", "ok", "cancelled", "error"}

\* The client gets one response per module, the root's first, and one for another
\* module only after that of a module that was next to it at some time: cycles,
\* diamonds and a changing graph produce no duplicate and no stray response.
DiscoveryOrder ==
  \A i \in 1..Len(sent) :
    /\ i = 1 => sent[i] = root
    /\ i > 1 => \E j \in 1..(i - 1) : <<sent[j], sent[i]>> \in ever
    /\ \A j \in 1..(i - 1) : sent[j] # sent[i]

Sent == {sent[i] : i \in 1..Len(sent)}

\* The modules sent hold the root and are closed under the edges that were there
\* all the time: everything that stayed reachable from the root has been sent.
Complete == root \in Sent /\ \A e \in stable : e[1] \in Sent => e[2] \in Sent

\* A breadth-first search that returns without an error or a cancellation has sent
\* everything that stayed reachable, whatever Track changed meanwhile.
BreadthFirstComplete == (result = "ok" /\ method = "BreadthFirstSearch") => Complete

\* A depth-first search, which explores each node, gets the adjacent nodes and pops
\* the next one from the stack, has done so too.
DepthFirstComplete == (result = "ok" /\ method = "DepthFirstSearch") => Complete

\* The modules at most n edges away from the root.
Ball[n \in Nat] ==
  IF n = 0 THEN {root}
  ELSE Ball[n - 1] \cup {e[2] : e \in {x \in graph : x[1] \in Ball[n - 1]}}

\* On a graph that does not change, breadth-first responses come in the order of
\* their distance from the root, which the topology command builds on.
TierOrder ==
  (method = "BreadthFirstSearch" /\ changes = 0) =>
    \A i, j \in 1..Len(sent) : \A n \in 0..Cardinality(Modules) :
      (i < j /\ sent[j] \in Ball[n]) => sent[i] \in Ball[n]

\* The client went away, or closed its side, before it sent a root: root := <-stream
\* waits for a reader that is over.
RootNeverCame == pc = "await" /\ method # "Search" /\ reader = "exit" /\ stream = <<>>

\* A search whose root has arrived returns however the graph changes under it, and
\* every search returns once its context is done, unless its root never came.
SearchReturns == (pc = "process" \/ done) ~> (pc = "returned" \/ RootNeverCame)
=============================================================================
