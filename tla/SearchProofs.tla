---------------------------- MODULE SearchProofs ----------------------------
(***************************************************************************)
(* The searches of the tracker, for every graph, every way it changes and  *)
(* every interleaving of handler, reader and client: responses come once   *)
(* per module and only for modules next to one that was answered, and a    *)
(* breadth-first search that returns OK has sent everything that stayed    *)
(* reachable.  On a graph that does not change its responses come in the   *)
(* order of their distance from the root.  Through the gateway a user gets *)
(* the same responses, and all of them when the gateway answers OK.        *)
(*                                                                         *)
(* The invariant splits the modules a search has come to into those sent,  *)
(* those whose responses are held back until the tier is over, those in    *)
(* the queue and those for the next tier.                                  *)
(***************************************************************************)
EXTENDS GatewaySearch, SequenceTheorems, WellFoundedInduction, TLAPS

BFS == "BreadthFirstSearch"

\* The modules whose responses are held back.
Held == {toSend[i] : i \in 1..Len(toSend)}

\* Where the handler and the reader are, and what they then hold.
ControlOK ==
  /\ reader = "send" => wire # <<>>
  /\ pc = "returned" <=> result # "none"
  /\ pc = "await" => /\ queue = {} /\ next = {} /\ seen = {} /\ toSend = <<>> /\ sent = <<>>
  /\ pc = "flush" => toSend # <<>>
  /\ pc = "select" => toSend = <<>> /\ method # "Search"
  /\ (pc \in {"flush", "select"} /\ method = BFS) => queue = {}

\* Search answers its root and returns.
SingleAnswer ==
  method = "Search" =>
    /\ pc = "process" => sent = <<>> /\ toSend = <<>> /\ queue = {root}
    /\ pc = "flush" => sent = <<>> /\ toSend = <<root>>
    /\ sent = <<>> \/ sent = <<root>>

\* An edge that was there at some time leads to m from a module in S.
Beside(m, S) == \E s \in S : <<s, m>> \in ever

\* What is held, queued and next is the root or beside what came before it, and no
\* module is in two of the places.
Frontier ==
  method # "Search" =>
    /\ DiscoveryOrder
    /\ \A i \in 1..Len(toSend) :
         \/ sent = <<>> /\ i = 1 /\ Len(toSend) = 1 /\ toSend[i] = root
         \/ Beside(toSend[i], Sent)
    /\ \A i, j \in 1..Len(toSend) : i # j => toSend[i] # toSend[j]
    /\ \A m \in queue : \/ sent = <<>> /\ toSend = <<>> /\ m = root /\ queue = {root}
                        \/ Beside(m, Sent)
    /\ \A m \in next : Beside(m, Sent \cup Held)
    /\ Sent \cap Held = {} /\ (Sent \cup Held) \cap (queue \cup next) = {} /\ queue \cap next = {}
    /\ Sent \cup Held \cup queue \cup next \subseteq seen

\* A breadth-first search drops nothing, and has marked what the answered modules
\* lead to by edges that stayed.
NothingDropped ==
  method = BFS =>
    /\ seen \subseteq Sent \cup Held \cup queue \cup next
    /\ pc # "await" => root \in seen
    /\ \A e \in stable : e[1] \in Sent \cup Held => e[2] \in seen
    /\ result = "ok" => toSend = <<>> /\ queue = {} /\ next = {}

\* The modules that G leads to from those in S.
Successors(G, S) == {e[2] : e \in {x \in G : x[1] \in S}}

\* The modules within fewer than d edges of the root.
Below(d) == IF d = 0 THEN {} ELSE Ball[d - 1]

\* A search at tier d: what it has sent, holds and has queued is the ball of radius d,
\* with the smaller balls all sent, and what it has for the next tier is what the
\* modules it has answered lead to beyond that ball.
AtTier(d) ==
  /\ Sent \cup Held \cup queue = Ball[d]
  /\ Below(d) \subseteq Sent /\ (Held \cup queue) \cap Below(d) = {}
  /\ pc = "process" => Sent = Below(d)
  /\ next = Successors(graph, Sent \cup Held) \ Ball[d]

\* Responses come in the order of their distance, whatever the distance.
Ordered ==
  \A i, j \in 1..Len(sent) : \A n \in Nat : (i < j /\ sent[j] \in Ball[n]) => sent[i] \in Ball[n]

\* A breadth-first search of a graph that has not changed is at some tier.
Tiers ==
  (method = BFS /\ changes = 0) =>
    /\ Ordered
    /\ pc \in {"process", "flush", "select"} => \E d \in Nat : AtTier(d)

\* The inductive invariant of the search.
SInv == TypeOK /\ ControlOK /\ SingleAnswer /\ Frontier /\ NothingDropped

\* The forwarding goroutine is started by the handler, which opens the call first.
ForwardPhase ==
  /\ path = "direct" <=> proxy = "none"
  /\ fwd = "none" => proxy \in {"none", "start", "returned"}
  /\ proxy \in {"none", "start"} => fwd = "none"
  /\ fwd = "send" => request \in Messages

\* What the handler of the gateway has received and not sent is the response it holds.
RelayPhase ==
  /\ proxy = "send" => taken = Len(delivered) + 1 /\ response = sent[taken]
  /\ proxy \in {"none", "start", "select", "recv"} => taken = Len(delivered)
  /\ Len(delivered) <= taken
  /\ proxyResult # "none" => proxy = "returned"

\* The inductive invariant of the search and the gateway.
GInv == SInv /\ GatewayTypeOK /\ ForwardPhase /\ RelayPhase /\ RelayExact
-----------------------------------------------------------------------------
(* Sequences as the sets of their elements.                                *)

Elements(s) == {s[i] : i \in 1..Len(s)}

\* Append adds one element, behind the others.
LEMMA ElementsAppend ==
  ASSUME NEW S, NEW s \in Seq(S), NEW x \in S
  PROVE  /\ Append(s, x) \in Seq(S) /\ Len(Append(s, x)) = Len(s) + 1 /\ Len(s) \in Nat
         /\ \A i \in 1..Len(s) : Append(s, x)[i] = s[i]
         /\ Append(s, x)[Len(s) + 1] = x
         /\ Elements(Append(s, x)) = Elements(s) \cup {x}
<1>1. /\ Append(s, x) \in Seq(S) /\ Len(Append(s, x)) = Len(s) + 1 /\ Len(s) \in Nat
      /\ \A i \in 1..Len(s) : Append(s, x)[i] = s[i]
      /\ Append(s, x)[Len(s) + 1] = x
  BY AppendProperties, LenProperties
<1>2. \A i : i \in 1..Len(Append(s, x)) <=> i \in 1..Len(s) \/ i = Len(s) + 1
  BY <1>1
<1>3. QED
  BY <1>1, <1>2 DEF Elements

\* Head and Tail part the elements.
LEMMA ElementsTail ==
  ASSUME NEW S, NEW s \in Seq(S), s # <<>>
  PROVE  /\ Tail(s) \in Seq(S) /\ Len(Tail(s)) = Len(s) - 1 /\ Len(s) \in Nat \ {0}
         /\ Head(s) = s[1] /\ Head(s) \in S
         /\ \A i \in 1..Len(Tail(s)) : Tail(s)[i] = s[i + 1]
         /\ Elements(s) = Elements(Tail(s)) \cup {Head(s)}
<1>1. /\ Tail(s) \in Seq(S) /\ Len(Tail(s)) = Len(s) - 1 /\ Len(s) \in Nat \ {0}
      /\ Head(s) = s[1] /\ Head(s) \in S
      /\ \A i \in 1..Len(Tail(s)) : Tail(s)[i] = s[i + 1]
  BY HeadTailProperties, LenProperties, ElementOfSeq, EmptySeq
<1>2. ASSUME NEW y \in Elements(s) PROVE y \in Elements(Tail(s)) \cup {Head(s)}
  <2>1. PICK i \in 1..Len(s) : y = s[i]
    BY <1>2 DEF Elements
  <2>2. CASE i = 1
    BY <1>1, <2>1, <2>2
  <2>3. CASE i # 1
    <3>1. i - 1 \in 1..Len(Tail(s)) /\ (i - 1) + 1 = i
      BY <1>1, <2>3
    <3>2. Tail(s)[i - 1] = y
      BY <1>1, <2>1, <3>1
    <3>3. QED
      BY <3>1, <3>2 DEF Elements
  <2>4. QED
    BY <2>2, <2>3
<1>3. ASSUME NEW y \in Elements(Tail(s)) \cup {Head(s)} PROVE y \in Elements(s)
  <2>1. CASE y = Head(s)
    <3>1. 1 \in 1..Len(s)
      BY <1>1
    <3>2. QED
      BY <1>1, <2>1, <3>1 DEF Elements
  <2>2. CASE y \in Elements(Tail(s))
    <3>1. PICK i \in 1..Len(Tail(s)) : y = Tail(s)[i]
      BY <2>2 DEF Elements
    <3>2. i + 1 \in 1..Len(s)
      BY <1>1
    <3>3. QED
      BY <1>1, <3>1, <3>2 DEF Elements
  <2>3. QED
    BY <1>3, <2>1, <2>2
<1>4. QED
  BY <1>1, <1>2, <1>3

\* Sent and Held are such sets.
LEMMA SentHeld == Sent = Elements(sent) /\ Held = Elements(toSend)
  BY DEF Sent, Held, Elements

-----------------------------------------------------------------------------
(* The search.                                                             *)

USE DEF searchVars, clientVars, graphVars, Messages

\* A search starts with nothing sent, held, queued or seen.
LEMMA SearchStarts == Init => SInv
<1> SUFFICES ASSUME Init PROVE SInv
  OBVIOUS
<1>1. wire \in Seq(Messages) /\ stream \in Seq(Messages) /\ toSend \in Seq(Messages) /\ sent \in Seq(Messages)
  BY EmptySeq DEF Init
<1>2. changes \in 0..MaxChanges /\ sentMessages \in 0..MaxMessages
  BY BoundsAssumption DEF Init
<1>3. TypeOK
  BY <1>1, <1>2, GraphsAssumption DEF Init, TypeOK
<1>4. Sent = {} /\ Held = {} /\ Len(sent) = 0 /\ Len(toSend) = 0
  BY EmptySeq DEF Init, Sent, Held
<1>5. ControlOK /\ SingleAnswer /\ NothingDropped
  BY <1>4 DEF Init, ControlOK, SingleAnswer, NothingDropped
<1>6. Frontier
  BY <1>4 DEF Init, Frontier, DiscoveryOrder
<1>7. QED
  BY <1>3, <1>5, <1>6 DEF SInv

\* The lists of a search keep their types.
LEMMA EnvironmentTypes == ASSUME TypeOK, ControlOK, Environment \/ Reader PROVE TypeOK' /\ ControlOK'
<1>1. /\ UNCHANGED <<method, searchVars>>
      /\ Sent' = Sent /\ Held' = Held
  BY DEF Environment, Reader, ClientSends, ClientCloses, ContextDone, GraphChanges,
     ReaderSelects, ReaderReceives, ReaderSends, ReaderFails, Sent, Held
<1>2. CASE \E msg \in Messages : ClientSends(msg)
  <2>1. PICK msg \in Messages : ClientSends(msg)
    BY <1>2
  <2>2. wire' \in Seq(Messages) /\ wire' # <<>>
    BY <2>1, ElementsAppend, EmptySeq DEF ClientSends, TypeOK
  <2>3. sentMessages' \in 0..MaxMessages
    BY <2>1, BoundsAssumption DEF ClientSends, TypeOK
  <2>4. QED
    BY <1>1, <2>1, <2>2, <2>3 DEF ClientSends, TypeOK, ControlOK
<1>3. CASE ClientCloses \/ ContextDone \/ ReaderSelects \/ ReaderReceives \/ ReaderFails
  <2>1. UNCHANGED <<graphVars, wire, sentMessages, stream>>
    BY <1>3 DEF ClientCloses, ContextDone, ReaderSelects, ReaderReceives, ReaderFails
  <2>2. closed' \in BOOLEAN /\ done' \in BOOLEAN
    BY <1>3 DEF ClientCloses, ContextDone, ReaderSelects, ReaderReceives, ReaderFails, TypeOK
  <2>3. reader' \in {"start", "recv", "send", "exit"} /\ (reader' = "send" => wire # <<>>)
    BY <1>3 DEF ClientCloses, ContextDone, ReaderSelects, ReaderReceives, ReaderFails, TypeOK,
       ControlOK
  <2>4. QED
    BY <1>1, <2>1, <2>2, <2>3 DEF TypeOK, ControlOK
<1>4. CASE GraphChanges
  <2>1. changes' \in 0..MaxChanges
    BY <1>4, BoundsAssumption DEF GraphChanges, TypeOK
  <2>2. graph' \subseteq Edges /\ stable' \subseteq graph' /\ graph' \subseteq ever' /\ ever' \subseteq Edges
    BY <1>4 DEF GraphChanges, TypeOK
  <2>3. QED
    BY <1>1, <1>4, <2>1, <2>2 DEF GraphChanges, TypeOK, ControlOK
<1>5. CASE ReaderSends
  <2>1. wire # <<>> /\ Head(wire) \in Messages /\ wire' \in Seq(Messages)
    BY <1>5, ElementsTail DEF ReaderSends, TypeOK, ControlOK
  <2>2. stream' \in Seq(Messages)
    BY <1>5, <2>1, ElementsAppend DEF ReaderSends, TypeOK
  <2>3. QED
    BY <1>1, <1>5, <2>1, <2>2 DEF ReaderSends, TypeOK, ControlOK
<1>6. QED
  BY <1>2, <1>3, <1>4, <1>5 DEF Environment, Reader

\* Clients, the reader and Track calls touch nothing the handler holds; edges that
\* were there at some time stay so, and edges that stayed can only become fewer.
LEMMA EnvironmentKeeps == ASSUME SInv, Environment \/ Reader PROVE SInv'
<1> USE DEF SInv
<1>1. UNCHANGED <<method, searchVars>> /\ Sent' = Sent /\ Held' = Held
  BY DEF Environment, Reader, ClientSends, ClientCloses, ContextDone, GraphChanges,
     ReaderSelects, ReaderReceives, ReaderSends, ReaderFails, Sent, Held
<1>2. ever \subseteq ever' /\ stable' \subseteq stable
  BY DEF Environment, Reader, ClientSends, ClientCloses, ContextDone, GraphChanges,
     ReaderSelects, ReaderReceives, ReaderSends, ReaderFails
<1>3. TypeOK' /\ ControlOK'
  BY EnvironmentTypes
<1>4. SingleAnswer' /\ NothingDropped'
  BY <1>1, <1>2 DEF SingleAnswer, NothingDropped
<1>5. Frontier'
  BY <1>1, <1>2 DEF Frontier, DiscoveryOrder, Beside
<1>6. QED
  BY <1>3, <1>4, <1>5

\* The handler returns without having touched what it holds.
LEMMA ReturnKeeps ==
  ASSUME SInv, pc # "await" \/ method = "Search",
         UNCHANGED <<method, graphVars, clientVars, reader, stream, root, queue, next, seen, toSend, sent>>,
         pc' = "returned", result' \in {"cancelled", "error"}
  PROVE  SInv'
<1> USE DEF SInv
<1>1. Sent' = Sent /\ Held' = Held
  BY DEF Sent, Held
<1>2. TypeOK' /\ ControlOK' /\ SingleAnswer'
  BY DEF TypeOK, ControlOK, SingleAnswer
<1>3. Frontier'
  BY <1>1 DEF Frontier, DiscoveryOrder, Beside
<1>4. NothingDropped'
  BY <1>1 DEF NothingDropped, BFS
<1>5. QED
  BY <1>2, <1>3, <1>4

\* The first message becomes the root, the only one in the queue and seen.
LEMMA TakeRootKeeps == ASSUME SInv, TakeRoot PROVE SInv'
<1> USE DEF SInv
<1>1. /\ UNCHANGED <<method, graphVars, clientVars, reader, next, toSend, sent>>
      /\ root' = Head(stream) /\ seen' = {root'} /\ queue' = {root'} /\ pc = "await"
      /\ \/ method = "Search" /\ pc' = "returned" /\ result' = "cancelled"
         \/ pc' = "process" /\ result' = result
  BY DEF TakeRoot, Return
<1>2. stream' \in Seq(Messages) /\ root' \in Messages
  BY ElementsTail DEF TakeRoot, TypeOK
<1>3. sent = <<>> /\ toSend = <<>> /\ next = {} /\ result = "none"
  BY <1>1 DEF ControlOK, TypeOK
<1>4. Sent' = {} /\ Held' = {} /\ Len(sent') = 0 /\ Len(toSend') = 0
  BY <1>1, <1>3, EmptySeq DEF Sent, Held
<1>5. TypeOK'
  BY <1>1, <1>2 DEF TypeOK
<1>6. ControlOK' /\ SingleAnswer'
  BY <1>1, <1>3 DEF ControlOK, SingleAnswer
<1>7. Frontier' /\ NothingDropped'
  BY <1>1, <1>3, <1>4 DEF Frontier, DiscoveryOrder, NothingDropped, BFS
<1>8. QED
  BY <1>5, <1>6, <1>7

\* A module is answered: it leaves the queue for the responses held back, and what it
\* leads to is marked, the unmarked part of it for the next tier.
LEMMA ProcessKeeps == ASSUME SInv, NEW m \in Modules, Process(m) PROVE SInv'
<1> USE DEF SInv
<1>1. /\ pc = "process" /\ m \in queue /\ queue' = queue \ {m}
      /\ toSend' = Append(toSend, m)
      /\ pc' = IF TierOver(queue \ {m}) THEN "flush" ELSE "process"
      /\ UNCHANGED <<method, graphVars, clientVars, reader, stream, root, sent, result>>
  BY DEF Process
<1>2. /\ toSend' \in Seq(Messages) /\ Len(toSend') = Len(toSend) + 1 /\ Len(toSend) \in Nat
      /\ \A i \in 1..Len(toSend) : toSend'[i] = toSend[i]
      /\ toSend'[Len(toSend) + 1] = m /\ toSend' # <<>>
      /\ Held' = Held \cup {m}
  BY <1>1, ElementsAppend, SentHeld, EmptySeq DEF TypeOK, Elements, Held
<1>3. Sent' = Sent
  BY <1>1 DEF Sent
<1>4. Neighbours(m) \subseteq Modules
  BY DEF Neighbours, TypeOK, Edges
<1>5. next' \subseteq Modules /\ seen' \subseteq Messages
  BY <1>4 DEF Process, Unseen, Marked, TypeOK
<1>6. TypeOK'
  BY <1>1, <1>2, <1>5 DEF TypeOK
<1>7. ControlOK'
  BY <1>1, <1>2 DEF ControlOK, TierOver, TypeOK, BFS
<1>8. CASE method = "Search"
  <2>1. toSend' = <<root>> /\ sent = <<>> /\ pc' = "flush"
    BY <1>1, <1>8 DEF SingleAnswer, TierOver
  <2>2. SingleAnswer' /\ Frontier' /\ NothingDropped'
    BY <1>1, <1>8, <2>1 DEF SingleAnswer, Frontier, NothingDropped, BFS
  <2>3. QED
    BY <1>6, <1>7, <2>2
<1>9. CASE method # "Search"
  <2>1. next' = next \cup (Neighbours(m) \ seen) /\ seen' = seen \cup Neighbours(m)
    BY <1>9 DEF Process, Unseen, Marked
  <2>2. ASSUME NEW n \in Neighbours(m) PROVE <<m, n>> \in ever
    <3>1. PICK e \in graph : e[1] = m /\ e[2] = n
      BY <2>2 DEF Neighbours
    <3>2. e \in Modules \X Modules /\ e \in ever
      BY DEF TypeOK, Edges
    <3>3. e = <<m, n>>
      BY <3>1, <3>2
    <3>4. QED
      BY <3>2, <3>3
  <2>3. Frontier'
    <3>1. DiscoveryOrder'
      BY <1>1, <1>9 DEF Frontier, DiscoveryOrder
    <3>2. \A i \in 1..Len(toSend') :
            \/ sent' = <<>> /\ i = 1 /\ Len(toSend') = 1 /\ toSend'[i] = root'
            \/ Beside(toSend'[i], Sent)
      <4> SUFFICES ASSUME NEW i \in 1..Len(toSend')
                   PROVE  \/ sent' = <<>> /\ i = 1 /\ Len(toSend') = 1 /\ toSend'[i] = root'
                          \/ Beside(toSend'[i], Sent)
        OBVIOUS
      <4>1. (sent = <<>> /\ toSend = <<>> /\ m = root) \/ Beside(m, Sent)
        BY <1>1, <1>9 DEF Frontier
      <4>2. CASE i = Len(toSend) + 1
        BY <1>1, <1>2, <4>1, <4>2, EmptySeq
      <4>3. CASE i \in 1..Len(toSend)
        <5>1. sent # <<>>
          <6>1. sent = <<>> => Sent = {}
            BY EmptySeq DEF Sent
          <6>2. toSend # <<>>
            BY <4>3, EmptySeq
          <6>3. QED
            BY <4>1, <6>1, <6>2 DEF Beside
        <5>2. QED
          BY <1>2, <1>9, <4>3, <5>1 DEF Frontier
      <4>4. QED
        BY <1>2, <4>2, <4>3
    <3>3. \A i, j \in 1..Len(toSend') : i # j => toSend'[i] # toSend'[j]
      <4>1. \A i \in 1..Len(toSend) : toSend[i] # m
        BY <1>1, <1>9 DEF Frontier, Held
      <4>2. \A i \in 1..Len(toSend') : i \in 1..Len(toSend) \/ i = Len(toSend) + 1
        BY <1>2
      <4>3. QED
        BY <1>2, <1>9, <4>1, <4>2 DEF Frontier
    <3>4. \A n \in queue' : Beside(n, Sent)
      BY <1>1, <1>9 DEF Frontier
    <3>5. \A n \in next' : Beside(n, Sent \cup Held')
      BY <1>2, <1>9, <2>1, <2>2 DEF Frontier, Beside
    <3>6. /\ Sent \cap Held' = {} /\ (Sent \cup Held') \cap (queue' \cup next') = {}
          /\ queue' \cap next' = {} /\ Sent \cup Held' \cup queue' \cup next' \subseteq seen'
      BY <1>1, <1>2, <1>9, <2>1 DEF Frontier
    <3>7. ever' = ever
      BY <1>1
    <3>8. QED
      BY <1>3, <3>1, <3>2, <3>3, <3>4, <3>5, <3>6, <3>7 DEF Frontier, Beside
  <2>4. NothingDropped'
    <3>1. \A e \in stable : e[1] = m => e[2] \in Neighbours(m)
      BY DEF Neighbours, TypeOK
    <3>2. pc # "await" /\ result' # "ok"
      BY <1>1 DEF ControlOK
    <3>3. QED
      BY <1>1, <1>2, <1>3, <2>1, <3>1, <3>2 DEF NothingDropped
  <2>5. SingleAnswer'
    BY <1>1, <1>9 DEF SingleAnswer
  <2>6. QED
    BY <1>6, <1>7, <2>3, <2>4, <2>5
<1>10. QED
  BY <1>8, <1>9

\* A root that names sources: an answer for Search, an error for the others.
LEMMA ProcessOtherKeeps == ASSUME SInv, ProcessOther PROVE SInv'
<1>1. CASE method # "Search"
  BY <1>1, ReturnKeeps DEF ProcessOther, Return
<1>2. CASE method = "Search"
  <2> USE DEF SInv
  <2>1. /\ toSend' = Append(toSend, root) /\ pc' = "flush" /\ pc = "process"
        /\ UNCHANGED <<method, graphVars, clientVars, reader, stream, root, queue, next, seen, sent, result>>
    BY <1>2 DEF ProcessOther
  <2>2. toSend' = <<root>> /\ sent = <<>> /\ root \in queue
    BY <1>2, <2>1 DEF SingleAnswer
  <2>3. root \in Messages
    BY <2>2 DEF TypeOK
  <2>4. TypeOK'
    BY <2>1, <2>2, <2>3 DEF TypeOK
  <2>5. ControlOK' /\ SingleAnswer' /\ Frontier' /\ NothingDropped'
    BY <1>2, <2>1, <2>2 DEF ControlOK, SingleAnswer, Frontier, NothingDropped, BFS
  <2>6. QED
    BY <2>4, <2>5
<1>3. QED
  BY <1>1, <1>2

\* The first response held back is sent: nothing is sent before what it is beside.
LEMMA SendKeeps == ASSUME SInv, Send PROVE SInv'
<1> USE DEF SInv
<1> DEFINE x == Head(toSend)
<1>1. /\ pc = "flush" /\ toSend # <<>> /\ sent' = Append(sent, x) /\ toSend' = Tail(toSend)
      /\ UNCHANGED <<method, graphVars, clientVars, reader, stream, root, queue, next, seen>>
  BY DEF Send
<1>2. /\ toSend' \in Seq(Messages) /\ Len(toSend') = Len(toSend) - 1 /\ Len(toSend) \in Nat \ {0}
      /\ x = toSend[1] /\ x \in Messages
      /\ \A i \in 1..Len(toSend') : toSend'[i] = toSend[i + 1]
      /\ Held = Held' \cup {x}
  <2>1. toSend \in Seq(Messages)
    BY DEF TypeOK
  <2>2. /\ Tail(toSend) \in Seq(Messages) /\ Len(Tail(toSend)) = Len(toSend) - 1
        /\ Len(toSend) \in Nat \ {0} /\ x = toSend[1] /\ x \in Messages
        /\ \A i \in 1..Len(Tail(toSend)) : Tail(toSend)[i] = toSend[i + 1]
        /\ Elements(toSend) = Elements(Tail(toSend)) \cup {x}
    BY <1>1, <2>1, ElementsTail
  <2>3. Held = Elements(toSend) /\ Held' = Elements(Tail(toSend))
    BY <1>1 DEF Held, Elements
  <2>4. QED
    BY <1>1, <2>2, <2>3
<1> HIDE DEF x
<1>3. /\ sent' \in Seq(Messages) /\ Len(sent') = Len(sent) + 1 /\ Len(sent) \in Nat
      /\ \A i \in 1..Len(sent) : sent'[i] = sent[i]
      /\ sent'[Len(sent) + 1] = x /\ Sent' = Sent \cup {x}
  BY <1>1, <1>2, ElementsAppend, SentHeld DEF TypeOK, Elements, Sent
<1>4. /\ Len(toSend) > 1 => pc' = pc /\ result' = result
      /\ ~(Len(toSend) > 1) =>
           IF method = "Search" THEN pc' = "returned" /\ result' = "ok"
           ELSE pc' = "select" /\ result' = result
  BY DEF Send, Return
<1>5. TypeOK'
  BY <1>1, <1>2, <1>3, <1>4 DEF TypeOK
<1>6. Len(toSend) > 1 <=> toSend' # <<>>
  BY <1>2, EmptySeq
<1>7. ControlOK'
  BY <1>1, <1>4, <1>6 DEF ControlOK
<1>8. CASE method = "Search"
  <2>1. toSend = <<root>> /\ sent = <<>>
    BY <1>1, <1>8 DEF SingleAnswer
  <2>2. Len(toSend) = 1 /\ x = root
    BY <1>2, <2>1
  <2>3. sent' = <<root>>
    BY <1>1, <2>1, <2>2
  <2>4. SingleAnswer' /\ Frontier' /\ NothingDropped'
    BY <1>1, <1>4, <1>8, <2>2, <2>3 DEF SingleAnswer, Frontier, NothingDropped, BFS
  <2>5. QED
    BY <1>5, <1>7, <2>4
<1>9. CASE method # "Search"
  <2>1. SingleAnswer' /\ result' = result
    BY <1>1, <1>4, <1>9 DEF SingleAnswer
  <2>2. x \notin Sent /\ x \notin Held'
    <3>1. \A i \in 1..Len(toSend') : i + 1 \in 1..Len(toSend) /\ i + 1 # 1 /\ 1 \in 1..Len(toSend)
      BY <1>2
    <3>2. \A i \in 1..Len(toSend') : toSend'[i] # x
      BY <1>2, <1>9, <3>1 DEF Frontier
    <3>3. QED
      BY <1>2, <1>9, <3>2 DEF Frontier, Held
  <2>3. (sent = <<>> /\ Len(toSend) = 1 /\ x = root) \/ Beside(x, Sent)
    <3>1. 1 \in 1..Len(toSend)
      BY <1>2
    <3>2. QED
      BY <1>2, <1>9, <3>1 DEF Frontier
  <2>4. sent = <<>> => Sent = {} /\ Len(sent) = 0
    BY EmptySeq DEF Sent
  <2>5. DiscoveryOrder'
    <3> SUFFICES ASSUME NEW i \in 1..Len(sent')
                 PROVE  /\ i = 1 => sent'[i] = root
                        /\ i > 1 => \E j \in 1..(i - 1) : <<sent'[j], sent'[i]>> \in ever
                        /\ \A j \in 1..(i - 1) : sent'[j] # sent'[i]
      BY <1>1 DEF DiscoveryOrder
    <3>1. CASE i \in 1..Len(sent)
      <4>1. 1..(i - 1) \subseteq 1..Len(sent)
        BY <1>3, <3>1
      <4>2. QED
        BY <1>3, <1>9, <3>1, <4>1 DEF Frontier, DiscoveryOrder
    <3>2. CASE i = Len(sent) + 1
      <4>1. i - 1 = Len(sent) /\ sent'[i] = x
        BY <1>3, <3>2
      <4>2. \A j \in 1..(i - 1) : sent'[j] # sent'[i]
        BY <1>3, <2>2, <4>1 DEF Sent
      <4>3. CASE sent = <<>> /\ x = root
        BY <2>4, <3>2, <4>1, <4>2, <4>3
      <4>4. CASE Beside(x, Sent)
        <5>1. PICK j \in 1..Len(sent) : <<sent[j], x>> \in ever
          BY <4>4 DEF Beside, Sent
        <5>2. i # 1 /\ j \in 1..(i - 1) /\ <<sent'[j], sent'[i]>> \in ever
          BY <1>3, <3>2, <4>1, <5>1
        <5>3. QED
          BY <4>2, <5>2
      <4>5. QED
        BY <2>3, <4>3, <4>4
    <3>3. i \in 1..Len(sent) \/ i = Len(sent) + 1
      BY <1>3
    <3>4. QED
      BY <3>1, <3>2, <3>3
  <2>6. \A i \in 1..Len(toSend') : Beside(toSend'[i], Sent)
    <3>1. \A i \in 1..Len(toSend') : i + 1 \in 1..Len(toSend) /\ i + 1 # 1
      BY <1>2
    <3>2. QED
      BY <1>2, <1>9, <3>1 DEF Frontier
  <2>7. \A i, j \in 1..Len(toSend') : i # j => toSend'[i] # toSend'[j]
    <3>1. \A i, j \in 1..Len(toSend') :
            i # j => i + 1 # j + 1 /\ i + 1 \in 1..Len(toSend) /\ j + 1 \in 1..Len(toSend)
      BY <1>2
    <3>2. QED
      BY <1>2, <1>9, <3>1 DEF Frontier
  <2>8. \A n \in queue : Beside(n, Sent)
    BY <1>1, <1>9 DEF Frontier
  <2>9. \A n \in next : Beside(n, Sent' \cup Held')
    BY <1>2, <1>3, <1>9 DEF Frontier, Beside
  <2>10. /\ Sent' \cap Held' = {} /\ (Sent' \cup Held') \cap (queue \cup next) = {} /\ queue \cap next = {}
         /\ Sent' \cup Held' \cup queue \cup next \subseteq seen
    BY <1>2, <1>3, <1>9, <2>2 DEF Frontier
  <2>11. Frontier'
    BY <1>1, <1>3, <2>5, <2>6, <2>7, <2>8, <2>9, <2>10 DEF Frontier, Beside
  <2>12. NothingDropped'
    <3>1. Sent' \cup Held' = Sent \cup Held
      BY <1>2, <1>3
    <3>2. result # "ok"
      BY <1>1 DEF ControlOK
    <3>3. QED
      BY <1>1, <2>1, <3>1, <3>2 DEF NothingDropped, ControlOK
  <2>13. QED
    BY <1>5, <1>7, <2>1, <2>11, <2>12
<1>10. QED
  BY <1>8, <1>9

\* A tier is over: the next one takes the place of the queue, or the search is done.
LEMMA ContinueKeeps == ASSUME SInv, Continue PROVE SInv'
<1>1. CASE Interrupts # {}
  <2>1. PICK r \in Interrupts : Return(r)
    BY <1>1 DEF Continue
  <2>2. r \in {"cancelled", "error"}
    BY DEF Interrupts
  <2>3. QED
    BY <1>1, <2>1, <2>2, ReturnKeeps DEF Continue, Return
<1>2. CASE Interrupts = {}
  <2> USE DEF SInv
  <2>1. /\ pc = "select" /\ queue' = next /\ next' = {}
        /\ IF next = {} THEN pc' = "returned" /\ result' = "ok" ELSE pc' = "process" /\ result' = result
        /\ UNCHANGED <<method, graphVars, clientVars, reader, stream, root, seen, toSend, sent>>
    BY <1>2 DEF Continue, Return
  <2>2. Sent' = Sent /\ Held' = Held /\ toSend = <<>> /\ method # "Search"
    BY <2>1 DEF Sent, Held, ControlOK
  <2>3. Held = {}
    BY <2>2, EmptySeq DEF Held
  <2>4. TypeOK' /\ ControlOK' /\ SingleAnswer'
    BY <2>1, <2>2 DEF TypeOK, ControlOK, SingleAnswer
  <2>5. Frontier'
    BY <2>1, <2>2, <2>3 DEF Frontier, DiscoveryOrder, Beside
  <2>6. NothingDropped'
    BY <2>1, <2>2, <2>3 DEF NothingDropped, ControlOK
  <2>7. QED
    BY <2>4, <2>5, <2>6
<1>3. QED
  BY <1>1, <1>2

\* Every step of a search keeps the invariant.
LEMMA SearchKeeps == SInv /\ [Next]_vars => SInv'
<1> SUFFICES ASSUME SInv, [Next]_vars PROVE SInv'
  OBVIOUS
<1>1. CASE Environment \/ Reader
  BY <1>1, EnvironmentKeeps
<1>2. CASE SearchDone \/ ProcessFails \/ SendFails
  BY <1>2, ReturnKeeps DEF SearchDone, ProcessFails, SendFails, Return
<1>3. CASE TakeRoot \/ (\E m \in Modules : Process(m)) \/ ProcessOther \/ Send \/ Continue
  BY <1>3, TakeRootKeeps, ProcessKeeps, ProcessOtherKeeps, SendKeeps, ContinueKeeps
<1>4. CASE UNCHANGED vars
  <2>1. Sent' = Sent /\ Held' = Held
    BY <1>4 DEF vars, Sent, Held
  <2>2. TypeOK' /\ ControlOK'
    BY <1>4 DEF vars, SInv, TypeOK, ControlOK
  <2>3. SingleAnswer' /\ NothingDropped'
    BY <1>4, <2>1 DEF vars, SInv, SingleAnswer, NothingDropped
  <2>4. Frontier'
    BY <1>4, <2>1 DEF vars, SInv, Frontier, DiscoveryOrder, Beside
  <2>5. QED
    BY <2>2, <2>3, <2>4 DEF SInv
<1>5. QED
  BY <1>1, <1>2, <1>3, <1>4 DEF Next, Handler

\* The invariant gives the order of the responses for all three methods.
LEMMA OrderHolds == SInv => DiscoveryOrder
<1> SUFFICES ASSUME SInv PROVE DiscoveryOrder
  OBVIOUS
<1>1. CASE method # "Search"
  BY <1>1 DEF SInv, Frontier
<1>2. CASE method = "Search"
  <2>1. sent = <<>> \/ sent = <<root>>
    BY <1>2 DEF SInv, SingleAnswer
  <2>2. Len(sent) = 0 \/ (Len(sent) = 1 /\ sent[1] = root)
    BY <2>1
  <2>3. QED
    BY <2>2 DEF DiscoveryOrder
<1>3. QED
  BY <1>1, <1>2

\* When a breadth-first search returns OK every place but Sent is empty, so that all
\* it has marked is sent.
LEMMA CompleteHolds == SInv => BreadthFirstComplete
<1> SUFFICES ASSUME SInv, result = "ok", method = BFS PROVE Complete
  BY DEF BreadthFirstComplete, BFS
<1>1. pc # "await" /\ toSend = <<>> /\ queue = {} /\ next = {}
  BY DEF SInv, ControlOK, NothingDropped
<1>2. Held = {}
  BY <1>1, EmptySeq DEF Held
<1>3. seen \subseteq Sent
  BY <1>1, <1>2 DEF SInv, NothingDropped
<1>4. QED
  BY <1>1, <1>3 DEF SInv, NothingDropped, Complete

\* A search a client calls directly: whatever Track does to the graph meanwhile, no
\* response is stray or double, and a breadth-first search misses nothing that stayed.
THEOREM SearchCorrect == Spec => [](TypeOK /\ DiscoveryOrder /\ BreadthFirstComplete)
<1>1. SInv => TypeOK /\ DiscoveryOrder /\ BreadthFirstComplete
  BY OrderHolds, CompleteHolds DEF SInv
<1>2. QED
  BY <1>1, SearchStarts, SearchKeeps, PTL DEF Spec

-----------------------------------------------------------------------------
(* The gateway.                                                            *)

USE DEF userVars, fwdVars, proxyVars, gatewayVars

\* Every step with the gateway in between is a step of the search, or leaves it alone.
LEMMA GatewaySteps == ASSUME ForwardPhase, [GatewayNext]_allVars PROVE [Next]_vars
<1>1. CASE TrackerHandler \/ TrackerReader
  BY <1>1 DEF TrackerHandler, TrackerReader, Next
<1>2. CASE Surroundings \/ CancelTracker
  BY <1>2 DEF Surroundings, CancelTracker, Next, Environment
<1>3. CASE ForwardSends
  BY <1>3 DEF ForwardSends, ForwardPhase, Next, Environment
<1>4. CASE ForwardSelects \/ ForwardReceives \/ ForwardRecvFails \/ ForwardSendFails
  BY <1>4 DEF ForwardSelects, ForwardReceives, ForwardRecvFails, ForwardSendFails
<1>5. CASE User \/ Proxy
  BY <1>5 DEF User, UserSends, UserCloses, UserGone, Proxy, ProxyStarts, ProxySelects,
     ProxyReceives, ProxyEnds, ProxyRecvFails, ProxySends, ProxySendFails
<1>6. CASE UNCHANGED allVars
  BY <1>6 DEF allVars
<1>7. QED
  BY <1>1, <1>2, <1>3, <1>4, <1>5, <1>6 DEF GatewayNext, Forward

\* What is sent stays sent, and a search that has returned sends no more.
LEMMA SentGrows ==
  ASSUME SInv, [Next]_vars
  PROVE  /\ Len(sent) \in Nat /\ Len(sent') \in Nat /\ Len(sent) <= Len(sent')
         /\ \A i \in 1..Len(sent) : sent'[i] = sent[i]
         /\ pc = "returned" => UNCHANGED <<sent, pc, result>>
<1>1. sent \in Seq(Messages) /\ Len(sent) \in Nat
  BY LenProperties DEF SInv, TypeOK
<1>2. CASE Send
  <2>1. Head(toSend) \in Messages
    BY <1>2, ElementsTail DEF Send, SInv, TypeOK
  <2>2. Len(sent') = Len(sent) + 1 /\ \A i \in 1..Len(sent) : sent'[i] = sent[i]
    BY <1>1, <1>2, <2>1, ElementsAppend DEF Send
  <2>3. QED
    BY <1>1, <1>2, <2>2 DEF Send
<1>3. CASE ~Send
  <2>1. sent' = sent
    BY <1>3 DEF Next, Handler, TakeRoot, SearchDone, Process, ProcessOther, ProcessFails,
       SendFails, Continue, Reader, ReaderSelects, ReaderReceives, ReaderSends, ReaderFails,
       Environment, ClientSends, ClientCloses, ContextDone, GraphChanges, vars
  <2>2. pc = "returned" => UNCHANGED <<pc, result>>
    BY <1>3 DEF Next, Handler, TakeRoot, SearchDone, Process, ProcessOther, ProcessFails,
       SendFails, Continue, Reader, ReaderSelects, ReaderReceives, ReaderSends, ReaderFails,
       Environment, ClientSends, ClientCloses, ContextDone, GraphChanges, vars
  <2>3. QED
    BY <1>1, <2>1, <2>2
<1>4. QED
  BY <1>2, <1>3

\* The call begins with nothing forwarded and nothing delivered.
LEMMA GatewayStarts == GatewayInit => GInv
<1> SUFFICES ASSUME GatewayInit PROVE GInv
  OBVIOUS
<1>1. SInv
  BY SearchStarts DEF GatewayInit
<1>2. /\ userWire \in Seq(UserMessages) /\ delivered \in Seq(Messages)
      /\ Len(delivered) = 0 /\ Len(sent) = 0 /\ pc = "await" /\ reader = "start" /\ ~done
  BY EmptySeq DEF GatewayInit, Init
<1>3. GatewayTypeOK
  <2>1. userSent \in 0..MaxMessages /\ taken \in 0..Len(sent)
    BY <1>2, BoundsAssumption DEF GatewayInit
  <2>2. userClosed \in BOOLEAN /\ userDone \in BOOLEAN /\ proxy \in {"none", "start"}
    BY DEF GatewayInit
  <2>3. QED
    BY <1>1, <1>2, <2>1, <2>2 DEF GatewayInit, GatewayTypeOK, SInv
<1>4. ForwardPhase /\ RelayPhase /\ RelayExact
  BY <1>2, PathsAssumption DEF GatewayInit, ForwardPhase, RelayPhase, RelayExact
<1>5. QED
  BY <1>1, <1>3, <1>4 DEF GInv

\* The relay does not notice a search that goes on: what it has delivered stays what
\* was sent, and the search it has seen the end of does not move.
LEMMA RelayUndisturbed ==
  ASSUME GInv, [Next]_vars, UNCHANGED <<taken, response, delivered, proxyResult, proxy>>,
         userDone => userDone'
  PROVE  RelayPhase' /\ RelayExact' /\ taken' \in 0..Len(sent')
<1>1. /\ Len(sent) \in Nat /\ Len(sent') \in Nat /\ Len(sent) <= Len(sent')
      /\ \A i \in 1..Len(sent) : sent'[i] = sent[i]
      /\ pc = "returned" => UNCHANGED <<sent, pc, result>>
  BY SentGrows DEF GInv
<1>2. Len(delivered) \in Nat /\ taken \in 0..Len(sent)
  BY LenProperties DEF GInv, GatewayTypeOK
<1>3. RelayPhase'
  <2>1. proxy = "send" => taken \in 1..Len(sent)
    BY <1>2 DEF GInv, RelayPhase
  <2>2. QED
    BY <1>1, <2>1 DEF GInv, RelayPhase
<1>4. RelayExact'
  <2>1. Len(delivered) <= Len(sent) /\ \A i \in 1..Len(delivered) : delivered[i] = sent[i]
    BY DEF GInv, RelayExact
  <2>2. Len(delivered') <= Len(sent') /\ \A i \in 1..Len(delivered') : delivered'[i] = sent'[i]
    BY <1>1, <1>2, <2>1
  <2>3. QED
    BY <1>1, <2>2 DEF GInv, RelayExact
<1>5. QED
  BY <1>1, <1>2, <1>3, <1>4

\* The tracker's side of the call, which is there only when it was opened.
LEMMA TrackerSideKeeps ==
  ASSUME GInv, TrackerHandler \/ TrackerReader \/ Surroundings \/ CancelTracker
  PROVE  GInv'
<1>1. [GatewayNext]_allVars /\ UNCHANGED gatewayVars
  BY DEF GatewayNext, TrackerHandler, TrackerReader, Surroundings, CancelTracker
<1>2. [Next]_vars
  BY <1>1, GatewaySteps DEF GInv
<1>3. Opened /\ Opened'
  <2>1. path = "direct" => Opened
    BY DEF GInv, ForwardPhase, Opened
  <2>2. Opened
    BY <2>1 DEF TrackerHandler, TrackerReader, Surroundings, CancelTracker
  <2>3. QED
    BY <1>1, <2>2 DEF Opened
<1>4. SInv'
  BY <1>2, SearchKeeps DEF GInv
<1>5. RelayPhase' /\ RelayExact' /\ taken' \in 0..Len(sent')
  BY <1>1, <1>2, RelayUndisturbed
<1>6. GatewayTypeOK' /\ ForwardPhase'
  BY <1>1, <1>3, <1>4, <1>5 DEF GInv, SInv, GatewayTypeOK, ForwardPhase
<1>7. QED
  BY <1>4, <1>5, <1>6 DEF GInv

\* The user sends, closes or goes away.
LEMMA UserKeeps == ASSUME GInv, User PROVE GInv'
<1>1. UNCHANGED <<vars, path, fwdVars, proxyVars>> /\ (userDone => userDone') /\ Opened' = Opened
  BY DEF User, UserSends, UserCloses, UserGone, Opened
<1>2. userWire' \in Seq(UserMessages) /\ userSent' \in 0..MaxMessages
  <2>1. CASE \E msg \in UserMessages : UserSends(msg)
    BY <2>1, BoundsAssumption, ElementsAppend DEF UserSends, GInv, GatewayTypeOK
  <2>2. CASE UserCloses \/ UserGone
    BY <2>2 DEF UserCloses, UserGone, GInv, GatewayTypeOK
  <2>3. QED
    BY <2>1, <2>2 DEF User
<1>3. userClosed' \in BOOLEAN /\ userDone' \in BOOLEAN
  BY DEF User, UserSends, UserCloses, UserGone, GInv, GatewayTypeOK
<1>4. SInv'
  BY <1>1, SearchKeeps DEF GInv
<1>5. RelayPhase' /\ RelayExact' /\ taken' \in 0..Len(sent')
  BY <1>1, RelayUndisturbed
<1>6. GatewayTypeOK' /\ ForwardPhase'
  BY <1>1, <1>2, <1>3, <1>4, <1>5 DEF GInv, SInv, GatewayTypeOK, ForwardPhase, vars
<1>7. QED
  BY <1>4, <1>5, <1>6 DEF GInv

\* The forwarding goroutine hands the tracker only what a user may send.
LEMMA ForwardKeeps == ASSUME GInv, Forward PROVE GInv'
<1>1. /\ UNCHANGED <<path, userSent, userClosed, userDone, proxyVars>>
      /\ fwd' \in {"select", "recv", "send", "exit"} /\ fwd # "none"
  BY DEF Forward, ForwardSelects, ForwardReceives, ForwardRecvFails, ForwardSends, ForwardSendFails
<1>2. /\ userWire' \in Seq(UserMessages) /\ request' \in Messages \cup {"none"}
      /\ fwd' = "send" => request' \in Messages
  <2>1. CASE ForwardReceives
    BY <2>1, ElementsTail, GatewayAssumption DEF ForwardReceives, GInv, GatewayTypeOK
  <2>2. CASE ForwardSelects \/ ForwardRecvFails \/ ForwardSends \/ ForwardSendFails
    BY <2>2 DEF ForwardSelects, ForwardRecvFails, ForwardSends, ForwardSendFails, GInv,
       GatewayTypeOK
  <2>3. QED
    BY <2>1, <2>2 DEF Forward
<1>3. [Next]_vars
  BY GatewaySteps DEF GInv, GatewayNext
<1>4. SInv'
  BY <1>3, SearchKeeps DEF GInv
<1>5. RelayPhase' /\ RelayExact' /\ taken' \in 0..Len(sent')
  BY <1>1, <1>3, RelayUndisturbed
<1>6. Opened' /\ ForwardPhase'
  BY <1>1, <1>2 DEF GInv, ForwardPhase, Opened
<1>7. GatewayTypeOK'
  BY <1>1, <1>2, <1>4, <1>5, <1>6 DEF GInv, SInv, GatewayTypeOK
<1>8. QED
  BY <1>4, <1>5, <1>6, <1>7 DEF GInv

\* The handler of the gateway returns: with OK for a user who is there only when the
\* tracker has answered and every response is delivered.
LEMMA ProxyReturnKeeps ==
  ASSUME GInv, UNCHANGED <<vars, path, userVars, request, taken, response, delivered>>,
         NEW r \in {"ok", "error"}, ProxyReturns(r),
         \/ proxy = "start" /\ r = "error" /\ UNCHANGED fwd
         \/ proxy \in {"select", "recv", "send"} /\ UNCHANGED fwd,
         (r = "ok" /\ ~userDone) =>
            pc = "returned" /\ result \in {"ok", "cancelled"} /\ taken = Len(sent) /\ proxy = "recv"
  PROVE  GInv'
<1>1. proxy' = "returned" /\ proxyResult' = r
  BY DEF ProxyReturns
<1>2. SInv'
  BY SearchKeeps DEF GInv
<1>3. Opened => Opened'
  BY <1>1 DEF GInv, ForwardPhase, Opened
<1>4. UNCHANGED <<sent, pc, reader, done, result>>
  BY DEF vars
<1>5. GatewayTypeOK'
  BY <1>1, <1>2, <1>3, <1>4 DEF GInv, SInv, GatewayTypeOK
<1>6. ForwardPhase' /\ RelayPhase'
  BY <1>1, <1>4 DEF GInv, ForwardPhase, RelayPhase
<1>7. RelayExact'
  <2>1. ASSUME r = "ok", ~userDone
        PROVE  pc' = "returned" /\ result' \in {"ok", "cancelled"} /\ delivered' = sent'
    <3>1. Len(delivered) = Len(sent)
      BY <2>1 DEF GInv, RelayPhase
    <3>2. delivered \in Seq(Messages) /\ sent \in Seq(Messages)
      BY DEF GInv, GatewayTypeOK, TypeOK
    <3>3. delivered = sent
      BY <3>1, <3>2, SeqEqual DEF GInv, RelayExact
    <3>4. QED
      BY <1>4, <2>1, <3>3
  <2>2. QED
    BY <1>1, <1>4, <2>1 DEF GInv, RelayExact
<1>8. QED
  BY <1>2, <1>5, <1>6, <1>7 DEF GInv

\* Every step of the gateway's handler.
LEMMA ProxyKeeps == ASSUME GInv, Proxy PROVE GInv'
<1>1. UNCHANGED <<vars, path, userVars, request>>
  BY DEF Proxy, ProxyStarts, ProxySelects, ProxyReceives, ProxyEnds, ProxyRecvFails, ProxySends,
     ProxySendFails
<1>2. SInv' /\ UNCHANGED <<sent, pc, reader, done, result>>
  BY <1>1, SearchKeeps DEF GInv, vars
<1>3. CASE ProxyStarts
  <2>1. CASE ProxyReturns("error") /\ UNCHANGED fwd
    BY <1>1, <1>3, <2>1, ProxyReturnKeeps DEF ProxyStarts
  <2>2. CASE proxy' = "select" /\ fwd' = "select" /\ UNCHANGED proxyResult
    <3>1. UNCHANGED <<taken, response, delivered>> /\ proxy = "start" /\ Opened'
      BY <1>3, <2>2 DEF ProxyStarts, Opened
    <3>2. GatewayTypeOK'
      BY <1>1, <1>2, <2>2, <3>1 DEF GInv, SInv, GatewayTypeOK
    <3>3. ForwardPhase' /\ RelayPhase' /\ RelayExact'
      BY <1>1, <1>2, <2>2, <3>1 DEF GInv, ForwardPhase, RelayPhase, RelayExact
    <3>4. QED
      BY <1>2, <3>2, <3>3 DEF GInv
  <2>3. QED
    BY <1>3, <2>1, <2>2 DEF ProxyStarts
<1>4. CASE ProxySelects /\ ~userDone
  <2>1. proxy = "select" /\ proxy' = "recv" /\ UNCHANGED <<fwdVars, taken, response, delivered, proxyResult>>
    BY <1>4 DEF ProxySelects
  <2>2. GatewayTypeOK'
    BY <1>1, <1>2, <2>1 DEF GInv, SInv, GatewayTypeOK, Opened
  <2>3. ForwardPhase' /\ RelayPhase' /\ RelayExact'
    BY <1>1, <1>2, <2>1 DEF GInv, ForwardPhase, RelayPhase, RelayExact
  <2>4. QED
    BY <1>2, <2>2, <2>3 DEF GInv
<1>5. CASE (ProxySelects /\ userDone) \/ ProxyRecvFails \/ ProxySendFails
  BY <1>1, <1>5, ProxyReturnKeeps DEF ProxySelects, ProxyRecvFails, ProxySendFails
<1>6. CASE ProxyEnds
  <2>1. result # "error" => result \in {"ok", "cancelled"}
    BY <1>6 DEF ProxyEnds, GInv, SInv, ControlOK, TypeOK
  <2>2. QED
    BY <1>1, <1>6, <2>1, ProxyReturnKeeps DEF ProxyEnds
<1>7. CASE ProxyReceives
  <2>1. /\ proxy = "recv" /\ proxy' = "send" /\ response' = sent[taken + 1] /\ taken' = taken + 1
        /\ taken < Len(sent) /\ UNCHANGED <<fwdVars, delivered, proxyResult>>
    BY <1>7 DEF ProxyReceives
  <2>2. Len(sent) \in Nat /\ taken \in 0..Len(sent) /\ taken = Len(delivered)
    BY <2>1, LenProperties DEF GInv, GatewayTypeOK, TypeOK, RelayPhase
  <2>3. taken' \in 1..Len(sent) /\ response' \in Messages
    BY <2>1, <2>2, ElementOfSeq DEF GInv, GatewayTypeOK, TypeOK
  <2>4. GatewayTypeOK'
    BY <1>1, <1>2, <2>1, <2>2, <2>3 DEF GInv, SInv, GatewayTypeOK, Opened
  <2>5. ForwardPhase' /\ RelayPhase' /\ RelayExact'
    BY <1>1, <1>2, <2>1, <2>2 DEF GInv, ForwardPhase, RelayPhase, RelayExact
  <2>6. QED
    BY <1>2, <2>4, <2>5 DEF GInv
<1>8. CASE ProxySends
  <2>1. /\ proxy = "send" /\ proxy' = "select" /\ delivered' = Append(delivered, response)
        /\ UNCHANGED <<fwdVars, taken, response, proxyResult>>
    BY <1>8 DEF ProxySends
  <2>2. /\ taken = Len(delivered) + 1 /\ response = sent[taken] /\ taken \in 0..Len(sent)
        /\ Len(delivered) \in Nat /\ Len(sent) \in Nat /\ delivered \in Seq(Messages)
    BY <2>1, LenProperties DEF GInv, GatewayTypeOK, TypeOK, RelayPhase
  <2>3. taken \in 1..Len(sent) /\ response \in Messages
    BY <2>2, ElementOfSeq DEF GInv, GatewayTypeOK, TypeOK
  <2>4. /\ delivered' \in Seq(Messages) /\ Len(delivered') = taken
        /\ \A i \in 1..Len(delivered) : delivered'[i] = delivered[i]
        /\ delivered'[taken] = sent[taken]
    BY <2>1, <2>2, <2>3, ElementsAppend
  <2>5. \A i \in 1..taken : delivered'[i] = sent[i]
    <3>1. \A i \in 1..taken : i \in 1..Len(delivered) \/ i = taken
      BY <2>2
    <3>2. QED
      BY <2>4, <3>1 DEF GInv, RelayExact
  <2>6. GatewayTypeOK'
    BY <1>1, <1>2, <2>1, <2>4 DEF GInv, SInv, GatewayTypeOK, Opened
  <2>7. ForwardPhase' /\ RelayPhase'
    BY <1>1, <1>2, <2>1, <2>2, <2>4 DEF GInv, ForwardPhase, RelayPhase
  <2>8. RelayExact'
    BY <1>2, <2>1, <2>2, <2>3, <2>4, <2>5 DEF GInv, RelayPhase, RelayExact
  <2>9. QED
    BY <1>2, <2>6, <2>7, <2>8 DEF GInv
<1>9. QED
  BY <1>3, <1>4, <1>5, <1>6, <1>7, <1>8 DEF Proxy

\* Every step of the whole call keeps the invariant.
LEMMA GatewayKeeps == GInv /\ [GatewayNext]_allVars => GInv'
<1> SUFFICES ASSUME GInv, [GatewayNext]_allVars PROVE GInv'
  OBVIOUS
<1>1. CASE GatewayNext
  BY <1>1, TrackerSideKeeps, UserKeeps, ForwardKeeps, ProxyKeeps DEF GatewayNext
<1>2. CASE UNCHANGED allVars
  <2>1. [Next]_vars /\ UNCHANGED gatewayVars /\ Opened' = Opened /\ UNCHANGED <<pc, reader, done>>
    BY <1>2 DEF allVars, vars, Opened
  <2>2. SInv'
    BY <2>1, SearchKeeps DEF GInv
  <2>3. RelayPhase' /\ RelayExact' /\ taken' \in 0..Len(sent')
    BY <2>1, RelayUndisturbed
  <2>4. GatewayTypeOK' /\ ForwardPhase'
    BY <2>1, <2>2, <2>3 DEF GInv, SInv, GatewayTypeOK, ForwardPhase
  <2>5. QED
    BY <2>2, <2>3, <2>4 DEF GInv
<1>3. QED
  BY <1>1, <1>2

\* A search as its user sees it, directly or through the gateway: the order and the
\* completeness of the responses, and a relay that loses, repeats and hides nothing.
THEOREM GatewaySearchCorrect ==
  GatewaySpec => [](GatewayTypeOK /\ DiscoveryOrder /\ BreadthFirstComplete /\ RelayExact)
<1>1. GInv => GatewayTypeOK /\ DiscoveryOrder /\ BreadthFirstComplete /\ RelayExact
  BY OrderHolds, CompleteHolds DEF GInv
<1>2. QED
  BY <1>1, GatewayStarts, GatewayKeeps, PTL DEF GatewaySpec

-----------------------------------------------------------------------------
(* The balls around the root: Ball is a recursive function, so that a      *)
(* function with its equation has to be shown to exist.                    *)

\* Induction on the naturals, for a set of them.
LEMMA SetInduction ==
  ASSUME NEW S, 0 \in S, \A n \in Nat : n \in S => n + 1 \in S
  PROVE  \A n \in Nat : n \in S
<1>1. SUFFICES ASSUME NEW n \in Nat, n \notin S PROVE FALSE
  OBVIOUS
<1> DEFINE T == Nat \ S
<1>2. PICK R : R = OpToRel(<, Nat)
  BY Zenon
<1>3. IsWellFoundedOn(R, Nat)
  BY <1>2, NatLessThanWellFounded, Zenon
<1>4. \A k, m \in Nat : k < m => <<k, m>> \in R
  BY <1>2 DEF OpToRel
<1>5. PICK m \in T : \A k \in T : ~ (<<k, m>> \in R)
  BY <1>1, <1>3, WFMin
<1>6. m # 0 /\ m - 1 \in Nat /\ m - 1 < m
  OBVIOUS
<1>7. (m - 1) + 1 = m
  OBVIOUS
<1>8. m - 1 \in T
  BY <1>6, <1>7
<1>9. QED
  BY <1>4, <1>5, <1>6, <1>8

\* The equation of Ball, for any root and graph.
BallEquation(f, r, G) ==
  f = [n \in Nat |-> IF n = 0 THEN {r} ELSE f[n - 1] \cup Successors(G, f[n - 1])]

\* The smallest family of sets that holds the root and is closed under the edges
\* satisfies it.
LEMMA BallExists == ASSUME NEW r, NEW G PROVE \E f : BallEquation(f, r, G)
<1> DEFINE V == {r} \cup {e[2] : e \in G}
           Closed == {g \in [Nat -> SUBSET V] :
                        r \in g[0] /\ \A k \in Nat : g[k] \cup Successors(G, g[k]) \subseteq g[k + 1]}
           f == [n \in Nat |-> {y \in V : \A g \in Closed : y \in g[n]}]
           h == [n \in Nat |-> IF n = 0 THEN {r} ELSE f[n - 1] \cup Successors(G, f[n - 1])]
<1>1. \A S \in SUBSET V : Successors(G, S) \subseteq V
  BY DEF Successors
<1>2. f \in [Nat -> SUBSET V]
  OBVIOUS
<1>3. r \in f[0]
  OBVIOUS
<1>4. ASSUME NEW k \in Nat PROVE f[k] \cup Successors(G, f[k]) \subseteq f[k + 1]
  <2>1. k + 1 \in Nat
    OBVIOUS
  <2>2. ASSUME NEW y \in f[k] \cup Successors(G, f[k]), NEW g \in Closed PROVE y \in g[k + 1]
    <3>1. f[k] \subseteq g[k]
      OBVIOUS
    <3>2. Successors(G, f[k]) \subseteq Successors(G, g[k])
      BY <3>1 DEF Successors
    <3>3. QED
      BY <2>2, <3>1, <3>2
  <2>3. f[k] \cup Successors(G, f[k]) \subseteq V
    BY <1>1, <1>2
  <2>4. QED
    BY <2>1, <2>2, <2>3
<1>5. ASSUME NEW k \in Nat PROVE h[k] \subseteq f[k]
  <2>1. CASE k = 0
    BY <1>3, <2>1
  <2>2. CASE k # 0
    <3>1. k - 1 \in Nat /\ (k - 1) + 1 = k
      BY <2>2
    <3>2. f[k - 1] \cup Successors(G, f[k - 1]) \subseteq f[k]
      BY <1>4, <3>1
    <3>3. h[k] = f[k - 1] \cup Successors(G, f[k - 1])
      BY <2>2
    <3>4. QED
      BY <3>2, <3>3
  <2>3. QED
    BY <2>1, <2>2
<1> HIDE DEF f
<1>6. h \in Closed
  <2>1. h \in [Nat -> SUBSET V]
    <3>1. \A n \in Nat : n # 0 => n - 1 \in Nat
      OBVIOUS
    <3>2. \A n \in Nat : f[n] \in SUBSET V
      BY <1>2
    <3>3. ASSUME NEW n \in Nat PROVE h[n] \in SUBSET V
      BY <1>5, <3>2
    <3>4. QED
      BY <3>3
  <2>2. r \in h[0]
    OBVIOUS
  <2>3. ASSUME NEW k \in Nat PROVE h[k] \cup Successors(G, h[k]) \subseteq h[k + 1]
    <3>1. k + 1 \in Nat /\ k + 1 # 0 /\ (k + 1) - 1 = k
      OBVIOUS
    <3>2. h[k + 1] = f[k] \cup Successors(G, f[k])
      BY <3>1
    <3>3. Successors(G, h[k]) \subseteq Successors(G, f[k])
      BY <1>5 DEF Successors
    <3>4. QED
      BY <1>5, <3>2, <3>3
  <2>4. QED
    BY <2>1, <2>2, <2>3
<1>7. ASSUME NEW k \in Nat PROVE f[k] = h[k]
  <2>1. f[k] \subseteq h[k]
    BY <1>6 DEF f
  <2>2. QED
    BY <1>5, <2>1
<1>8. f = h
  BY <1>2, <1>7
<1>9. BallEquation(f, r, G)
  BY <1>8 DEF BallEquation
<1>10. QED
  BY <1>9

\* The balls of a search: the root, then one more edge each.
LEMMA BallSteps ==
  /\ Ball[0] = {root}
  /\ \A n \in Nat : Ball[n + 1] = Ball[n] \cup Successors(graph, Ball[n])
<1>1. \E f : BallEquation(f, root, graph)
  BY BallExists
<1>2. BallEquation(Ball, root, graph)
  BY <1>1, Zenon DEF Ball, BallEquation, Successors
<1>3. 0 \in Nat /\ \A n \in Nat : n + 1 \in Nat /\ n + 1 # 0 /\ (n + 1) - 1 = n
  OBVIOUS
<1>4. \A n \in Nat : Ball[n] = IF n = 0 THEN {root} ELSE Ball[n - 1] \cup Successors(graph, Ball[n - 1])
  BY <1>2, Zenon DEF BallEquation
<1>5. QED
  BY <1>3, <1>4

\* The smallest ball is the root.
LEMMA BallAtRoot == Ball[0] = {root}
  BY BallSteps

\* A ball holds the smaller ones.
LEMMA BallGrows == \A n, m \in Nat : n <= m => Ball[n] \subseteq Ball[m]
<1> SUFFICES ASSUME NEW n \in Nat, NEW m \in Nat, n <= m PROVE Ball[n] \subseteq Ball[m]
  OBVIOUS
<1> DEFINE S == {k \in Nat : Ball[n] \subseteq Ball[n + k]}
<1>1. 0 \in S
  <2>1. n + 0 = n
    OBVIOUS
  <2>2. QED
    BY <2>1
<1>2. ASSUME NEW k \in Nat, k \in S PROVE k + 1 \in S
  <2>1. n + (k + 1) = (n + k) + 1 /\ n + k \in Nat
    OBVIOUS
  <2>2. Ball[n + k] \subseteq Ball[(n + k) + 1]
    BY <2>1, BallSteps
  <2>3. QED
    BY <1>2, <2>1, <2>2
<1> HIDE DEF S
<1>3. \A k \in Nat : k \in S
  BY <1>1, <1>2, SetInduction
<1>4. m - n \in Nat /\ n + (m - n) = m
  OBVIOUS
<1>5. QED
  BY <1>3, <1>4 DEF S

\* Steps that leave the root and the graph alone leave the balls alone.
LEMMA BallKept == ASSUME UNCHANGED <<root, graph>> PROVE Ball' = Ball
  BY Zenon DEF Ball

-----------------------------------------------------------------------------
(* The tiers of a breadth-first search.                                    *)

\* The balls below a tier are in the ball of the tier, and what is not below it is
\* in no smaller ball.
LEMMA BelowTier ==
  ASSUME NEW d \in Nat
  PROVE  /\ Below(d) \subseteq Ball[d]
         /\ Successors(graph, Below(d)) \subseteq Ball[d]
         /\ Below(d + 1) = Ball[d]
         /\ \A n \in Nat : \A x : (x \in Ball[n] /\ x \notin Below(d)) => Ball[d] \subseteq Ball[n]
<1>1. CASE d = 0
  <2>1. Below(d) = {} /\ Successors(graph, Below(d)) = {}
    BY <1>1 DEF Below, Successors
  <2>2. Below(d + 1) = Ball[d]
    BY <1>1 DEF Below
  <2>3. \A n \in Nat : Ball[d] \subseteq Ball[n]
    BY <1>1, BallGrows
  <2>4. QED
    BY <2>1, <2>2, <2>3
<1>2. CASE d # 0
  <2>1. d - 1 \in Nat /\ (d - 1) + 1 = d /\ d + 1 # 0 /\ (d + 1) - 1 = d
    BY <1>2
  <2>2. Below(d) = Ball[d - 1] /\ Below(d + 1) = Ball[d]
    BY <1>2, <2>1 DEF Below
  <2>3. Ball[d] = Ball[d - 1] \cup Successors(graph, Ball[d - 1])
    BY <2>1, BallSteps
  <2>4. ASSUME NEW n \in Nat, NEW x, x \in Ball[n], x \notin Below(d) PROVE Ball[d] \subseteq Ball[n]
    <3>1. ~(n <= d - 1)
      BY <2>1, <2>2, <2>4, BallGrows
    <3>2. d <= n
      BY <2>1, <3>1
    <3>3. QED
      BY <3>2, BallGrows
  <2>5. QED
    BY <2>2, <2>3, <2>4
<1>3. QED
  BY <1>1, <1>2

\* Steps that leave the root, the graph and the responses alone keep the order.
LEMMA OrderedKept == ASSUME Ordered, UNCHANGED <<root, graph, sent>> PROVE Ordered'
<1>1. Ball' = Ball
  BY BallKept
<1>2. QED
  BY <1>1 DEF Ordered

\* Nothing is in order before the first response.
LEMMA OrderedFirst == ASSUME sent = <<>> PROVE Ordered
  BY EmptySeq DEF Ordered

\* A response of the tier comes behind those of the tier and of the tiers below it.
LEMMA OrderedSend ==
  ASSUME SInv, Ordered, NEW d \in Nat, Sent \subseteq Ball[d], NEW x \in Messages, x \notin Below(d),
         sent' = Append(sent, x), UNCHANGED <<root, graph>>
  PROVE  Ordered'
<1>1. Ball' = Ball
  BY BallKept
<1>2. /\ Len(sent') = Len(sent) + 1 /\ Len(sent) \in Nat
      /\ \A i \in 1..Len(sent) : sent'[i] = sent[i]
      /\ sent'[Len(sent) + 1] = x
  BY ElementsAppend DEF SInv, TypeOK
<1>3. ASSUME NEW i \in 1..Len(sent'), NEW j \in 1..Len(sent'), NEW n \in Nat,
             i < j, sent'[j] \in Ball[n]
      PROVE  sent'[i] \in Ball[n]
  <2>1. i \in 1..Len(sent)
    BY <1>2, <1>3
  <2>2. CASE j \in 1..Len(sent)
    BY <1>2, <1>3, <2>1, <2>2 DEF Ordered
  <2>3. CASE j = Len(sent) + 1
    <3>1. x \in Ball[n]
      BY <1>2, <1>3, <2>3
    <3>2. Ball[d] \subseteq Ball[n]
      BY <3>1, BelowTier
    <3>3. sent[i] \in Ball[d]
      BY <2>1 DEF Sent
    <3>4. QED
      BY <1>2, <2>1, <3>2, <3>3
  <2>4. QED
    BY <1>2, <2>2, <2>3
<1>4. QED
  BY <1>1, <1>3 DEF Ordered

\* The first message starts tier 0, the root alone.
LEMMA TiersTakeRoot == ASSUME SInv, TakeRoot, method = BFS PROVE Ordered' /\ AtTier(0)'
<1>1. /\ sent = <<>> /\ toSend = <<>> /\ next = {}
      /\ UNCHANGED <<sent, toSend, next>> /\ queue' = {root'}
  BY DEF TakeRoot, SInv, ControlOK
<1>2. Sent' = {} /\ Held' = {}
  BY <1>1, EmptySeq DEF Sent, Held
<1>3. (Ball[0] = {root})'
  BY BallAtRoot, PTL
<1>4. Ordered'
  BY <1>1, EmptySeq DEF Ordered
<1>5. Below(0)' = {}
  BY DEF Below
<1>6. Successors(graph', Sent' \cup Held') = {}
  BY <1>2 DEF Successors
<1>7. QED
  BY <1>1, <1>2, <1>3, <1>4, <1>5, <1>6 DEF AtTier

\* A module is answered within its tier.
LEMMA TiersProcess ==
  ASSUME SInv, method = BFS, NEW d \in Nat, AtTier(d), NEW m \in Modules, Process(m)
  PROVE  AtTier(d)'
<1>1. /\ pc = "process" /\ m \in queue /\ queue' = queue \ {m}
      /\ toSend' = Append(toSend, m)
      /\ UNCHANGED <<root, graph, sent>>
      /\ next' = next \cup (Neighbours(m) \ seen)
  BY DEF Process, Unseen, BFS
<1>2. Held' = Held \cup {m} /\ Sent' = Sent
  BY <1>1, ElementsAppend, SentHeld DEF SInv, TypeOK, Elements, Held, Sent
<1>3. Ball' = Ball /\ Below(d)' = Below(d)
  BY <1>1, BallKept DEF Below
<1>4. seen = Ball[d] \cup next
  BY DEF AtTier, SInv, Frontier, NothingDropped, BFS
<1>5. Successors(graph, Sent \cup Held \cup {m}) = Successors(graph, Sent \cup Held) \cup Neighbours(m)
  BY DEF Successors, Neighbours
<1>6. next' = Successors(graph, Sent \cup Held \cup {m}) \ Ball[d]
  BY <1>1, <1>4, <1>5 DEF AtTier
<1>7. Sent \cup Held' \cup queue' = Ball[d] /\ Held' \cup queue' = Held \cup queue
  BY <1>1, <1>2 DEF AtTier
<1>8. next' = Successors(graph', Sent' \cup Held') \ Ball[d]
  <2>1. Sent' \cup Held' = Sent \cup Held \cup {m}
    BY <1>2
  <2>2. QED
    BY <1>1, <1>6, <2>1
<1>9. QED
  BY <1>1, <1>2, <1>3, <1>7, <1>8 DEF AtTier

\* A response of the tier is sent.
LEMMA TiersSend ==
  ASSUME SInv, Ordered, method = BFS, NEW d \in Nat, AtTier(d), Send
  PROVE  Ordered' /\ AtTier(d)'
<1> DEFINE x == Head(toSend)
<1>1. /\ pc = "flush" /\ toSend # <<>> /\ sent' = Append(sent, x) /\ toSend' = Tail(toSend)
      /\ UNCHANGED <<root, graph, queue, next>> /\ queue = {} /\ pc' # "process"
  BY DEF Send, Return, SInv, ControlOK, BFS
<1>2. x \in Messages /\ Held = Held' \cup {x}
  <2>1. toSend \in Seq(Messages)
    BY DEF SInv, TypeOK
  <2>2. x \in Messages /\ Elements(toSend) = Elements(Tail(toSend)) \cup {x}
    BY <1>1, <2>1, ElementsTail
  <2>3. QED
    BY <1>1, <2>2 DEF Elements, Held
<1> HIDE DEF x
<1>3. Sent' = Sent \cup {x}
  BY <1>1, <1>2, ElementsAppend DEF SInv, TypeOK, Elements, Sent
<1>4. Ball' = Ball /\ Below(d)' = Below(d)
  BY <1>1, BallKept DEF Below
<1>5. Sent \subseteq Ball[d] /\ x \notin Below(d)
  BY <1>2 DEF AtTier
<1>6. Ordered'
  BY <1>1, <1>2, <1>5, OrderedSend
<1>7. Sent' \cup Held' = Sent \cup Held
  BY <1>2, <1>3
<1>8. next' = Successors(graph', Sent' \cup Held') \ Ball[d]
  BY <1>1, <1>7 DEF AtTier
<1>9. /\ Sent' \cup Held' \cup queue' = Ball[d]
      /\ Below(d) \subseteq Sent' /\ (Held' \cup queue') \cap Below(d) = {}
  BY <1>1, <1>2, <1>3, <1>7 DEF AtTier
<1>10. QED
  BY <1>1, <1>4, <1>6, <1>8, <1>9 DEF AtTier

\* The next tier begins.
LEMMA TiersContinue ==
  ASSUME SInv, method = BFS, NEW d \in Nat, AtTier(d), Continue, pc' = "process"
  PROVE  AtTier(d + 1)'
<1>1. /\ pc = "select" /\ queue' = next /\ next' = {}
      /\ UNCHANGED <<root, graph, sent, toSend>> /\ queue = {} /\ toSend = <<>>
  BY DEF Continue, Return, SInv, ControlOK, BFS
<1>2. Held = {} /\ Held' = {} /\ Sent' = Sent
  BY <1>1, EmptySeq DEF Held, Sent
<1>3. d + 1 \in Nat
  OBVIOUS
<1>4. Ball' = Ball /\ Below(d + 1)' = Below(d + 1)
  BY <1>1, BallKept DEF Below
<1>5. Sent = Ball[d] /\ next = Successors(graph, Ball[d]) \ Ball[d]
  <2>1. Sent \cup Held = Sent
    BY <1>2
  <2>2. QED
    BY <1>1, <1>2, <2>1 DEF AtTier
<1>6. Ball[d + 1] = Ball[d] \cup Successors(graph, Ball[d])
  BY BallSteps
<1>7. Below(d + 1) = Ball[d]
  BY BelowTier
<1>8. Successors(graph', Sent' \cup Held') \ Ball[d + 1] = {}
  <2>1. Sent' \cup Held' = Ball[d]
    BY <1>2, <1>5
  <2>2. QED
    BY <1>1, <1>6, <2>1
<1>9. QED
  BY <1>1, <1>2, <1>4, <1>5, <1>6, <1>7, <1>8 DEF AtTier

\* A tier stays as it is when nothing the search holds changes.
LEMMA AtTierKept ==
  ASSUME NEW d \in Nat, AtTier(d), UNCHANGED <<root, graph, sent, toSend, queue, next, pc>>
  PROVE  AtTier(d)'
<1>1. Ball' = Ball /\ Below(d)' = Below(d) /\ Sent' = Sent /\ Held' = Held
  BY BallKept DEF Below, Sent, Held
<1>2. QED
  BY <1>1 DEF AtTier

\* Every step of the search keeps the tiers.
LEMMA TiersKept == ASSUME SInv, Tiers, [Next]_vars PROVE Tiers'
<1> SUFFICES ASSUME method' = BFS, changes' = 0
             PROVE  Ordered' /\ (pc' \in {"process", "flush", "select"} => \E d \in Nat : AtTier(d)')
  BY DEF Tiers
<1>1. ~GraphChanges
  BY BoundsAssumption DEF GraphChanges, SInv, TypeOK
<1>2. method = BFS /\ changes = 0
  BY <1>1 DEF Next, Handler, TakeRoot, SearchDone, Process, ProcessOther, ProcessFails, Send,
     SendFails, Continue, Reader, ReaderSelects, ReaderReceives, ReaderSends, ReaderFails,
     Environment, ClientSends, ClientCloses, ContextDone, vars
<1>3. Ordered /\ (pc \in {"process", "flush", "select"} => \E d \in Nat : AtTier(d))
  BY <1>2 DEF Tiers
<1>4. CASE TakeRoot
  BY <1>2, <1>4, TiersTakeRoot
<1>5. CASE \E m \in Modules : Process(m)
  <2>1. PICK m \in Modules : Process(m)
    BY <1>5
  <2>2. PICK d \in Nat : AtTier(d)
    BY <1>3, <2>1 DEF Process
  <2>3. AtTier(d)'
    BY <1>2, <2>1, <2>2, TiersProcess
  <2>4. Ordered'
    BY <1>3, <2>1, OrderedKept DEF Process
  <2>5. QED
    BY <2>3, <2>4
<1>6. CASE Send
  <2>1. PICK d \in Nat : AtTier(d)
    BY <1>3, <1>6 DEF Send
  <2>2. Ordered' /\ AtTier(d)'
    BY <1>2, <1>3, <1>6, <2>1, TiersSend
  <2>3. QED
    BY <2>2
<1>7. CASE Continue
  <2>1. Ordered'
    BY <1>3, <1>7, OrderedKept DEF Continue
  <2>2. pc' = "process" \/ pc' = "returned"
    BY <1>7 DEF Continue, Return
  <2>3. ASSUME pc' = "process" PROVE \E d \in Nat : AtTier(d)'
    <3>1. PICK d \in Nat : AtTier(d)
      BY <1>3, <1>7 DEF Continue
    <3>2. AtTier(d + 1)' /\ d + 1 \in Nat
      BY <1>2, <1>7, <2>3, <3>1, TiersContinue
    <3>3. QED
      BY <3>2
  <2>4. QED
    BY <2>1, <2>2, <2>3
<1>8. CASE SearchDone \/ ProcessOther \/ ProcessFails \/ SendFails
  <2>1. UNCHANGED <<root, graph, sent>> /\ pc' = "returned"
    BY <1>2, <1>8 DEF SearchDone, ProcessOther, ProcessFails, SendFails, Return, BFS
  <2>2. QED
    BY <1>3, <2>1, OrderedKept
<1>9. CASE Reader \/ Environment \/ UNCHANGED vars
  <2>1. UNCHANGED <<root, graph, sent, toSend, queue, next, pc>>
    BY <1>1, <1>9 DEF Reader, ReaderSelects, ReaderReceives, ReaderSends, ReaderFails,
       Environment, ClientSends, ClientCloses, ContextDone, vars
  <2>2. Ordered'
    BY <1>3, <2>1, OrderedKept
  <2>3. QED
    BY <1>3, <2>1, <2>2, AtTierKept
<1>10. QED
  BY <1>4, <1>5, <1>6, <1>7, <1>8, <1>9 DEF Next, Handler

\* Before the first message there is neither a response nor a tier.
LEMMA TiersStart == Init => Tiers
  BY OrderedFirst DEF Init, Tiers

\* Balls up to any radius are more than TierOrder speaks of.
LEMMA OrderHoldsByTier == (SInv /\ Tiers) => TierOrder
<1> SUFFICES ASSUME Tiers, method = BFS, changes = 0,
                    NEW i \in 1..Len(sent), NEW j \in 1..Len(sent), NEW n \in 0..Cardinality(Modules),
                    i < j, sent[j] \in Ball[n]
             PROVE  sent[i] \in Ball[n]
  BY DEF TierOrder, BFS
<1>1. n \in Nat
  OBVIOUS
<1>2. QED
  BY <1>1 DEF Tiers, Ordered

\* On a graph that does not change, of any size and shape, a breadth-first search
\* sends its responses in the order of their distance from the root.
THEOREM SearchInTiers == Spec => []TierOrder
<1>1. SInv /\ Tiers /\ [Next]_vars => (SInv /\ Tiers)'
  BY SearchKeeps, TiersKept
<1>2. QED
  BY <1>1, SearchStarts, TiersStart, OrderHoldsByTier, PTL DEF Spec

\* And so they come to a user of the gateway, who gets a prefix of them.
THEOREM GatewaySearchInTiers == GatewaySpec => []TierOrder
<1>1. GInv /\ Tiers /\ [GatewayNext]_allVars => (GInv /\ Tiers)'
  <2> SUFFICES ASSUME GInv, Tiers, [GatewayNext]_allVars PROVE (GInv /\ Tiers)'
    OBVIOUS
  <2>1. [Next]_vars
    BY GatewaySteps DEF GInv
  <2>2. QED
    BY <2>1, GatewayKeeps, TiersKept DEF GInv
<1>2. GatewayInit => GInv /\ Tiers
  BY GatewayStarts, TiersStart DEF GatewayInit
<1>3. GInv /\ Tiers => TierOrder
  BY OrderHoldsByTier DEF GInv
<1>4. QED
  BY <1>1, <1>2, <1>3, PTL DEF GatewaySpec
=============================================================================
